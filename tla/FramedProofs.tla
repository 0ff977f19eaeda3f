----------------------------- MODULE FramedProofs -----------------------------
(***************************************************************************)
(* TLAPS proofs about Framed, for any sets of calls, message types and     *)
(* requests and any number of frames.                                      *)
(***************************************************************************)
EXTENDS Framed, TLAPS, SequenceTheorems, WellFoundedInduction

(***************************************************************************)
(* Lemmas about the queues                                                 *)
(***************************************************************************)

\* Every non-empty set of naturals has a least element.
LEMMA LeastNatural ==
    ASSUME NEW S \in SUBSET Nat, S # {}
    PROVE  \E m \in S : \A n \in S : m <= n
<1> DEFINE R == OpToRel(<, Nat)
<1>1. IsWellFoundedOn(R, Nat)
  BY NatLessThanWellFounded
<1>2. PICK m \in S : \A n \in S : ~ (<<n, m>> \in R)
  <2> HIDE DEF R
  <2> QED BY <1>1, WFMin
<1>3. \A n \in S : ~ (n < m)
  BY <1>2 DEF OpToRel
<1> QED BY <1>3

\* RemoveAt, the model of slices.Delete(frames, i, i+1), drops one position.
LEMMA RemoveAtProperties ==
    ASSUME NEW S, NEW s \in Seq(S), NEW i \in 1..Len(s)
    PROVE  /\ RemoveAt(s, i) \in Seq(S)
           /\ Len(RemoveAt(s, i)) = Len(s) - 1
           /\ \A k \in 1..(Len(s) - 1) :
                RemoveAt(s, i)[k] = IF k < i THEN s[k] ELSE s[k + 1]
<1> DEFINE a == SubSeq(s, 1, i - 1)
           b == SubSeq(s, i + 1, Len(s))
<1>1. /\ a \in Seq(S) /\ Len(a) = i - 1
      /\ \A k \in 1..(i - 1) : a[k] = s[k]
  BY DEF a
<1>2. /\ b \in Seq(S) /\ Len(b) = Len(s) - i
      /\ \A k \in 1..(Len(s) - i) : b[k] = s[i + k]
  BY DEF b
<1>3. RemoveAt(s, i) = a \o b
  BY DEF RemoveAt
<1> HIDE DEF a, b
<1>4. /\ a \o b \in Seq(S) /\ Len(a \o b) = Len(s) - 1
      /\ \A k \in 1..(Len(s) - 1) :
           (a \o b)[k] = IF k <= i - 1 THEN a[k] ELSE b[k - (i - 1)]
  <2>1. /\ a \o b \in Seq(S)
        /\ Len(a \o b) = Len(a) + Len(b)
        /\ \A k \in 1..(Len(a) + Len(b)) :
             (a \o b)[k] = IF k <= Len(a) THEN a[k] ELSE b[k - Len(a)]
    BY <1>1, <1>2, ConcatProperties
  <2>2. Len(a) + Len(b) = Len(s) - 1
    BY <1>1, <1>2
  <2> QED BY <2>1, <2>2, <1>1
<1>5. ASSUME NEW k \in 1..(Len(s) - 1)
      PROVE  (a \o b)[k] = IF k < i THEN s[k] ELSE s[k + 1]
  <2>1. CASE k < i
    BY <2>1, <1>1, <1>4
  <2>2. CASE ~(k < i)
    <3>1. k - (i - 1) \in 1..(Len(s) - i) /\ i + (k - (i - 1)) = k + 1
      BY <2>2
    <3> QED BY <2>2, <3>1, <1>2, <1>4
  <2> QED BY <2>1, <2>2
<1> QED BY <1>3, <1>4, <1>5

Queues == [Types -> Seq(Frame)]

\* A non-empty set of hits has a first one, so FirstHit is one of the hits and
\* none comes before it.
LEMMA FirstHitProperties ==
    ASSUME NEW fr \in Queues, NEW r \in Requests, Hits(fr, r) # {}
    PROVE  /\ FirstHit(fr, r) \in Hits(fr, r)
           /\ \A q \in Hits(fr, r) : Before(FirstHit(fr, r), q)
<1> DEFINE H == Hits(fr, r)
<1>1. H \subseteq Nat \X Nat
  BY RequestsAssumption DEF Hits, Queues
<1> HIDE DEF H
<1> DEFINE I == {p[1] : p \in H}
<1>2. PICK i \in I : \A k \in I : i <= k
  <2>1. I \in SUBSET Nat /\ I # {}
    BY <1>1 DEF H
  <2> QED BY <2>1, LeastNatural
<1> DEFINE J == {p[2] : p \in {q \in H : q[1] = i}}
<1>3. PICK j \in J : \A k \in J : j <= k
  <2>1. J \in SUBSET Nat /\ J # {}
    BY <1>1, <1>2
  <2> QED BY <2>1, LeastNatural
<1>4. PICK p \in H : p[1] = i /\ p[2] = j
  BY <1>3
<1>5. \A q \in H : Before(p, q)
  <2> SUFFICES ASSUME NEW q \in H PROVE Before(p, q)
    OBVIOUS
  <2>1. q[1] \in Nat /\ q[2] \in Nat /\ p[1] \in Nat /\ p[2] \in Nat /\ i <= q[1]
    BY <1>1, <1>2
  <2>2. q[1] = i => j <= q[2]
    BY <1>3
  <2> QED BY <1>4, <2>1, <2>2 DEF Before
<1>6. \E x \in H : \A q \in H : Before(x, q)
  BY <1>5
<1> QED BY <1>6 DEF FirstHit, H

\* Every frame lies under the key of its own type.
Filed(fr) == \A t \in Types : \A i \in DOMAIN fr[t] : fr[t][i].type = t

\* Every queue holds its frames in the order they were read.
InOrder(fr) ==
    \A t \in Types : \A i, j \in DOMAIN fr[t] : i < j => fr[t][i].id < fr[t][j].id

\* A frame is queued where some position of some queue holds it.
LEMMA QueuedMember ==
    ASSUME NEW fr \in Queues, NEW f
    PROVE  f \in Queued(fr) <=> \E t \in Types : \E i \in DOMAIN fr[t] : f = fr[t][i]
BY DEF Queued, ToSet, Queues

\* What a position that qualifies refers to.
LEMMA HitMember ==
    ASSUME NEW fr \in Queues, NEW r \in Requests, NEW p
    PROVE  p \in Hits(fr, r) <=>
             /\ p = <<p[1], p[2]>>
             /\ p[1] \in 1..Len(r.types) /\ r.types[p[1]] \in Types
             /\ p[2] \in 1..Len(fr[r.types[p[1]]])
             /\ FrameAt(fr, r, p).label \in r.accept
<1>1. /\ DOMAIN r.types = 1..Len(r.types)
      /\ \A i \in DOMAIN r.types : r.types[i] \in Types
  BY RequestsAssumption
<1>2. \A t \in Types : DOMAIN fr[t] = 1..Len(fr[t])
  BY DEF Queues
<1> QED BY <1>1, <1>2 DEF Hits, FrameAt

\* Filing a frame that is newer than all queued ones.
LEMMA FileProperties ==
    ASSUME NEW fr \in Queues, Filed(fr), InOrder(fr), NEW f \in Frame,
           \A g \in Queued(fr) : g.id < f.id
    PROVE  /\ File(fr, f) \in Queues
           /\ Filed(File(fr, f)) /\ InOrder(File(fr, f))
           /\ Queued(File(fr, f)) = Queued(fr) \cup {f}
<1> DEFINE u == f.type
           q == fr[u]
           new == File(fr, f)
<1>1. u \in Types /\ q \in Seq(Frame)
  BY DEF Frame, Queues
<1>2. /\ Append(q, f) \in Seq(Frame) /\ Len(Append(q, f)) = Len(q) + 1
      /\ \A i \in 1..Len(q) : Append(q, f)[i] = q[i]
      /\ Append(q, f)[Len(q) + 1] = f
  BY <1>1, AppendProperties
<1>3. /\ new \in Queues
      /\ new[u] = Append(q, f)
      /\ \A t \in Types \ {u} : new[t] = fr[t]
  BY <1>1, <1>2 DEF File, Queues
<1>4. /\ \A t \in Types : DOMAIN fr[t] = 1..Len(fr[t]) /\ Len(fr[t]) \in Nat
      /\ DOMAIN new[u] = 1..(Len(q) + 1)
  BY <1>1, <1>2, <1>3 DEF Queues
<1>5. \A i \in 1..Len(q) : q[i] \in Frame /\ q[i] \in Queued(fr) /\ q[i].id < f.id
  BY <1>1, <1>4, QueuedMember
<1> HIDE DEF new, q, u
<1>6. Filed(new)
  <2> SUFFICES ASSUME NEW t \in Types, NEW i \in DOMAIN new[t]
               PROVE  new[t][i].type = t
    BY DEF Filed
  <2>1. CASE t # u
    BY <2>1, <1>3 DEF Filed
  <2>2. CASE t = u /\ i = Len(q) + 1
    BY <2>2, <1>2, <1>3 DEF u
  <2>3. CASE t = u /\ i # Len(q) + 1
    <3>1. i \in 1..Len(q) /\ i \in DOMAIN fr[u] /\ q = fr[u]
      BY <2>3, <1>1, <1>4 DEF q
    <3> QED BY <2>3, <3>1, <1>1, <1>2, <1>3 DEF Filed
  <2> QED BY <2>1, <2>2, <2>3
<1>7. InOrder(new)
  <2> SUFFICES ASSUME NEW t \in Types, NEW i \in DOMAIN new[t], NEW j \in DOMAIN new[t], i < j
               PROVE  new[t][i].id < new[t][j].id
    BY DEF InOrder
  <2>1. CASE t # u
    BY <2>1, <1>3 DEF InOrder
  <2>2. CASE t = u /\ j = Len(q) + 1
    BY <2>2, <1>1, <1>2, <1>3, <1>4, <1>5
  <2>3. CASE t = u /\ j # Len(q) + 1
    <3>1. i \in 1..Len(q) /\ j \in 1..Len(q) /\ q = fr[u]
      BY <2>3, <1>4, <1>1 DEF q
    <3>2. q[i].id < q[j].id
      BY <3>1, <1>1, <1>4 DEF InOrder
    <3> QED BY <2>3, <3>1, <3>2, <1>2, <1>3
  <2> QED BY <2>1, <2>2, <2>3
<1>8. Queued(new) = Queued(fr) \cup {f}
  <2>1. ASSUME NEW g \in Queued(new) PROVE g \in Queued(fr) \cup {f}
    <3>1. PICK t \in Types : \E i \in DOMAIN new[t] : g = new[t][i]
      BY <1>3, QueuedMember
    <3>2. PICK i \in DOMAIN new[t] : g = new[t][i]
      BY <3>1
    <3>3. CASE t # u
      BY <3>2, <3>3, <1>3, QueuedMember
    <3>4. CASE t = u
      BY <3>2, <3>4, <1>1, <1>2, <1>3, <1>4, <1>5
    <3> QED BY <3>3, <3>4
  <2>2. ASSUME NEW g \in Queued(fr) PROVE g \in Queued(new)
    <3>1. PICK t \in Types : \E i \in DOMAIN fr[t] : g = fr[t][i]
      BY QueuedMember
    <3>2. PICK i \in DOMAIN fr[t] : g = fr[t][i]
      BY <3>1
    <3>3. i \in DOMAIN new[t] /\ g = new[t][i]
      BY <3>2, <1>1, <1>2, <1>3, <1>4 DEF q
    <3> QED BY <3>3, <1>3, QueuedMember
  <2>3. f \in Queued(new)
    <3>1. Len(q) + 1 \in DOMAIN new[u] /\ new[u][Len(q) + 1] = f
      BY <1>1, <1>2, <1>3, <1>4 DEF q
    <3> QED BY <3>1, <1>1, <1>3, QueuedMember
  <2> QED BY <2>1, <2>2, <2>3
<1> QED BY <1>3, <1>6, <1>7, <1>8 DEF new

\* Taking a frame that qualifies removes that frame and nothing else.
LEMMA TakeProperties ==
    ASSUME NEW fr \in Queues, Filed(fr), InOrder(fr),
           NEW r \in Requests, NEW p \in Hits(fr, r)
    PROVE  /\ Without(fr, r, p) \in Queues
           /\ Filed(Without(fr, r, p)) /\ InOrder(Without(fr, r, p))
           /\ FrameAt(fr, r, p) \in Frame
           /\ FrameAt(fr, r, p) \in Queued(fr)
           /\ FrameAt(fr, r, p).type = r.types[p[1]]
           /\ FrameAt(fr, r, p).label \in r.accept
           /\ Queued(Without(fr, r, p)) = Queued(fr) \ {FrameAt(fr, r, p)}
<1> DEFINE u == r.types[p[1]]
           m == p[2]
           q == fr[u]
           f == q[m]
           new == Without(fr, r, p)
<1>1. /\ u \in Types /\ q \in Seq(Frame) /\ m \in 1..Len(q) /\ m \in DOMAIN q
      /\ Len(q) \in Nat
      /\ f.label \in r.accept /\ FrameAt(fr, r, p) = f
  BY HitMember DEF Queues, FrameAt
<1>2. /\ RemoveAt(q, m) \in Seq(Frame) /\ Len(RemoveAt(q, m)) = Len(q) - 1
      /\ \A k \in 1..(Len(q) - 1) :
           RemoveAt(q, m)[k] = IF k < m THEN q[k] ELSE q[k + 1]
  BY <1>1, RemoveAtProperties
<1>3. /\ new \in Queues
      /\ new[u] = RemoveAt(q, m)
      /\ \A t \in Types \ {u} : new[t] = fr[t]
  BY <1>1, <1>2 DEF Without, Queues
<1>4. /\ \A t \in Types : DOMAIN fr[t] = 1..Len(fr[t])
      /\ DOMAIN new[u] = 1..(Len(q) - 1)
  BY <1>1, <1>2, <1>3 DEF Queues
<1>5. f \in Frame /\ f \in Queued(fr) /\ f.type = u
  BY <1>1, QueuedMember DEF Filed
<1> HIDE DEF new, u, m
\* Each remaining position of the queue is a position of the old one, in order.
<1> DEFINE old(k) == IF k < m THEN k ELSE k + 1
<1>6. \A k \in 1..(Len(q) - 1) : /\ old(k) \in 1..Len(q) /\ old(k) # m
                                /\ new[u][k] = q[old(k)]
  BY <1>1, <1>2, <1>3
<1>7. \A k \in 1..Len(q) : k # m => \E n \in 1..(Len(q) - 1) : old(n) = k
  <2> SUFFICES ASSUME NEW k \in 1..Len(q), k # m
               PROVE  \E n \in 1..(Len(q) - 1) : old(n) = k
    OBVIOUS
  <2>1. CASE k < m
    BY <2>1, <1>1
  <2>2. CASE k > m
    <3>1. k - 1 \in 1..(Len(q) - 1) /\ old(k - 1) = k
      BY <2>2, <1>1
    <3> QED BY <3>1
  <2> QED BY <2>1, <2>2, <1>1
<1>8. \A i, j \in 1..(Len(q) - 1) : i < j => old(i) < old(j)
  BY <1>1
<1> HIDE DEF old
<1>9. Filed(new)
  <2> SUFFICES ASSUME NEW t \in Types, NEW i \in DOMAIN new[t]
               PROVE  new[t][i].type = t
    BY DEF Filed
  <2>1. CASE t # u
    BY <2>1, <1>3 DEF Filed
  <2>2. CASE t = u
    BY <2>2, <1>1, <1>4, <1>6 DEF Filed
  <2> QED BY <2>1, <2>2
<1>10. InOrder(new)
  <2> SUFFICES ASSUME NEW t \in Types, NEW i \in DOMAIN new[t], NEW j \in DOMAIN new[t], i < j
               PROVE  new[t][i].id < new[t][j].id
    BY DEF InOrder
  <2>1. CASE t # u
    BY <2>1, <1>3 DEF InOrder
  <2>2. CASE t = u
    <3>1. /\ i \in 1..(Len(q) - 1) /\ j \in 1..(Len(q) - 1)
          /\ old(i) \in DOMAIN fr[u] /\ old(j) \in DOMAIN fr[u] /\ old(i) < old(j)
      BY <2>2, <1>1, <1>4, <1>6, <1>8
    <3> QED BY <2>2, <3>1, <1>1, <1>6 DEF InOrder
  <2> QED BY <2>1, <2>2
<1>11. Queued(new) = Queued(fr) \ {f}
  <2>1. ASSUME NEW g \in Queued(new) PROVE g \in Queued(fr) /\ g # f
    <3>1. PICK t \in Types : \E i \in DOMAIN new[t] : g = new[t][i]
      BY <1>3, QueuedMember
    <3>2. PICK i \in DOMAIN new[t] : g = new[t][i]
      BY <3>1
    <3>3. CASE t # u
      <4>1. i \in DOMAIN fr[t] /\ g = fr[t][i] /\ g.type = t
        BY <3>2, <3>3, <1>3 DEF Filed
      <4> QED BY <4>1, <3>3, <1>5, QueuedMember
    <3>4. CASE t = u
      <4>1. /\ i \in 1..(Len(q) - 1) /\ g = q[old(i)]
            /\ old(i) \in DOMAIN fr[u] /\ old(i) \in Nat /\ old(i) # m
        BY <3>2, <3>4, <1>1, <1>4, <1>6
      <4>2. q[old(i)].id < f.id \/ f.id < q[old(i)].id
        BY <4>1, <1>1 DEF InOrder
      <4>3. f.id \in Nat
        BY <1>5 DEF Frame
      <4> QED BY <4>1, <4>2, <4>3, <1>1, QueuedMember
    <3> QED BY <3>3, <3>4
  <2>2. ASSUME NEW g \in Queued(fr), g # f PROVE g \in Queued(new)
    <3>1. PICK t \in Types : \E i \in DOMAIN fr[t] : g = fr[t][i]
      BY QueuedMember
    <3>2. PICK i \in DOMAIN fr[t] : g = fr[t][i]
      BY <3>1
    <3>3. CASE t # u
      BY <3>2, <3>3, <1>3, QueuedMember
    <3>4. CASE t = u
      <4>1. i \in 1..Len(q) /\ i # m
        BY <2>2, <3>2, <3>4, <1>4
      <4>2. PICK n \in 1..(Len(q) - 1) : old(n) = i
        BY <4>1, <1>7
      <4>3. n \in DOMAIN new[u] /\ new[u][n] = g
        BY <3>2, <3>4, <4>2, <1>4, <1>6
      <4> QED BY <4>3, <1>1, <1>3, QueuedMember
    <3> QED BY <3>3, <3>4
  <2> QED BY <2>1, <2>2
<1> QED BY <1>1, <1>3, <1>5, <1>9, <1>10, <1>11 DEF new, u

\* Whether anything qualifies, said of the frames and not of their positions.
LEMMA NoHits ==
    ASSUME NEW fr \in Queues, Filed(fr), NEW r \in Requests
    PROVE  Hits(fr, r) = {} <=>
             \A f \in Queued(fr) : f.label \in r.accept =>
                 \A i \in 1..Len(r.types) : r.types[i] # f.type
<1>1. \A i \in 1..Len(r.types) : r.types[i] \in Types
  BY RequestsAssumption
<1>2. \A t \in Types : DOMAIN fr[t] = 1..Len(fr[t])
  BY DEF Queues
<1>3. ASSUME NEW p \in Hits(fr, r)
      PROVE  \E f \in Queued(fr) : /\ f.label \in r.accept
                                   /\ \E i \in 1..Len(r.types) : r.types[i] = f.type
  BY HitMember, QueuedMember, <1>2 DEF FrameAt, Filed
<1>4. ASSUME NEW f \in Queued(fr), f.label \in r.accept,
             NEW i \in 1..Len(r.types), r.types[i] = f.type
      PROVE  Hits(fr, r) # {}
  <2>1. PICK t \in Types : \E j \in DOMAIN fr[t] : f = fr[t][j]
    BY QueuedMember
  <2>2. PICK j \in DOMAIN fr[t] : f = fr[t][j]
    BY <2>1
  <2>3. t = r.types[i]
    BY <2>2, <1>4 DEF Filed
  <2>4. FrameAt(fr, r, <<i, j>>) = f
    BY <2>2, <2>3 DEF FrameAt
  <2>5. <<i, j>> \in Hits(fr, r)
    BY <2>2, <2>3, <2>4, <1>1, <1>2, <1>4, HitMember
  <2> QED BY <2>5
<1> QED BY <1>3, <1>4

-----------------------------------------------------------------------------
(***************************************************************************)
(* The inductive invariant                                                 *)
(***************************************************************************)

\* The mutex is held across steps by the one waiter between search and park.
MutexInv == \A c \in Calls : pc[c] \in {"check", "park"} <=> mu = c

\* From the failed search until it is woken, a waiter has nothing to take.
SearchInv ==
    \A c \in Calls : pc[c] \in {"check", "park", "parked"} => Hits(frames, req[c]) = {}

\* A watcher outlives its waiter's need of it: it ends early only after a
\* broadcast, and then the waiter is before its look at the expired context.
WatchInv ==
    \A c \in Calls :
        /\ watcher[c] = "lock" => expired[c]
        /\ pc[c] \in {"lock", "check", "park", "parked"} => watcher[c] # "none"
        /\ pc[c] \in {"idle", "write", "enter"} => watcher[c] = "none"
        /\ watcher[c] = "exited" /\ ~Returned(c) => expired[c] /\ pc[c] \in {"lock", "check"}

\* The receiver holds a frame exactly while it waits for the mutex, and that
\* frame is the newest.
HandInv ==
    \/ rx # "lock" /\ inHand = {}
    \/ /\ rx = "lock" /\ nread # 0
       /\ \E f \in inHand : inHand = {f} /\ f.id = nread

Taken == UNION {got[c] : c \in Calls}

Filings == IF rx = "lock" THEN nread - 1 ELSE nread

\* Frames beyond the receiver's hand are older than the one in it; queues are
\* in order; queued, taken and held frames are apart and are all there is.
FrameInv ==
    /\ InOrder(frames)
    /\ {f.id : f \in Queued(frames) \cup Taken} = 1..Filings
    /\ Queued(frames) \cap Taken = {}
    /\ \A c, d \in Calls : c # d => got[c] \cap got[d] = {}

\* A call that has not returned a frame holds none.
ResultInv == \A c \in Calls : pc[c] # "returned" => got[c] = {}

IInv ==
    /\ TypeOK /\ MutexInv /\ SearchInv /\ WatchInv /\ HandInv /\ FrameInv
    /\ NoOvertaking /\ ResultInv

\* dialFramed starts with empty queues and nobody waiting: IInv holds.
LEMMA InitIInv == Init => IInv
<1> SUFFICES ASSUME Init PROVE IInv
  OBVIOUS
<1>1. frames \in Queues /\ \A t \in Types : frames[t] = <<>>
  BY DEF Init, EmptyQueues, Queues
<1>2. TypeOK
  <2>1. \A t \in Types : \A i \in DOMAIN frames[t] : frames[t][i].type = t
    BY <1>1
  <2> QED BY <1>1, <2>1 DEF Init, TypeOK, Queues
<1>3. Queued(frames) = {} /\ Taken = {}
  BY <1>1, QueuedMember DEF Init, Taken
<1>4. MutexInv /\ SearchInv /\ WatchInv /\ ResultInv /\ HandInv
  BY FramedAssumption DEF Init, MutexInv, ResultInv, SearchInv, WatchInv, HandInv, Returned
<1>5. FrameInv
  BY <1>1, <1>3 DEF Init, FrameInv, InOrder, Filings
<1>6. NoOvertaking
  BY DEF Init, NoOvertaking
<1> QED BY <1>2, <1>4, <1>5, <1>6 DEF IInv

\* The steps that touch neither the queues nor the receiver keep what is said
\* of frames.
LEMMA FramesUntouched ==
    ASSUME IInv, UNCHANGED <<frames, rx, inHand, nread, got, req>>
    PROVE  HandInv' /\ FrameInv' /\ NoOvertaking'
BY DEF IInv, HandInv, FrameInv, NoOvertaking, Filings, Taken, InOrder, Queued, ToSet

\* The steps of one call that touch no frame: Send, entering, parking, expiry
\* and the watcher.
LEMMA QuietStep ==
    ASSUME IInv, NEW c \in Calls,
           \/ SendCheck(c) \/ SendWrite(c) \/ Enter(c) \/ CheckContext(c) \/ Park(c)
           \/ Expire(c) \/ WatcherFires(c) \/ WatcherBroadcasts(c) \/ WatcherStops(c)
    PROVE  IInv'
<1> USE FramedAssumption
<1>1. TypeOK /\ MutexInv /\ SearchInv /\ WatchInv /\ ResultInv
  BY DEF IInv
<1>2. CASE SendCheck(c)
  <2>1. UNCHANGED <<frames, rx, inHand, nread, got, req>>
    BY <1>2 DEF SendCheck, rxVars
  <2>2. TypeOK'
    BY <1>1, <1>2 DEF TypeOK, SendCheck, rxVars
  <2>3. MutexInv' /\ ResultInv'
    BY <1>1, <1>2 DEF TypeOK, MutexInv, ResultInv, SendCheck
  <2>4. SearchInv'
    BY <1>1, <1>2, <2>1 DEF TypeOK, SearchInv, SendCheck
  <2>5. WatchInv'
    BY <1>1, <1>2 DEF TypeOK, MutexInv, ResultInv, WatchInv, Returned, SendCheck
  <2> QED BY <2>1, <2>2, <2>3, <2>4, <2>5, FramesUntouched DEF IInv
<1>3. CASE SendWrite(c)
  <2>1. UNCHANGED <<frames, rx, inHand, nread, got, req>>
    BY <1>3 DEF SendWrite, rxVars
  <2>2. TypeOK'
    BY <1>1, <1>3 DEF TypeOK, SendWrite, rxVars
  <2>3. MutexInv' /\ ResultInv'
    BY <1>1, <1>3 DEF TypeOK, MutexInv, ResultInv, SendWrite
  <2>4. SearchInv'
    BY <1>1, <1>3, <2>1 DEF TypeOK, SearchInv, SendWrite
  <2>5. WatchInv'
    BY <1>1, <1>3 DEF TypeOK, MutexInv, ResultInv, WatchInv, Returned, SendWrite
  <2> QED BY <2>1, <2>2, <2>3, <2>4, <2>5, FramesUntouched DEF IInv
<1>4. CASE Enter(c)
  <2>1. UNCHANGED <<frames, rx, inHand, nread, got, req>>
    BY <1>4 DEF Enter, rxVars
  <2>2. TypeOK'
    BY <1>1, <1>4 DEF TypeOK, Enter, rxVars
  <2>3. MutexInv' /\ ResultInv'
    BY <1>1, <1>4 DEF TypeOK, MutexInv, ResultInv, Enter
  <2>4. SearchInv'
    BY <1>1, <1>4, <2>1 DEF TypeOK, SearchInv, Enter
  <2>5. WatchInv'
    BY <1>1, <1>4 DEF TypeOK, MutexInv, ResultInv, WatchInv, Returned, Enter
  <2> QED BY <2>1, <2>2, <2>3, <2>4, <2>5, FramesUntouched DEF IInv
<1>5. CASE CheckContext(c)
  <2>1. UNCHANGED <<frames, rx, inHand, nread, got, req>>
    BY <1>5 DEF CheckContext, rxVars
  <2>2. TypeOK'
    BY <1>1, <1>5 DEF TypeOK, CheckContext, rxVars
  <2>3. MutexInv' /\ ResultInv'
    BY <1>1, <1>5 DEF TypeOK, MutexInv, ResultInv, CheckContext
  <2>4. SearchInv'
    BY <1>1, <1>5, <2>1 DEF TypeOK, SearchInv, CheckContext
  <2>5. WatchInv'
    BY <1>1, <1>5 DEF TypeOK, MutexInv, ResultInv, WatchInv, Returned, CheckContext
  <2> QED BY <2>1, <2>2, <2>3, <2>4, <2>5, FramesUntouched DEF IInv
<1>6. CASE Park(c)
  <2>1. UNCHANGED <<frames, rx, inHand, nread, got, req>>
    BY <1>6 DEF Park, rxVars
  <2>2. TypeOK'
    BY <1>1, <1>6 DEF TypeOK, Park, rxVars
  <2>3. MutexInv' /\ ResultInv'
    BY <1>1, <1>6 DEF TypeOK, MutexInv, ResultInv, Park
  <2>4. SearchInv'
    BY <1>1, <1>6, <2>1 DEF TypeOK, SearchInv, Park
  <2>5. WatchInv'
    BY <1>1, <1>6 DEF TypeOK, MutexInv, ResultInv, WatchInv, Returned, Park
  <2> QED BY <2>1, <2>2, <2>3, <2>4, <2>5, FramesUntouched DEF IInv
<1>7. CASE Expire(c)
  <2>1. UNCHANGED <<frames, rx, inHand, nread, got, req>>
    BY <1>7 DEF Expire, rxVars
  <2>2. TypeOK'
    BY <1>1, <1>7 DEF TypeOK, Expire, rxVars
  <2>3. MutexInv' /\ ResultInv'
    BY <1>1, <1>7 DEF TypeOK, MutexInv, ResultInv, Expire
  <2>4. SearchInv'
    BY <1>1, <1>7, <2>1 DEF TypeOK, SearchInv, Expire
  <2>5. WatchInv'
    BY <1>1, <1>7 DEF TypeOK, MutexInv, ResultInv, WatchInv, Returned, Expire
  <2> QED BY <2>1, <2>2, <2>3, <2>4, <2>5, FramesUntouched DEF IInv
<1>8. CASE WatcherFires(c)
  <2>1. UNCHANGED <<frames, rx, inHand, nread, got, req>>
    BY <1>8 DEF WatcherFires, rxVars
  <2>2. TypeOK'
    BY <1>1, <1>8 DEF TypeOK, WatcherFires, rxVars
  <2>3. MutexInv' /\ ResultInv'
    BY <1>1, <1>8 DEF TypeOK, MutexInv, ResultInv, WatcherFires
  <2>4. SearchInv'
    BY <1>1, <1>8, <2>1 DEF TypeOK, SearchInv, WatcherFires
  <2>5. WatchInv'
    BY <1>1, <1>8 DEF TypeOK, MutexInv, ResultInv, WatchInv, Returned, WatcherFires
  <2> QED BY <2>1, <2>2, <2>3, <2>4, <2>5, FramesUntouched DEF IInv
<1>9. CASE WatcherBroadcasts(c)
  <2>1. UNCHANGED <<frames, rx, inHand, nread, got, req>>
    BY <1>9 DEF WatcherBroadcasts, rxVars
  <2>2. TypeOK'
    BY <1>1, <1>9 DEF TypeOK, WatcherBroadcasts, rxVars, Woken
  <2>3. MutexInv' /\ ResultInv'
    BY <1>1, <1>9 DEF TypeOK, MutexInv, ResultInv, WatcherBroadcasts, Woken
  <2>4. SearchInv'
    BY <1>1, <1>9, <2>1 DEF TypeOK, SearchInv, WatcherBroadcasts, Woken
  <2>5. WatchInv'
    BY <1>1, <1>9 DEF TypeOK, MutexInv, ResultInv, WatchInv, Returned, WatcherBroadcasts, Woken
  <2> QED BY <2>1, <2>2, <2>3, <2>4, <2>5, FramesUntouched DEF IInv
<1>10. CASE WatcherStops(c)
  <2>1. UNCHANGED <<frames, rx, inHand, nread, got, req>>
    BY <1>10 DEF WatcherStops, rxVars
  <2>2. TypeOK'
    BY <1>1, <1>10 DEF TypeOK, WatcherStops, rxVars
  <2>3. MutexInv' /\ ResultInv'
    BY <1>1, <1>10 DEF TypeOK, MutexInv, ResultInv, WatcherStops
  <2>4. SearchInv'
    BY <1>1, <1>10, <2>1 DEF TypeOK, SearchInv, WatcherStops
  <2>5. WatchInv'
    BY <1>1, <1>10 DEF TypeOK, MutexInv, ResultInv, WatchInv, Returned, WatcherStops
  <2> QED BY <2>1, <2>2, <2>3, <2>4, <2>5, FramesUntouched DEF IInv
<1> QED BY <1>2, <1>3, <1>4, <1>5, <1>6, <1>7, <1>8, <1>9, <1>10

\* Close, the loss of the association, and stuttering.
LEMMA IdleStep ==
    ASSUME IInv, CloseFlag \/ CloseConn \/ PeerDown \/ AllQuiet \/ UNCHANGED vars
    PROVE  IInv'
<1>1. UNCHANGED <<frames, mu, rx, inHand, nread, pc, req, expired, watcher, got, sent>>
  BY DEF CloseFlag, CloseConn, PeerDown, AllQuiet, vars, rxVars, callVars
<1>2. closed' \in BOOLEAN /\ conn' \in {"up", "down"}
  BY DEF CloseFlag, CloseConn, PeerDown, AllQuiet, vars, rxVars, callVars, IInv, TypeOK
<1>3. TypeOK'
  BY <1>1, <1>2 DEF IInv, TypeOK
<1>4. MutexInv' /\ SearchInv' /\ WatchInv' /\ ResultInv'
  BY <1>1 DEF IInv, MutexInv, ResultInv, SearchInv, WatchInv, Returned
<1> QED BY <1>1, <1>3, <1>4, FramesUntouched DEF IInv

\* The receiver reads and decodes a frame newer than all before it.
LEMMA ReadStep ==
    ASSUME IInv, NEW t \in Types, NEW l \in Labels, Read(t, l)
    PROVE  IInv'
<1> DEFINE f == [id |-> nread + 1, type |-> t, label |-> l]
<1>1. TypeOK /\ HandInv /\ FrameInv
  BY DEF IInv
<1>2. f \in Frame /\ f.id = nread + 1
  BY <1>1 DEF TypeOK, Frame
<1>3. /\ UNCHANGED <<frames, mu, closed, conn, pc, req, expired, watcher, got, sent>>
      /\ inHand' = {f} /\ nread' = nread + 1 /\ rx = "read" /\ rx' = "lock"
  BY DEF Read, callVars
<1> HIDE DEF f
<1>4. TypeOK'
  BY <1>1, <1>2, <1>3 DEF TypeOK
<1>5. MutexInv' /\ SearchInv' /\ WatchInv' /\ ResultInv' /\ NoOvertaking'
  BY <1>3 DEF IInv, MutexInv, ResultInv, SearchInv, WatchInv, Returned, NoOvertaking, Queued, ToSet
<1>6. HandInv'
  BY <1>1, <1>2, <1>3 DEF HandInv, TypeOK
<1>7. FrameInv'
  <2>1. Filings' = Filings
    BY <1>1, <1>3 DEF Filings, TypeOK
  <2> QED BY <2>1, <1>1, <1>3 DEF FrameInv, InOrder, Taken, Queued, ToSet
<1> QED BY <1>4, <1>5, <1>6, <1>7 DEF IInv

\* The receiver ends on a read error and leaves the queues as they are.
LEMMA ReadErrorStep ==
    ASSUME IInv, ReadError
    PROVE  IInv'
<1>1. /\ UNCHANGED <<frames, mu, closed, conn, inHand, nread, pc, req, expired,
                     watcher, got, sent>>
      /\ rx = "read" /\ rx' = "exited"
  BY DEF ReadError, callVars
<1>2. TypeOK' /\ MutexInv' /\ SearchInv' /\ WatchInv' /\ ResultInv' /\ NoOvertaking'
  BY <1>1 DEF IInv, TypeOK, MutexInv, ResultInv, SearchInv, WatchInv, Returned, NoOvertaking, Queued, ToSet
<1>3. HandInv' /\ FrameInv'
  BY <1>1 DEF IInv, HandInv, FrameInv, Filings, InOrder, Taken, Queued, ToSet
<1> QED BY <1>2, <1>3 DEF IInv

\* Filing a frame and broadcasting under one lock leaves no waiter asleep beside it.
LEMMA DeliverStep ==
    ASSUME IInv, Deliver
    PROVE  IInv'
<1> USE FramedAssumption
<1>1. TypeOK /\ MutexInv /\ SearchInv /\ WatchInv /\ ResultInv /\ HandInv /\ FrameInv /\ NoOvertaking
  BY DEF IInv
<1>2. PICK f \in inHand : inHand = {f} /\ f.id = nread /\ nread # 0
  BY <1>1 DEF Deliver, HandInv
<1>3. /\ frames' = File(frames, f) /\ pc' = Woken /\ mu = NoCall
      /\ rx = "lock" /\ rx' = "read" /\ inHand' = {}
      /\ UNCHANGED <<mu, closed, conn, nread, req, expired, watcher, got, sent>>
  BY <1>2 DEF Deliver
<1>4. frames \in Queues /\ Filed(frames) /\ InOrder(frames) /\ f \in Frame
  BY <1>1 DEF TypeOK, Queues, Filed, FrameInv
<1>5. \A g \in Queued(frames) \cup Taken : g.id \in 1..(nread - 1) /\ g.id < f.id
  <2>1. \A g \in Queued(frames) \cup Taken : g.id \in 1..(nread - 1)
    BY <1>1, <1>3 DEF FrameInv, Filings
  <2> QED BY <2>1, <1>1, <1>2 DEF TypeOK
<1>6. /\ frames' \in Queues /\ Filed(frames') /\ InOrder(frames')
      /\ Queued(frames') = Queued(frames) \cup {f}
  BY <1>3, <1>4, <1>5, FileProperties
<1>7. Taken' = Taken
  BY <1>3 DEF Taken
<1>8. TypeOK'
  <2>1. pc' \in [Calls -> {"idle", "write", "enter", "lock", "check", "park",
                           "parked", "returned", "timedout", "failed"}]
    BY <1>1, <1>3 DEF TypeOK, Woken
  <2> QED BY <1>1, <1>3, <1>6, <2>1 DEF TypeOK, Queues, Filed
<1>9. MutexInv' /\ WatchInv' /\ ResultInv'
  BY <1>1, <1>3 DEF TypeOK, MutexInv, ResultInv, WatchInv, Returned, Woken
<1>10. SearchInv'
  BY <1>1, <1>3 DEF TypeOK, MutexInv, ResultInv, SearchInv, Woken
<1>11. HandInv'
  BY <1>3 DEF HandInv
<1>12. FrameInv'
  <2>1. {g.id : g \in Queued(frames') \cup Taken'} = 1..nread
    <3>1. {g.id : g \in Queued(frames) \cup Taken} = 1..(nread - 1)
      BY <1>1, <1>3 DEF FrameInv, Filings
    <3>2. {g.id : g \in Queued(frames') \cup Taken'} = 1..(nread - 1) \cup {nread}
      BY <3>1, <1>2, <1>6, <1>7
    <3>3. nread \in Nat \ {0}
      BY <1>1, <1>2 DEF TypeOK
    <3>4. 1..(nread - 1) \cup {nread} = 1..nread
      BY <3>3
    <3> QED BY <3>2, <3>4
  <2>2. f \notin Taken /\ f \notin Queued(frames)
    BY <1>5, <1>2, <1>1 DEF TypeOK
  <2>3. Filings' = nread
    BY <1>3 DEF Filings
  <2> QED BY <2>1, <2>2, <2>3, <1>1, <1>3, <1>6, <1>7 DEF FrameInv
<1>13. NoOvertaking'
  <2> SUFFICES ASSUME NEW c \in Calls, NEW g \in got[c], NEW h \in Queued(frames'),
                      h.type = g.type, h.label \in req[c].accept
               PROVE  g.id < h.id
    BY <1>3 DEF NoOvertaking
  <2>1. CASE h = f
    BY <2>1, <1>5 DEF Taken
  <2>2. CASE h # f
    BY <2>2, <1>1, <1>6 DEF NoOvertaking
  <2> QED BY <2>1, <2>2
<1> QED BY <1>8, <1>9, <1>10, <1>11, <1>12, <1>13 DEF IInv

\* A search removes the first hit for its caller, or shows there is none.
LEMMA SearchStep ==
    ASSUME IInv, NEW c \in Calls, Search(c)
    PROVE  IInv'
<1> USE FramedAssumption
<1>1. TypeOK /\ MutexInv /\ SearchInv /\ WatchInv /\ ResultInv /\ HandInv /\ FrameInv /\ NoOvertaking
  BY DEF IInv
<1>2. frames \in Queues /\ Filed(frames) /\ InOrder(frames) /\ req[c] \in Requests
  BY <1>1 DEF TypeOK, Queues, Filed, FrameInv
<1>3. CASE Hits(frames, req[c]) = {}
  <2>1. /\ pc[c] = "lock" /\ mu = NoCall
        /\ pc' = [pc EXCEPT ![c] = "check"] /\ mu' = c
        /\ UNCHANGED <<frames, got, closed, conn, req, expired, watcher, sent>>
        /\ UNCHANGED <<rx, inHand, nread>>
    BY <1>3 DEF Search, rxVars
  <2>2. TypeOK'
    BY <1>1, <2>1 DEF TypeOK
  <2>3. MutexInv' /\ WatchInv' /\ ResultInv'
    BY <1>1, <2>1 DEF TypeOK, MutexInv, ResultInv, WatchInv, Returned
  <2>4. SearchInv'
    BY <1>1, <1>3, <2>1 DEF TypeOK, SearchInv
  <2> QED BY <2>1, <2>2, <2>3, <2>4, FramesUntouched DEF IInv
<1>4. CASE Hits(frames, req[c]) # {}
  <2> DEFINE r == req[c]
             p == FirstHit(frames, r)
             f == FrameAt(frames, r, p)
  <2>1. /\ pc[c] = "lock" /\ mu = NoCall
        /\ pc' = [pc EXCEPT ![c] = "returned"]
        /\ got' = [got EXCEPT ![c] = {f}] /\ frames' = Without(frames, r, p)
        /\ UNCHANGED <<mu, closed, conn, req, expired, watcher, sent>>
        /\ UNCHANGED <<rx, inHand, nread>>
    BY <1>4 DEF Search, rxVars
  <2>2. p \in Hits(frames, r) /\ \A q \in Hits(frames, r) : Before(p, q)
    BY <1>2, <1>4, FirstHitProperties
  <2> HIDE DEF p
  <2>3. /\ frames' \in Queues /\ Filed(frames') /\ InOrder(frames')
        /\ f \in Frame /\ f \in Queued(frames) /\ f.type = r.types[p[1]]
        /\ f.label \in r.accept
        /\ Queued(frames') = Queued(frames) \ {f}
    BY <1>2, <2>1, <2>2, TakeProperties
  <2> HIDE DEF f
  <2>4. TypeOK'
    BY <1>1, <2>1, <2>3 DEF TypeOK, Queues, Filed
  <2>5. MutexInv' /\ WatchInv' /\ ResultInv'
    BY <1>1, <2>1 DEF TypeOK, MutexInv, ResultInv, WatchInv, Returned
  <2>6. SearchInv'
    <3> SUFFICES ASSUME NEW d \in Calls, pc'[d] \in {"check", "park", "parked"}
                 PROVE  Hits(frames', req[d]) = {}
      BY <2>1 DEF SearchInv
    <3>1. Hits(frames, req[d]) = {} /\ req[d] \in Requests
      BY <1>1, <2>1 DEF TypeOK, SearchInv
    <3> QED BY <3>1, <1>2, <2>3, NoHits
  <2>7. HandInv'
    BY <1>1, <2>1 DEF HandInv
  <2>8. got[c] = {}
    \* a call that still searches has returned nothing
    BY <1>1, <2>1 DEF ResultInv
  <2>9. Taken' = Taken \cup {f}
    BY <1>1, <2>1, <2>8 DEF TypeOK, Taken
  <2>10. FrameInv'
    <3>1. Queued(frames') \cup Taken' = Queued(frames) \cup Taken
      BY <2>3, <2>9
    <3>2. Filings' = Filings
      BY <2>1 DEF Filings
    <3>3. \A d, e \in Calls : d # e => got'[d] \cap got'[e] = {}
      BY <1>1, <2>1, <2>3 DEF TypeOK, FrameInv, Taken
    <3> QED BY <3>1, <3>2, <3>3, <1>1, <2>3, <2>9 DEF FrameInv
  <2>11. NoOvertaking'
    <3> SUFFICES ASSUME NEW d \in Calls, NEW g \in got'[d], NEW h \in Queued(frames'),
                        h.type = g.type, h.label \in req[d].accept
                 PROVE  g.id < h.id
      BY <2>1 DEF NoOvertaking
    <3>1. CASE d # c
      BY <3>1, <1>1, <2>1, <2>3 DEF TypeOK, NoOvertaking
    <3>2. CASE d = c
      <4>1. g = f /\ h \in Queued(frames) /\ h # f
        BY <3>2, <1>1, <2>1, <2>3 DEF TypeOK
      <4>2. /\ p = <<p[1], p[2]>> /\ p[1] \in 1..Len(r.types) /\ r.types[p[1]] \in Types
            /\ p[2] \in 1..Len(frames[r.types[p[1]]])
        BY <1>2, <2>2, HitMember
      <4>3. PICK t \in Types : \E j \in DOMAIN frames[t] : h = frames[t][j]
        BY <4>1, <1>2, QueuedMember
      <4>4. PICK j \in DOMAIN frames[t] : h = frames[t][j]
        BY <4>3
      <4>5. t = r.types[p[1]] /\ j \in 1..Len(frames[t])
        BY <4>1, <4>4, <1>2, <2>3 DEF Filed, Queues
      <4>6. <<p[1], j>> \in Hits(frames, r)
        BY <4>1, <4>2, <4>4, <4>5, <3>2, <1>2, HitMember DEF FrameAt
      <4>7. p[2] <= j
        BY <4>2, <4>6, <2>2 DEF Before
      <4>8. p[2] # j /\ f = frames[t][p[2]] /\ p[2] \in DOMAIN frames[t]
        BY <4>1, <4>2, <4>4, <4>5, <1>2 DEF FrameAt, f, Queues
      <4> QED BY <4>1, <4>2, <4>4, <4>5, <4>7, <4>8, <1>2 DEF InOrder
    <3> QED BY <3>1, <3>2
  <2> QED BY <2>4, <2>5, <2>6, <2>7, <2>10, <2>11 DEF IInv
<1> QED BY <1>3, <1>4

\* IInv is inductive.
LEMMA NextIInv == IInv /\ [Next]_vars => IInv'
<1> SUFFICES ASSUME IInv, [Next]_vars PROVE IInv'
  OBVIOUS
<1>1. CASE Receiver
  BY <1>1, ReadStep, ReadErrorStep, DeliverStep DEF Receiver
<1>2. ASSUME NEW c \in Calls, Sender(c) \/ Waiter(c) \/ Watcher(c) PROVE IInv'
  BY <1>2, QuietStep, SearchStep DEF Sender, Waiter, Watcher
<1>3. CASE CloseFlag \/ CloseConn \/ PeerDown \/ AllQuiet \/ UNCHANGED vars
  BY <1>3, IdleStep
<1> QED BY <1>1, <1>2, <1>3 DEF Next

\* IInv holds in every reachable state.
LEMMA Inductive == Spec => []IInv
BY InitIInv, NextIInv, PTL DEF Spec

-----------------------------------------------------------------------------
(***************************************************************************)
(* The theorems                                                            *)
(***************************************************************************)

\* The state of the transport keeps its shape, and every frame lies under the
\* key of its own message type.
THEOREM TypeCorrect == Spec => []TypeOK
<1>1. IInv => TypeOK
  BY DEF IInv
<1> QED BY <1>1, Inductive, PTL

\* No decoded message is lost, duplicated, or returned by two calls, however
\* the receiver and any number of waiters interleave.
THEOREM FramesExactlyOnce == Spec => []ExactlyOnce
<1>1. IInv => ExactlyOnce
  <2> SUFFICES ASSUME IInv PROVE ExactlyOnce
    OBVIOUS
  <2>1. TypeOK /\ HandInv /\ FrameInv
    BY DEF IInv
  <2>2. /\ {g.id : g \in Queued(frames) \cup Taken} = 1..Filings
        /\ Queued(frames) \cap Taken = {}
        /\ \A c, d \in Calls : c # d => got[c] \cap got[d] = {}
    BY <2>1 DEF FrameInv
  <2>3. {f.id : f \in inHand \cup Queued(frames) \cup Taken} = 1..nread
    <3>1. CASE rx # "lock"
      <4>1. inHand = {} /\ Filings = nread
        BY <2>1, <3>1 DEF HandInv, Filings
      <4> QED BY <4>1, <2>2
    <3>2. CASE rx = "lock"
      <4>1. PICK f \in inHand : inHand = {f} /\ f.id = nread /\ nread # 0
        BY <2>1, <3>2 DEF HandInv
      <4>2. 1..(nread - 1) \cup {nread} = 1..nread
        BY <4>1, <2>1 DEF TypeOK
      <4>3. {g.id : g \in Queued(frames) \cup Taken} = 1..(nread - 1)
        BY <2>2, <3>2 DEF Filings
      <4> QED BY <4>1, <4>2, <4>3
    <3> QED BY <3>1, <3>2
  <2>4. inHand \cap (Queued(frames) \cup Taken) = {}
    <3>1. CASE rx # "lock"
      BY <2>1, <3>1 DEF HandInv
    <3>2. CASE rx = "lock"
      <4>1. \A g \in Queued(frames) \cup Taken : g.id \in 1..(nread - 1)
        BY <2>2, <3>2 DEF Filings
      <4>2. \A f \in inHand : f.id = nread
        BY <2>1, <3>2 DEF HandInv
      <4>3. nread \in Nat
        BY <2>1 DEF TypeOK
      <4> QED BY <4>1, <4>2, <4>3
    <3> QED BY <3>1, <3>2
  <2>5. ASSUME NEW t \in Types, NEW i \in DOMAIN frames[t], NEW j \in DOMAIN frames[t], i # j
        PROVE  frames[t][i] # frames[t][j]
    <3>1. /\ frames[t] \in Seq(Frame) /\ i \in Nat /\ j \in Nat
          /\ frames[t][i] \in Frame /\ frames[t][j] \in Frame
      BY <2>1 DEF TypeOK
    <3>2. i < j \/ j < i
      BY <3>1, <2>5
    <3>3. frames[t][i].id < frames[t][j].id \/ frames[t][j].id < frames[t][i].id
      BY <3>2, <2>1 DEF FrameInv, InOrder
    <3>4. frames[t][i].id \in Nat
      BY <3>1 DEF Frame
    <3> QED BY <3>3, <3>4
  <2> QED BY <2>2, <2>3, <2>4, <2>5 DEF ExactlyOnce, Taken
<1> QED BY <1>1, Inductive, PTL

\* Frames of one type are handed out in arrival order to whoever accepts them.
THEOREM OldestFirst == Spec => []NoOvertaking
<1>1. IInv => NoOvertaking
  BY DEF IInv
<1> QED BY <1>1, Inductive, PTL

\* No wake-up by the receiver is lost: no waiter sleeps in cond.Wait beside a frame
\* that it accepts.
THEOREM NoLostWakeUp == Spec => []NoMissedFrame
<1>1. IInv => NoMissedFrame
  BY DEF IInv, TypeOK, SearchInv, NoMissedFrame
<1> QED BY <1>1, Inductive, PTL

\* Nor is that by the watcher: no waiter sleeps past its deadline with its watcher
\* gone, whose one broadcast it would have missed.
THEOREM NoLostExpiry == Spec => []NoMissedExpiry
<1>1. IInv => NoMissedExpiry
  BY DEF IInv, TypeOK, WatchInv, NoMissedExpiry, Returned
<1> QED BY <1>1, Inductive, PTL

\* A call that reports a timeout leaves no frame behind that it would have taken.
THEOREM TimeoutIsHonest == Spec => TimeoutOnlyWhenNothingQualifies
<1> DEFINE A == \A c \in Calls : pc[c] # "timedout" /\ pc'[c] = "timedout"
                                   => Hits(frames, req[c]) = {}
<1>1. IInv /\ [Next]_vars => [A]_vars
  <2> SUFFICES ASSUME IInv, Next, NEW c \in Calls, pc[c] # "timedout", pc'[c] = "timedout"
               PROVE  Hits(frames, req[c]) = {}
    OBVIOUS
  <2>1. TypeOK /\ SearchInv
    BY DEF IInv
  <2>2. pc[c] = "check"
    <3>1. CASE Receiver
      BY <3>1, <2>1 DEF Receiver, Read, ReadError, Deliver, Woken, callVars, TypeOK
    <3>2. ASSUME NEW d \in Calls, Sender(d) PROVE pc[c] = "check"
      BY <3>2, <2>1 DEF Sender, SendCheck, SendWrite, TypeOK
    <3>3. ASSUME NEW d \in Calls, Waiter(d) PROVE pc[c] = "check"
      BY <3>3, <2>1 DEF Waiter, Enter, Search, CheckContext, Park, TypeOK
    <3>4. ASSUME NEW d \in Calls, Watcher(d) PROVE pc[c] = "check"
      BY <3>4, <2>1 DEF Watcher, Expire, WatcherFires, WatcherBroadcasts, WatcherStops,
                        Woken, TypeOK
    <3>5. CASE CloseFlag \/ CloseConn \/ PeerDown \/ AllQuiet
      BY <3>5 DEF CloseFlag, CloseConn, PeerDown, AllQuiet, callVars, vars
    <3> QED BY <3>1, <3>2, <3>3, <3>4, <3>5 DEF Next
  <2> QED BY <2>1, <2>2 DEF SearchInv
<1>2. Spec => [][A]_vars
  BY <1>1, Inductive, PTL DEF Spec
<1> QED BY <1>2 DEF TimeoutOnlyWhenNothingQualifies

-----------------------------------------------------------------------------
(***************************************************************************)
(* Refinement: the transport implements the mailbox (its safety part; that *)
(* calls are answered rests on fairness and is left to TLC).               *)
(***************************************************************************)

\* The mailbox and the transport search the queues with the same operators.
LEMMA SameSearch ==
    /\ MB!EmptyQueues = EmptyQueues
    /\ \A fr, f : MB!File(fr, f) = File(fr, f)
    /\ \A fr, r : MB!Hits(fr, r) = Hits(fr, r) /\ MB!FirstHit(fr, r) = FirstHit(fr, r)
    /\ \A fr, r, p : /\ MB!FrameAt(fr, r, p) = FrameAt(fr, r, p)
                     /\ MB!Without(fr, r, p) = Without(fr, r, p)
<1>1. \A fr, r : MB!Hits(fr, r) = Hits(fr, r)
  BY DEF MB!Hits, Hits
<1>2. \A p, q : MB!Before(p, q) = Before(p, q)
  BY DEF MB!Before, Before
<1>3. \A fr, r : MB!FirstHit(fr, r) = FirstHit(fr, r)
  BY <1>1, <1>2 DEF MB!FirstHit, FirstHit
<1> QED BY <1>1, <1>3 DEF MB!EmptyQueues, EmptyQueues, MB!File, File, MB!FrameAt, FrameAt,
                          MB!Without, Without, MB!RemoveAt, RemoveAt

StatusFcn == [c \in Calls |-> StatusOf(c)]

\* A step of one call changes the mailbox's view of that call alone.
LEMMA StatusStep ==
    ASSUME TypeOK, NEW c \in Calls, NEW v, pc' = [pc EXCEPT ![c] = v]
    PROVE  /\ v \in {"lock", "check", "park", "parked"} =>
                StatusFcn' = [StatusFcn EXCEPT ![c] = "waiting"]
           /\ v \in {"returned", "timedout", "failed"} =>
                StatusFcn' = [StatusFcn EXCEPT ![c] = v]
           /\ pc[c] \in {"idle", "write", "enter"} => StatusFcn[c] = "idle"
           /\ pc[c] \in {"lock", "check", "park", "parked"} => StatusFcn[c] = "waiting"
<1>1. pc'[c] = v /\ \A d \in Calls \ {c} : pc'[d] = pc[d]
  BY DEF TypeOK
<1>2. \A d \in Calls \ {c} : StatusOf(d)' = StatusOf(d)
  BY <1>1 DEF StatusOf
<1>3. StatusFcn' = [StatusFcn EXCEPT ![c] = StatusOf(c)']
  BY <1>2 DEF StatusFcn
<1>4. /\ v \in {"lock", "check", "park", "parked"} => StatusOf(c)' = "waiting"
      /\ v \in {"returned", "timedout", "failed"} => StatusOf(c)' = v
  BY <1>1 DEF StatusOf
<1> QED BY <1>3, <1>4 DEF StatusFcn, StatusOf

\* Every step of the transport is a step of the mailbox or invisible to it.
LEMMA StepRefines == IInv /\ [Next]_vars => [MB!Next]_(MB!vars)
<1> SUFFICES ASSUME IInv, [Next]_vars PROVE [MB!Next]_(MB!vars)
  OBVIOUS
<1> USE SameSearch
<1>1. TypeOK /\ HandInv /\ SearchInv
  BY DEF IInv
<1>2. ASSUME NEW t \in Types, NEW l \in Labels, Read(t, l) PROVE UNCHANGED MB!vars
  <2>1. UNCHANGED <<frames, pc, req, got>>
    BY <1>2 DEF Read, callVars
  <2>2. Filings' = Filings
    BY <1>1, <1>2 DEF Read, Filings, TypeOK
  <2>3. StatusFcn' = StatusFcn
    BY <2>1 DEF StatusFcn, StatusOf
  <2> QED BY <2>1, <2>2, <2>3 DEF MB!vars, Filings, StatusFcn
<1>3. CASE ReadError
  <2>1. UNCHANGED <<frames, pc, req, got>> /\ Filings' = Filings
    BY <1>3 DEF ReadError, callVars, Filings
  <2>2. StatusFcn' = StatusFcn
    BY <2>1 DEF StatusFcn, StatusOf
  <2> QED BY <2>1, <2>2 DEF MB!vars, Filings, StatusFcn
<1>4. CASE Deliver
  <2>1. PICK f \in inHand : inHand = {f} /\ f.id = nread
    BY <1>1, <1>4 DEF Deliver, HandInv
  <2>2. /\ f \in Frame /\ f.type \in Types /\ f.label \in Labels
        /\ f = [id |-> nread, type |-> f.type, label |-> f.label]
    BY <2>1, <1>1 DEF TypeOK, Frame
  <2>3. frames' = File(frames, f) /\ UNCHANGED <<req, got>>
    BY <1>4, <2>1 DEF Deliver
  <2>4. Filings' = nread /\ Filings + 1 = nread
    BY <1>1, <1>4 DEF Deliver, Filings, TypeOK
  <2>5. StatusFcn' = StatusFcn
    BY <1>1, <1>4 DEF Deliver, Woken, StatusFcn, StatusOf, TypeOK
  <2>6. MB!Arrive(f.type, f.label)
    BY <2>2, <2>3, <2>4, <2>5 DEF MB!Arrive, Filings, StatusFcn
  <2> QED BY <2>2, <2>6 DEF MB!Next
\* The remaining steps leave the receiver alone.
<1>5. ASSUME NEW c \in Calls, SendCheck(c) PROVE [MB!Next]_(MB!vars)
  <2>1. UNCHANGED <<frames, req, got, rx, nread>> /\ Filings' = Filings /\ pc[c] = "idle"
    BY <1>5 DEF SendCheck, rxVars, Filings
  <2>2. CASE closed
    <3>1. pc' = [pc EXCEPT ![c] = "failed"]
      BY <1>5, <2>2 DEF SendCheck
    <3>2. StatusFcn' = [StatusFcn EXCEPT ![c] = "failed"] /\ StatusFcn[c] = "idle"
      BY <3>1, <2>1, <1>1, StatusStep
    <3>3. MB!Reject(c)
      BY <2>1, <3>2 DEF MB!Reject, Filings, StatusFcn
    <3> QED BY <3>3 DEF MB!Next
  <2>3. CASE ~closed
    <3>1. pc' = [pc EXCEPT ![c] = "write"]
      BY <1>5, <2>3 DEF SendCheck
    <3>2. StatusFcn' = StatusFcn
      BY <3>1, <2>1, <1>1 DEF StatusOf, StatusFcn, TypeOK
    <3> QED BY <2>1, <3>2 DEF MB!vars, Filings, StatusFcn
  <2> QED BY <2>2, <2>3
<1>6. ASSUME NEW c \in Calls, SendWrite(c) PROVE [MB!Next]_(MB!vars)
  <2>1. UNCHANGED <<frames, req, got, rx, nread>> /\ Filings' = Filings /\ pc[c] = "write"
    BY <1>6 DEF SendWrite, rxVars, Filings
  <2>2. CASE conn = "up"
    <3>1. pc' = [pc EXCEPT ![c] = "enter"]
      BY <1>6, <2>2 DEF SendWrite
    <3>2. StatusFcn' = StatusFcn
      BY <3>1, <2>1, <1>1 DEF StatusOf, StatusFcn, TypeOK
    <3> QED BY <2>1, <3>2 DEF MB!vars, Filings, StatusFcn
  <2>3. CASE conn # "up"
    <3>1. pc' = [pc EXCEPT ![c] = "failed"]
      BY <1>6, <2>3 DEF SendWrite
    <3>2. StatusFcn' = [StatusFcn EXCEPT ![c] = "failed"] /\ StatusFcn[c] = "idle"
      BY <3>1, <2>1, <1>1, StatusStep
    <3>3. MB!Reject(c)
      BY <2>1, <3>2 DEF MB!Reject, Filings, StatusFcn
    <3> QED BY <3>3 DEF MB!Next
  <2> QED BY <2>2, <2>3
<1>7. ASSUME NEW c \in Calls, Enter(c) PROVE [MB!Next]_(MB!vars)
  <2>1. /\ UNCHANGED <<frames, req, got, rx, nread>> /\ Filings' = Filings
        /\ pc[c] \in {"idle", "enter"} /\ pc' = [pc EXCEPT ![c] = "lock"]
    BY <1>7 DEF Enter, rxVars, Filings
  <2>2. StatusFcn' = [StatusFcn EXCEPT ![c] = "waiting"] /\ StatusFcn[c] = "idle"
    BY <2>1, <1>1, StatusStep
  <2>3. MB!Submit(c)
    BY <2>1, <2>2 DEF MB!Submit, Filings, StatusFcn
  <2> QED BY <2>3 DEF MB!Next
<1>8. ASSUME NEW c \in Calls, Search(c) PROVE [MB!Next]_(MB!vars)
  <2>1. UNCHANGED <<req, rx, nread>> /\ Filings' = Filings /\ pc[c] = "lock"
    BY <1>8 DEF Search, rxVars, Filings
  <2>2. CASE Hits(frames, req[c]) = {}
    <3>1. pc' = [pc EXCEPT ![c] = "check"] /\ UNCHANGED <<frames, got>>
      BY <1>8, <2>2 DEF Search
    <3>2. StatusFcn' = StatusFcn
      BY <3>1, <2>1, <1>1 DEF StatusOf, StatusFcn, TypeOK
    <3> QED BY <2>1, <3>1, <3>2 DEF MB!vars, Filings, StatusFcn
  <2>3. CASE Hits(frames, req[c]) # {}
    <3>1. pc' = [pc EXCEPT ![c] = "returned"]
      BY <1>8, <2>3 DEF Search
    <3>2. StatusFcn' = [StatusFcn EXCEPT ![c] = "returned"] /\ StatusFcn[c] = "waiting"
      BY <3>1, <2>1, <1>1, StatusStep
    <3>3. MB!Take(c)
      BY <1>8, <2>1, <2>3, <3>2 DEF Search, MB!Take, Filings, StatusFcn
    <3> QED BY <3>3 DEF MB!Next
  <2> QED BY <2>2, <2>3
<1>9. ASSUME NEW c \in Calls, CheckContext(c) PROVE [MB!Next]_(MB!vars)
  <2>1. UNCHANGED <<frames, req, got, rx, nread>> /\ Filings' = Filings /\ pc[c] = "check"
    BY <1>9 DEF CheckContext, rxVars, Filings
  <2>2. CASE ~expired[c]
    <3>1. pc' = [pc EXCEPT ![c] = "park"]
      BY <1>9, <2>2 DEF CheckContext
    <3>2. StatusFcn' = StatusFcn
      BY <3>1, <2>1, <1>1 DEF StatusOf, StatusFcn, TypeOK
    <3> QED BY <2>1, <3>2 DEF MB!vars, Filings, StatusFcn
  <2>3. CASE expired[c]
    <3>1. pc' = [pc EXCEPT ![c] = "timedout"]
      BY <1>9, <2>3 DEF CheckContext
    <3>2. StatusFcn' = [StatusFcn EXCEPT ![c] = "timedout"] /\ StatusFcn[c] = "waiting"
      BY <3>1, <2>1, <1>1, StatusStep
    <3>3. Hits(frames, req[c]) = {}
      BY <1>1, <2>1 DEF SearchInv
    <3>4. MB!GiveUp(c)
      BY <2>1, <3>2, <3>3 DEF MB!GiveUp, Filings, StatusFcn
    <3> QED BY <3>4 DEF MB!Next
  <2> QED BY <2>2, <2>3
<1>10. ASSUME NEW c \in Calls, Park(c) \/ Watcher(c) PROVE UNCHANGED MB!vars
  <2>1. UNCHANGED <<frames, req, got, rx, nread>>
    BY <1>10 DEF Park, Watcher, Expire, WatcherFires, WatcherBroadcasts, WatcherStops, rxVars
  <2>2. StatusFcn' = StatusFcn
    <3>1. CASE Park(c)
      BY <3>1, <1>1 DEF Park, StatusFcn, StatusOf, TypeOK
    <3>2. CASE WatcherBroadcasts(c)
      BY <3>2, <1>1 DEF WatcherBroadcasts, Woken, StatusFcn, StatusOf, TypeOK
    <3>3. CASE Expire(c) \/ WatcherFires(c) \/ WatcherStops(c)
      BY <3>3 DEF Expire, WatcherFires, WatcherStops, StatusFcn, StatusOf
    <3> QED BY <1>10, <3>1, <3>2, <3>3 DEF Watcher
  <2>3. Filings' = Filings
    BY <2>1 DEF Filings
  <2> QED BY <2>1, <2>2, <2>3 DEF MB!vars, Filings, StatusFcn
<1>11. CASE CloseFlag \/ CloseConn \/ PeerDown \/ AllQuiet \/ UNCHANGED vars
  <2>1. UNCHANGED <<frames, pc, req, got, rx, nread>>
    BY <1>11 DEF CloseFlag, CloseConn, PeerDown, AllQuiet, vars, callVars, rxVars
  <2>2. StatusFcn' = StatusFcn /\ Filings' = Filings
    BY <2>1 DEF StatusFcn, StatusOf, Filings
  <2> QED BY <2>1, <2>2 DEF MB!vars, Filings, StatusFcn
<1> QED BY <1>2, <1>3, <1>4, <1>5, <1>6, <1>7, <1>8, <1>9, <1>10, <1>11
        DEF Next, Receiver, Sender, Waiter

\* Seen through the calls and the queues, the transport with its goroutines,
\* mutex and condition variable behaves as one atomic mailbox.
THEOREM RefinesMailbox == Spec => MB!Spec
<1>1. Init => MB!Init
  <2> SUFFICES ASSUME Init PROVE MB!Init
    OBVIOUS
  <2>1. [c \in Calls |-> StatusOf(c)] = [c \in Calls |-> "idle"]
    BY DEF Init, StatusOf
  <2> QED BY <2>1, SameSearch DEF Init, MB!Init
<1>2. IInv /\ [Next]_vars => [MB!Next]_(MB!vars)
  BY StepRefines
<1> QED BY <1>1, <1>2, Inductive, PTL DEF Spec, MB!Spec
=============================================================================
