--------------------------- MODULE UserPlaneProofs ---------------------------
(***************************************************************************)
(* TLAPS proofs about UserPlane, for any sessions, TEIDs, packets, peers   *)
(* and requests: from the octets of a datagram to the request that gets it *)
(* and to what that request tells of it.                                   *)
(***************************************************************************)
EXTENDS UserPlane, FiniteSetTheorems, SequenceTheorems, WellFoundedInduction, TLAPS

(***************************************************************************)
(* Induction over data.  Sets stand for predicates and functions for       *)
(* operators, since a fact with an operator as parameter cannot be cited.  *)
(***************************************************************************)

Below == {ss \in Nat \X Nat : ss[1] < ss[2]}

\* The order of the natural numbers is well founded.
LEMMA BelowWellFounded == IsWellFoundedOn(Below, Nat)
<1>1. IsWellFoundedOn(OpToRel(<, Nat), Nat)
  BY NatLessThanWellFounded
<1>2. OpToRel(<, Nat) = Below
  BY Zenon DEF OpToRel, Below
<1> QED BY <1>1, <1>2, Zenon

\* A set of numbers has a least one.
LEMMA Least ==
    ASSUME NEW T, T \subseteq Nat, T # {}
    PROVE  \E m \in T : \A k \in T : m <= k
<1>1. PICK x \in T : \A y \in T : ~(<<y, x>> \in Below)
  BY BelowWellFounded, WFMin, Zenon
<1>2. ASSUME NEW k \in T PROVE x <= k
  <2>1. <<k, x>> \notin Below
    BY <1>1
  <2>2. k \in Nat /\ x \in Nat
    OBVIOUS
  <2>3. <<k, x>> \in Nat \X Nat /\ <<k, x>>[1] = k /\ <<k, x>>[2] = x
    BY <2>2
  <2> QED BY <2>1, <2>2, <2>3 DEF Below
<1> QED BY <1>1, <1>2

\* What holds of a number if it holds of all below holds of all numbers.
LEMMA SetInduction ==
    ASSUME NEW T, \A n \in Nat : (\A k \in Nat : k < n => k \in T) => n \in T
    PROVE  \A n \in Nat : n \in T
<1> DEFINE Bad == Nat \ T
<1> SUFFICES ASSUME Bad # {} PROVE FALSE
  OBVIOUS
<1>1. PICK m \in Bad : \A k \in Bad : m <= k
  BY Least
<1>2. ASSUME NEW k \in Nat, k < m PROVE k \in T
  BY <1>1, <1>2
<1> QED BY <1>2

\* f is what is computed over A by a recursion that goes from p in H to next[p],
\* and joins what it finds there to p by join; elsewhere it ends with last[p].
Computes(f, A, H, next, join, last) ==
    f = [p \in A |-> IF p \in H THEN join[p][f[next[p]]] ELSE last[p]]

\* A recursion that goes down: m falls with each of its steps.
Descends(H, next, m) ==
    /\ H \subseteq Nat /\ m \in [Nat -> Nat]
    /\ \A p \in H : next[p] \in Nat /\ m[next[p]] < m[p]

\* Where the measure is below n
Under(m, n) == {p \in Nat : m[p] < n}

\* Two computations agree where both are defined.
LEMMA ComputedOnce ==
    ASSUME NEW H, NEW next, NEW join, NEW last, NEW m, Descends(H, next, m),
           NEW n \in Nat, NEW k \in Nat, NEW f, NEW g,
           Computes(f, Under(m, n), H, next, join, last),
           Computes(g, Under(m, k), H, next, join, last)
    PROVE  \A p \in Under(m, n) \cap Under(m, k) : f[p] = g[p]
<1> DEFINE T == {i \in Nat : \A p \in Under(m, n) \cap Under(m, k) : m[p] = i => f[p] = g[p]}
<1>1. ASSUME NEW i \in Nat, \A j \in Nat : j < i => j \in T
      PROVE  i \in T
  <2> SUFFICES ASSUME NEW p \in Under(m, n) \cap Under(m, k), m[p] = i PROVE f[p] = g[p]
    OBVIOUS
  <2>1. /\ f[p] = IF p \in H THEN join[p][f[next[p]]] ELSE last[p]
        /\ g[p] = IF p \in H THEN join[p][g[next[p]]] ELSE last[p]
    BY DEF Computes
  <2>2. ASSUME p \in H PROVE f[next[p]] = g[next[p]]
    <3>1. next[p] \in Nat /\ m[next[p]] \in Nat /\ m[next[p]] < i
      BY <2>2 DEF Descends
    <3>2. p \in Nat /\ m[p] < n /\ m[p] < k
      BY DEF Under
    <3>3. next[p] \in Under(m, n) \cap Under(m, k)
      BY <3>1, <3>2 DEF Under
    <3>4. m[next[p]] \in T
      BY <1>1, <3>1
    <3> QED BY <3>3, <3>4
  <2> QED BY <2>1, <2>2
<1>2. \A i \in Nat : i \in T
  <2> HIDE DEF T
  <2> QED BY <1>1, SetInduction
<1>3. \A p \in Under(m, n) : m[p] \in Nat
  BY DEF Under, Descends
<1> QED BY <1>2, <1>3

\* Below every bound there is a computation.
LEMMA ComputedUnder ==
    ASSUME NEW H, NEW next, NEW join, NEW last, NEW m, Descends(H, next, m)
    PROVE  \A n \in Nat : \E f : Computes(f, Under(m, n), H, next, join, last)
<1> DEFINE T == {n \in Nat : \E f : Computes(f, Under(m, n), H, next, join, last)}
<1>1. ASSUME NEW n \in Nat, \A k \in Nat : k < n => k \in T
      PROVE  n \in T
  <2>1. CASE n = 0
    <3>1. Under(m, n) = {}
      BY <2>1 DEF Under, Descends
    <3> DEFINE f == [p \in {} |-> last[p]]
    <3>2. Computes(f, {}, H, next, join, last)
      BY DEF Computes
    <3> QED BY <3>1, <3>2
  <2>2. CASE n # 0
    <3>1. n - 1 \in T
      BY <1>1, <2>2
    <3>2. PICK g : Computes(g, Under(m, n - 1), H, next, join, last)
      BY <3>1
    <3>3. PICK f : f = [p \in Under(m, n) |-> IF p \in H THEN join[p][g[next[p]]] ELSE last[p]]
      OBVIOUS
    <3>4. \A p \in Under(m, n) : f[p] = IF p \in H THEN join[p][g[next[p]]] ELSE last[p]
      BY <3>3
    <3>5. ASSUME NEW p \in Under(m, n), p \in H PROVE g[next[p]] = f[next[p]]
      <4>1. next[p] \in Nat /\ m[next[p]] \in Nat /\ m[next[p]] < m[p] /\ m[p] \in Nat
        BY <3>5 DEF Descends
      <4>2. m[p] < n
        BY DEF Under
      <4>3. next[p] \in Under(m, n - 1) /\ next[p] \in Under(m, n)
        BY <4>1, <4>2 DEF Under
      <4>4. g[next[p]] = IF next[p] \in H THEN join[next[p]][g[next[next[p]]]] ELSE last[next[p]]
        BY <3>2, <4>3 DEF Computes
      <4> QED BY <3>4, <4>3, <4>4
    <3>6. \A p \in Under(m, n) : f[p] = IF p \in H THEN join[p][f[next[p]]] ELSE last[p]
      BY <3>4, <3>5
    <3>7. Computes(f, Under(m, n), H, next, join, last)
      BY <3>3, <3>6 DEF Computes
    <3> QED BY <3>7
  <2> QED BY <2>1, <2>2
<1>2. \A n \in Nat : n \in T
  <2> HIDE DEF T
  <2> QED BY <1>1, SetInduction
<1> QED BY <1>2

\* A recursion that goes down defines a function.
LEMMA Computed ==
    ASSUME NEW H, NEW next, NEW join, NEW last, NEW m, Descends(H, next, m)
    PROVE  \E f : Computes(f, Nat, H, next, join, last)
<1> DEFINE C(n) == CHOOSE f : Computes(f, Under(m, n), H, next, join, last)
           F == [p \in Nat |-> C(m[p] + 1)[p]]
<1>1. \A n \in Nat : Computes(C(n), Under(m, n), H, next, join, last)
  BY ComputedUnder
<1> HIDE DEF C
<1>2. ASSUME NEW p \in Nat
      PROVE  F[p] = IF p \in H THEN join[p][F[next[p]]] ELSE last[p]
  <2> DEFINE g == C(m[p] + 1)
  <2>1. m[p] \in Nat /\ p \in Under(m, m[p] + 1)
    BY DEF Under, Descends
  <2>2. Computes(g, Under(m, m[p] + 1), H, next, join, last)
    BY <1>1, <2>1
  <2>3. g[p] = IF p \in H THEN join[p][g[next[p]]] ELSE last[p]
    BY <2>1, <2>2 DEF Computes
  <2>4. ASSUME p \in H PROVE g[next[p]] = F[next[p]]
    <3> DEFINE q == next[p]
    <3>1. q \in Nat /\ m[q] \in Nat /\ m[q] < m[p]
      BY <2>4 DEF Descends
    <3>2. q \in Under(m, m[p] + 1) /\ q \in Under(m, m[q] + 1)
      BY <2>1, <3>1 DEF Under
    <3>3. Computes(C(m[q] + 1), Under(m, m[q] + 1), H, next, join, last)
      BY <1>1, <3>1
    <3>4. m[p] + 1 \in Nat /\ m[q] + 1 \in Nat
      BY <2>1, <3>1
    <3> HIDE DEF g, q
    <3>5. g[q] = C(m[q] + 1)[q]
      BY <2>2, <3>2, <3>3, <3>4, ComputedOnce
    <3>6. F[q] = C(m[q] + 1)[q]
      BY <3>1
    <3> QED BY <3>5, <3>6 DEF q
  <2> QED BY <2>3, <2>4
<1>3. F = [p \in Nat |-> IF p \in H THEN join[p][F[next[p]]] ELSE last[p]]
  <2>1. F = [p \in Nat |-> F[p]]
    OBVIOUS
  <2> HIDE DEF F
  <2> QED BY <1>2, <2>1
<1> HIDE DEF F
<1> QED BY <1>3 DEF Computes

\* What is computed lies where its parts do.
LEMMA ComputedIn ==
    ASSUME NEW H, NEW next, NEW join, NEW last, NEW m, Descends(H, next, m), NEW V,
           NEW f, Computes(f, Nat, H, next, join, last),
           join \in [H -> [V -> V]], last \in [Nat -> V]
    PROVE  f \in [Nat -> V]
<1> DEFINE T == {i \in Nat : \A p \in Nat : m[p] = i => f[p] \in V}
<1>1. ASSUME NEW i \in Nat, \A j \in Nat : j < i => j \in T
      PROVE  i \in T
  <2> SUFFICES ASSUME NEW p \in Nat, m[p] = i PROVE f[p] \in V
    OBVIOUS
  <2>1. f[p] = IF p \in H THEN join[p][f[next[p]]] ELSE last[p]
    BY DEF Computes
  <2>2. ASSUME p \in H PROVE join[p][f[next[p]]] \in V
    <3>1. next[p] \in Nat /\ m[next[p]] \in Nat /\ m[next[p]] < i
      BY <2>2 DEF Descends
    <3>2. f[next[p]] \in V
      BY <1>1, <3>1
    <3> QED BY <2>2, <3>2
  <2> QED BY <2>1, <2>2
<1>2. \A i \in Nat : i \in T
  <2> HIDE DEF T
  <2> QED BY <1>1, SetInduction
<1>3. \A p \in Nat : m[p] \in Nat
  BY DEF Descends
<1>4. \A p \in Nat : f[p] \in V
  BY <1>2, <1>3
<1> QED BY <1>4 DEF Computes

\* Functions that agree on p if they agree where the recursion goes from p
LEMMA ComputedAlike ==
    ASSUME NEW H, NEW next, NEW m, Descends(H, next, m), NEW f, NEW g,
           \A p \in Nat : (p \in H => f[next[p]] = g[next[p]]) => f[p] = g[p]
    PROVE  \A p \in Nat : f[p] = g[p]
<1> DEFINE T == {i \in Nat : \A p \in Nat : m[p] = i => f[p] = g[p]}
<1>1. ASSUME NEW i \in Nat, \A j \in Nat : j < i => j \in T
      PROVE  i \in T
  <2> SUFFICES ASSUME NEW p \in Nat, m[p] = i PROVE f[p] = g[p]
    OBVIOUS
  <2>1. ASSUME p \in H PROVE f[next[p]] = g[next[p]]
    <3>1. next[p] \in Nat /\ m[next[p]] \in Nat /\ m[next[p]] < i
      BY <2>1 DEF Descends
    <3>2. m[next[p]] \in T
      BY <1>1, <3>1
    <3> QED BY <3>1, <3>2
  <2> QED BY <2>1
<1>2. \A i \in Nat : i \in T
  <2> HIDE DEF T
  <2> QED BY <1>1, SetInduction
<1>3. \A p \in Nat : m[p] \in Nat
  BY DEF Descends
<1> QED BY <1>2, <1>3

(***************************************************************************)
(* Strings of octets                                                       *)
(***************************************************************************)

\* A number is written as octets.
LEMMA OctetsType ==
    ASSUME NEW n \in Nat, NEW w \in 1..4
    PROVE  Octets(n, w) \in Seq(Octet) /\ Len(Octets(n, w)) = w
<1>1. \A i \in 1..w : (n \div Place[4 - w + i]) % 256 \in Octet
  <2> SUFFICES ASSUME NEW i \in 1..w PROVE (n \div Place[4 - w + i]) % 256 \in Octet
    OBVIOUS
  <2>1. 4 - w + i \in 1..4
    OBVIOUS
  <2>2. Place[4 - w + i] \in Nat \ {0}
    BY <2>1 DEF Place
  <2>3. n \div Place[4 - w + i] \in Nat
    BY <2>2
  <2> QED BY <2>3 DEF Octet
<1> QED BY <1>1 DEF Octets

\* A number of four octets is read as it was written (binary.BigEndian).
LEMMA TEIDRead ==
    ASSUME NEW n \in Uint32s, NEW o, o = Octets(n, 4)
    PROVE  65536 * (256 * o[1] + o[2]) + (256 * o[3] + o[4]) = n
<1>1. o[1] = (n \div 16777216) % 256 /\ o[2] = (n \div 65536) % 256
      /\ o[3] = (n \div 256) % 256 /\ o[4] = (n \div 1) % 256
  BY SMT DEF Octets, Place, Uint32s
<1>2. 65536 * (256 * ((n \div 16777216) % 256) + ((n \div 65536) % 256))
        + (256 * ((n \div 256) % 256) + ((n \div 1) % 256)) = n
  BY SMT DEF Uint32s
<1> QED BY <1>1, <1>2, SMT

\* The string j is s and then t, octet by octet.
JoinOf(j, s, t) ==
    /\ j \in Seq(Octet) /\ Len(j) = Len(s) + Len(t)
    /\ \A i \in 1..Len(s) : j[i] = s[i]
    /\ \A i \in 1..Len(t) : j[Len(s) + i] = t[i]

\* One string of octets after the other.
LEMMA Joined ==
    ASSUME NEW s \in Seq(Octet), NEW t \in Seq(Octet)
    PROVE  \A j : j = s \o t => JoinOf(j, s, t)
<1>1. SUFFICES ASSUME NEW j, j = s \o t PROVE JoinOf(j, s, t)
  OBVIOUS
<1>2. /\ j \in Seq(Octet) /\ Len(j) = Len(s) + Len(t)
      /\ \A i \in 1..(Len(s) + Len(t)) : j[i] = IF i <= Len(s) THEN s[i] ELSE t[i - Len(s)]
  BY <1>1, ConcatProperties, Zenon
<1>3. Len(s) \in Nat /\ Len(t) \in Nat
  BY LenProperties
<1>4. \A i \in 1..Len(s) : j[i] = s[i]
  BY <1>2, <1>3, SMT
<1>5. \A i \in 1..Len(t) : j[Len(s) + i] = t[i]
  <2> SUFFICES ASSUME NEW i \in 1..Len(t) PROVE j[Len(s) + i] = t[i]
    OBVIOUS
  <2>1. Len(s) + i \in 1..(Len(s) + Len(t)) /\ ~(Len(s) + i <= Len(s)) /\ (Len(s) + i) - Len(s) = i
    BY <1>3, SMT
  <2> QED BY <1>2, <2>1, SMT
<1> QED BY <1>2, <1>4, <1>5 DEF JoinOf

\* Padding is octets.
LEMMA ZerosType ==
    ASSUME NEW n \in Nat
    PROVE  Zeros(n) \in Seq(Octet)
BY SMT DEF Zeros, Octet

\* Strings of octets make a string of octets.
LEMMA JoinedType ==
    ASSUME NEW s \in Seq(Octet), NEW t \in Seq(Octet)
    PROVE  s \o t \in Seq(Octet)
BY ConcatProperties, Zenon

\* The string b has the octets of s from offset p on.
Holds(b, p, s) ==
    /\ b \in Seq(Octet) /\ s \in Seq(Octet) /\ p \in Nat /\ p + Len(s) <= Len(b)
    /\ \A i \in 1..Len(s) : b[p + i] = s[i]

\* A string lies in itself.
LEMMA HoldsSelf ==
    ASSUME NEW b \in Seq(Octet)
    PROVE  Holds(b, 0, b)
BY DEF Holds

\* Where two strings lie one after the other
LEMMA HoldsJoined ==
    ASSUME NEW b, NEW p, NEW s \in Seq(Octet), NEW t \in Seq(Octet), Holds(b, p, s \o t),
           NEW n, n = Len(s)
    PROVE  Holds(b, p, s) /\ Holds(b, p + n, t)
<1>1. PICK j : j = s \o t
  OBVIOUS
<1>2. JoinOf(j, s, t)
  BY <1>1, Joined, Zenon
<1>3. Holds(b, p, j)
  BY <1>1, Zenon
<1>4. n \in Nat /\ Len(t) \in Nat
  OBVIOUS
<1>5. \A i \in 1..n : b[p + i] = s[i]
  BY <1>2, <1>3, <1>4 DEF Holds, JoinOf
<1>6. ASSUME NEW i \in 1..Len(t) PROVE b[(p + n) + i] = t[i]
  <2>1. n + i \in 1..Len(j) /\ p + (n + i) = (p + n) + i
    BY <1>2, <1>3, <1>4 DEF Holds, JoinOf
  <2> QED BY <1>2, <1>3, <2>1 DEF Holds, JoinOf
<1> QED BY <1>2, <1>3, <1>4, <1>5, <1>6 DEF Holds, JoinOf

\* Strings of the same octets are the same.
LEMMA SameOctets ==
    ASSUME NEW s, NEW t, Holds(s, 0, t), Len(s) = Len(t)
    PROVE  s = t
<1>1. s \in Seq(Octet) /\ t \in Seq(Octet)
  BY DEF Holds
<1>2. ASSUME NEW i \in 1..Len(s) PROVE s[i] = t[i]
  <2>1. 0 + i = i
    OBVIOUS
  <2> QED BY <2>1 DEF Holds
<1> QED BY <1>1, <1>2, SeqEqual

\* A slice has the octets between its ends.
LEMMA SliceType ==
    ASSUME NEW b \in Seq(Octet), NEW p \in Nat, NEW e \in Nat, p <= e, e <= Len(b)
    PROVE  \A s : s = Slice(b, p, e) => Holds(b, p, s) /\ Len(s) = e - p
<1> SUFFICES ASSUME NEW s, s = Slice(b, p, e) PROVE Holds(b, p, s) /\ Len(s) = e - p
  OBVIOUS
<1>1. s = SubSeq(b, p + 1, e)
  BY DEF Slice
<1>2. s \in Seq(Octet) /\ Len(s) = e - p /\ \A i \in 1..Len(s) : s[i] = b[p + i]
  BY <1>1
<1> QED BY <1>2 DEF Holds

\* What lies between the ends of a slice is the slice.
LEMMA HoldsSlice ==
    ASSUME NEW b, NEW p, NEW s, Holds(b, p, s)
    PROVE  Slice(b, p, p + Len(s)) = s
<1>1. b \in Seq(Octet) /\ p \in Nat /\ p + Len(s) \in Nat /\ p <= p + Len(s) /\ p + Len(s) <= Len(b)
      /\ (p + Len(s)) - p = Len(s)
  BY DEF Holds
<1>2. PICK t : t = Slice(b, p, p + Len(s))
  OBVIOUS
<1>3. Holds(b, p, t) /\ Len(t) = Len(s)
  BY <1>1, <1>2, SliceType
<1>4. Holds(t, 0, s)
  BY <1>3 DEF Holds
<1> QED BY <1>2, <1>3, <1>4, SameOctets

\* The slice between the ends of a string is the string.
LEMMA HoldsUpTo ==
    ASSUME NEW b, NEW p, NEW s, Holds(b, p, s), NEW e, e = p + Len(s)
    PROVE  Slice(b, p, e) = s
BY HoldsSlice

\* A number of two octets is read as it was written (binary.BigEndian).
LEMMA WordRead ==
    ASSUME NEW n \in Nat, n \div 65536 = 0, NEW o, o = Octets(n, 2)
    PROVE  256 * o[1] + o[2] = n
<1>1. o[1] = (n \div 256) % 256 /\ o[2] = (n \div 1) % 256
  BY SMT DEF Octets, Place
<1>2. 256 * ((n \div 256) % 256) + ((n \div 1) % 256) = n
  BY SMT
<1> QED BY <1>1, <1>2, SMT

\* What a field of two octets can give
Fits(n) == n \in Uint16s

\* It is a number,
LEMMA FitsNat ==
    ASSUME NEW n, Fits(n)
    PROVE  n \in Nat
BY SMT DEF Fits, Uint16s

\* and that of a short control message fits.
LEMMA SmallFits ==
    ASSUME NEW n \in Nat, n <= 50
    PROVE  Fits(n)
BY SMT DEF Fits, Uint16s

\* Numbers where they lie in a string
LEMMA HoldsWord ==
    ASSUME NEW b, NEW p, NEW n, Fits(n), Holds(b, p, Octets(n, 2))
    PROVE  Uint16(b, p) = n
<1>1. PICK o : o = Octets(n, 2)
  OBVIOUS
<1>2. Len(o) = 2 /\ 256 * o[1] + o[2] = n
  <2>1. n \in Nat /\ n \div 65536 = 0
    BY DEF Fits, Uint16s
  <2> QED BY <1>1, <2>1, OctetsType, WordRead
<1>3. b[p + 1] = o[1] /\ b[p + 2] = o[2] /\ p \in Nat
  BY <1>1, <1>2 DEF Holds
<1>4. (p + 1) + 1 = p + 2
  BY <1>3
<1> QED BY <1>2, <1>3, <1>4 DEF Uint16, At

\* And those of four octets
LEMMA HoldsLong ==
    ASSUME NEW b, NEW p, NEW n \in Uint32s, Holds(b, p, Octets(n, 4))
    PROVE  Uint32(b, p) = n
<1>1. PICK o : o = Octets(n, 4)
  OBVIOUS
<1>2. Len(o) = 4 /\ 65536 * (256 * o[1] + o[2]) + (256 * o[3] + o[4]) = n
  BY <1>1, OctetsType, TEIDRead DEF Uint32s
<1>3. b[p + 1] = o[1] /\ b[p + 2] = o[2] /\ b[p + 3] = o[3] /\ b[p + 4] = o[4] /\ p \in Nat
  BY <1>1, <1>2 DEF Holds
<1>4. (p + 1) + 1 = p + 2 /\ (p + 2) + 1 = p + 3 /\ ((p + 2) + 1) + 1 = p + 4
  BY <1>3
<1> QED BY <1>2, <1>3, <1>4 DEF Uint32, Uint16, At

\* The octets of a tuple
LEMMA HoldsOctet ==
    ASSUME NEW b, NEW p, NEW s, Holds(b, p, s), NEW i \in Nat, i < Len(s)
    PROVE  At(b, p + i) = At(s, i)
<1>1. i + 1 \in 1..Len(s) /\ p + (i + 1) = (p + i) + 1
  BY DEF Holds
<1> QED BY <1>1 DEF Holds, At

\* What is within a string is an octet.
LEMMA OctetAt ==
    ASSUME NEW b \in Seq(Octet), NEW p \in Nat, p < Len(b)
    PROVE  At(b, p) \in Octet
<1>1. p + 1 \in 1..Len(b)
  OBVIOUS
<1> QED BY <1>1, ElementOfSeq DEF At

\* An octet is a number.
LEMMA OctetNat == \A n \in Octet : n \in Nat /\ n <= 255
BY DEF Octet

\* Strings of octets are as long as both.
LEMMA JoinedLen ==
    ASSUME NEW s \in Seq(Octet), NEW t \in Seq(Octet)
    PROVE  Len(s \o t) = Len(s) + Len(t)
BY ConcatProperties, Zenon

\* A string of one octet
LEMMA HoldsOne ==
    ASSUME NEW b, NEW p, NEW n, Holds(b, p, <<n>>)
    PROVE  At(b, p) = n /\ p \in Nat /\ p + 1 <= Len(b)
BY DEF Holds, At

(***************************************************************************)
(* The chain of extension headers                                          *)
(***************************************************************************)

NextType(exts, i) == IF i \in DOMAIN exts THEN exts[i][1] ELSE 0

\* An extension header as octets, up to the type of the next
ExtOctets(exts, i) ==
    <<(Len(exts[i][2]) + 2) \div 4>> \o exts[i][2] \o <<NextType(exts, i + 1)>>

IsChain(exts, chain) ==
    chain = [i \in Nat |-> IF i \in DOMAIN exts THEN ExtOctets(exts, i) \o chain[i + 1] ELSE <<>>]

\* The string from the i-th header on
ChainFrom(exts) == CHOOSE chain : IsChain(exts, chain)

HeaderList(exts) == exts \in Seq(ExtensionHeaders)

\* What an extension header is
IsHeader(h) ==
    /\ h[1] \in 1..255 /\ h[2] \in Seq(Octet)
    /\ (Len(h[2]) + 2) % 4 = 0 /\ Len(h[2]) + 2 <= 4 * 255
    /\ h[1] = 133 => h[2][1] < 16 /\ h[2][2] < 64

\* Every extension header of a chain is one.
LEMMA HeadersOf ==
    ASSUME NEW exts, HeaderList(exts)
    PROVE  DOMAIN exts = 1..Len(exts) /\ Len(exts) \in Nat /\ \A i \in DOMAIN exts : IsHeader(exts[i])
<1>1. ASSUME NEW h \in ExtensionHeaders PROVE IsHeader(h)
  <2>1. PICK S : S = Seq(Octet)
    OBVIOUS
  <2>2. h \in (1..255) \X S
    BY <2>1 DEF ExtensionHeaders
  <2>3. h[1] \in 1..255 /\ h[2] \in S
    BY <2>2
  <2> QED BY <2>1, <2>3 DEF ExtensionHeaders, IsHeader
<1>2. DOMAIN exts = 1..Len(exts) /\ Len(exts) \in Nat
  BY LenProperties DEF HeaderList
<1>3. \A i \in 1..Len(exts) : exts[i] \in ExtensionHeaders
  BY ElementOfSeq DEF HeaderList
<1> QED BY <1>1, <1>2, <1>3

\* The octets of an extension header
LEMMA ExtOctetsType ==
    ASSUME NEW exts, HeaderList(exts), NEW i \in DOMAIN exts
    PROVE  /\ <<(Len(exts[i][2]) + 2) \div 4>> \in Seq(Octet) /\ exts[i][2] \in Seq(Octet)
           /\ <<NextType(exts, i + 1)>> \in Seq(Octet)
           /\ <<(Len(exts[i][2]) + 2) \div 4>> \o exts[i][2] \in Seq(Octet)
           /\ ExtOctets(exts, i) \in Seq(Octet)
<1>1. PICK c : c = exts[i][2]
  OBVIOUS
<1>2. c \in Seq(Octet) /\ Len(c) + 2 <= 4 * 255
  BY <1>1, HeadersOf DEF IsHeader
<1>3. (Len(c) + 2) \div 4 \in Octet
  <2>1. Len(c) \in Nat
    BY <1>2
  <2>2. \A n \in Nat : n <= 1020 => n \div 4 \in Octet
    BY DEF Octet
  <2>3. Len(c) + 2 \in Nat /\ Len(c) + 2 <= 1020
    BY <1>2, <2>1
  <2> QED BY <2>2, <2>3
<1>4. NextType(exts, i + 1) \in Octet
  <2>1. ASSUME i + 1 \in DOMAIN exts PROVE exts[i + 1][1] \in 1..255
    BY <2>1, HeadersOf DEF IsHeader
  <2> QED BY <2>1 DEF NextType, Octet
<1>5. <<(Len(c) + 2) \div 4>> \in Seq(Octet)
  BY <1>3
<1>6. <<NextType(exts, i + 1)>> \in Seq(Octet)
  BY <1>4
<1>7. <<(Len(c) + 2) \div 4>> \o c \in Seq(Octet)
  BY <1>2, <1>5, JoinedType, Zenon
<1>8. <<(Len(c) + 2) \div 4>> \o c \o <<NextType(exts, i + 1)>> \in Seq(Octet)
  BY <1>6, <1>7, JoinedType, Zenon
<1> QED BY <1>1, <1>2, <1>5, <1>6, <1>7, <1>8, Zenon DEF ExtOctets

\* The recursion of Chain defines a string of octets.
LEMMA ChainComputed ==
    ASSUME NEW exts, HeaderList(exts)
    PROVE  /\ ChainFrom(exts) \in [Nat -> Seq(Octet)] /\ IsChain(exts, ChainFrom(exts))
           /\ Chain(exts) = <<NextType(exts, 1)>> \o ChainFrom(exts)[1]
<1> DEFINE H == DOMAIN exts
           next == [i \in H |-> i + 1]
           m == [i \in Nat |-> IF i <= Len(exts) THEN (Len(exts) + 1) - i ELSE 0]
           join == [i \in H |-> [v \in Seq(Octet) |-> ExtOctets(exts, i) \o v]]
           last == [i \in Nat |-> <<>>]
           c == ChainFrom(exts)
<1>1. Descends(H, next, m)
  BY HeadersOf DEF Descends
<1>2. \E f : Computes(f, Nat, H, next, join, last)
  <2> HIDE DEF H, next, m, join, last
  <2> QED BY <1>1, Computed
<1>. PICK f : Computes(f, Nat, H, next, join, last)
  BY <1>2, Zenon
<1>3. f \in [Nat -> Seq(Octet)]
  <2>1. ASSUME NEW i \in H, NEW v \in Seq(Octet) PROVE ExtOctets(exts, i) \o v \in Seq(Octet)
    <3>1. ExtOctets(exts, i) \in Seq(Octet)
      BY ExtOctetsType
    <3> QED BY <3>1, JoinedType, Zenon
  <2>2. join \in [H -> [Seq(Octet) -> Seq(Octet)]]
    BY <2>1, Zenon
  <2>3. last \in [Nat -> Seq(Octet)]
    OBVIOUS
  <2> HIDE DEF H, next, m, join, last
  <2> QED BY <1>1, <1>2, <2>2, <2>3, ComputedIn
<1>4. ASSUME NEW i \in Nat
      PROVE  f[i] = IF i \in DOMAIN exts THEN ExtOctets(exts, i) \o f[i + 1] ELSE <<>>
  <2>1. f[i] = IF i \in H THEN join[i][f[next[i]]] ELSE last[i]
    <3> HIDE DEF H, next, join, last
    <3> QED BY Zenon DEF Computes
  <2>2. f[i + 1] \in Seq(Octet)
    BY <1>3
  <2>3. i \in H => next[i] = i + 1 /\ join[i][f[i + 1]] = ExtOctets(exts, i) \o f[i + 1]
    BY <2>2, Zenon
  <2> QED BY <2>1, <2>3, Zenon
<1>5. IsChain(exts, f)
  BY <1>3, <1>4 DEF IsChain
<1>6. IsChain(exts, c)
  BY <1>5, Zenon DEF ChainFrom
<1> HIDE DEF c
<1>7. c = f
  <2>1. ASSUME NEW p \in Nat, p \in H => c[next[p]] = f[next[p]] PROVE c[p] = f[p]
    <3>1. /\ c[p] = IF p \in DOMAIN exts THEN ExtOctets(exts, p) \o c[p + 1] ELSE <<>>
          /\ f[p] = IF p \in DOMAIN exts THEN ExtOctets(exts, p) \o f[p + 1] ELSE <<>>
      BY <1>5, <1>6, Zenon DEF IsChain
    <3>2. p \in DOMAIN exts => next[p] = p + 1
      OBVIOUS
    <3> QED BY <2>1, <3>1, <3>2, Zenon
  <2>2. \A p \in Nat : (p \in H => c[next[p]] = f[next[p]]) => c[p] = f[p]
    BY <2>1, Zenon
  <2>3. \A p \in Nat : c[p] = f[p]
    <3> HIDE DEF H, next, m, join, last
    <3> QED BY <1>1, <2>2, ComputedAlike
  <2> QED BY <1>3, <1>6, <2>3 DEF IsChain
<1>8. Chain(exts) = <<NextType(exts, 1)>> \o c[1]
  BY DEF Chain, c, ChainFrom, IsChain, NextType, ExtOctets
<1> QED BY <1>3, <1>6, <1>7, <1>8 DEF c

(***************************************************************************)
(* The walk over extension headers                                         *)
(***************************************************************************)

IsWalk(b, walk) ==
    walk = [p \in Nat |-> IF HasExt(b, p) THEN <<p>> \o walk[p + ExtLen(b, p)] ELSE <<>>]

\* The extension headers from an offset on
WalkFrom(b) == CHOOSE walk : IsWalk(b, walk)

\* The recursion of Extensions ends, whatever octets it goes over.
LEMMA WalkComputed ==
    ASSUME NEW b \in Seq(Octet)
    PROVE  /\ \A p \in Nat : /\ WalkFrom(b)[p] \in Seq(Nat)
                             /\ WalkFrom(b)[p] = IF HasExt(b, p)
                                  THEN <<p>> \o WalkFrom(b)[p + ExtLen(b, p)] ELSE <<>>
           /\ Extensions(b) = IF Optional(b) THEN WalkFrom(b)[12] ELSE <<>>
<1> DEFINE H == {p \in Nat : HasExt(b, p)}
           next == [p \in H |-> p + ExtLen(b, p)]
           m == [p \in Nat |-> IF p <= Len(b) THEN Len(b) - p ELSE 0]
           join == [p \in H |-> [v \in Seq(Nat) |-> <<p>> \o v]]
           last == [p \in Nat |-> <<>>]
<1>1. Descends(H, next, m)
  <2>1. Len(b) \in Nat
    OBVIOUS
  <2>2. ASSUME NEW p \in H
        PROVE  p < Len(b) /\ ExtLen(b, p) \in Nat /\ ExtLen(b, p) # 0
    <3>0. p \in Nat /\ HasExt(b, p)
      OBVIOUS
    <3>1. p \in Nat /\ p < Len(b) /\ ExtLen(b, p) # 0
      BY <3>0, Zenon DEF HasExt
    <3>3. At(b, p) \in Octet
      BY <3>1, OctetAt
    <3>4. At(b, p) \in Nat
      BY <3>3, OctetNat, Zenon
    <3> QED BY <3>1, <3>4 DEF ExtLen
  <2>3. m \in [Nat -> Nat]
    BY <2>1
  <2>4. ASSUME NEW p \in H PROVE next[p] \in Nat /\ m[next[p]] < m[p]
    <3>1. p \in Nat /\ next[p] = p + ExtLen(b, p)
      OBVIOUS
    <3>2. next[p] \in Nat /\ next[p] > p /\ p < Len(b)
      BY <2>1, <2>2, <3>1
    <3>3. \A q \in Nat : m[q] = IF q <= Len(b) THEN Len(b) - q ELSE 0
      BY Zenon
    <3> HIDE DEF m, next, H
    <3> QED BY <2>1, <3>1, <3>2, <3>3
  <2> HIDE DEF next, m
  <2> QED BY <2>3, <2>4 DEF Descends
<1>2. \E f : Computes(f, Nat, H, next, join, last)
  <2> HIDE DEF H, next, m, join, last
  <2> QED BY <1>1, Computed
<1>. PICK f : Computes(f, Nat, H, next, join, last)
  BY <1>2, Zenon
<1>3. f \in [Nat -> Seq(Nat)]
  <2>1. ASSUME NEW p \in H, NEW v \in Seq(Nat) PROVE <<p>> \o v \in Seq(Nat)
    <3>1. p \in Nat
      OBVIOUS
    <3>2. <<p>> \in Seq(Nat)
      BY <3>1
    <3> QED BY <3>2, ConcatProperties, Zenon
  <2>2. join \in [H -> [Seq(Nat) -> Seq(Nat)]]
    BY <2>1, Zenon
  <2>3. last \in [Nat -> Seq(Nat)]
    OBVIOUS
  <2> HIDE DEF H, next, m, join, last
  <2> QED BY <1>1, <1>2, <2>2, <2>3, ComputedIn
<1>4. ASSUME NEW p \in Nat
      PROVE  f[p] = IF HasExt(b, p) THEN <<p>> \o f[p + ExtLen(b, p)] ELSE <<>>
  <2>1. f[p] = IF p \in H THEN join[p][f[next[p]]] ELSE last[p]
    <3> HIDE DEF H, next, join, last
    <3> QED BY Zenon DEF Computes
  <2>2. p \in H <=> HasExt(b, p)
    OBVIOUS
  <2>3. ASSUME p \in H PROVE join[p][f[next[p]]] = <<p>> \o f[p + ExtLen(b, p)]
    <3>1. next[p] = p + ExtLen(b, p) /\ next[p] \in Nat
      <4>1. next[p] \in Nat
        BY <1>1, <2>3, Zenon DEF Descends
      <4> QED BY <2>3, <4>1, Zenon
    <3>2. f[next[p]] \in Seq(Nat)
      BY <1>3, <3>1, Zenon
    <3> QED BY <2>3, <3>1, <3>2, Zenon
  <2>4. last[p] = <<>>
    OBVIOUS
  <2> HIDE DEF H, next, join, last
  <2> QED BY <2>1, <2>2, <2>3, <2>4, Zenon
<1>5. IsWalk(b, f)
  <2>1. f = [p \in Nat |-> f[p]]
    BY <1>3
  <2> QED BY <1>4, <2>1, Zenon DEF IsWalk
<1>6. IsWalk(b, WalkFrom(b))
  BY <1>5, Zenon DEF WalkFrom
<1>7. PICK c : c = WalkFrom(b)
  OBVIOUS
<1>8. \A p \in Nat : c[p] = IF HasExt(b, p) THEN <<p>> \o c[p + ExtLen(b, p)] ELSE <<>>
  BY <1>6, <1>7, Zenon DEF IsWalk
<1>9. \A p \in Nat : c[p] = f[p]
  <2>1. ASSUME NEW p \in Nat, p \in H => c[next[p]] = f[next[p]] PROVE c[p] = f[p]
    <3>1. p \in H => next[p] = p + ExtLen(b, p)
      BY Zenon
    <3>2. p \in H <=> HasExt(b, p)
      OBVIOUS
    <3> HIDE DEF H, next
    <3> QED BY <1>4, <1>8, <2>1, <3>1, <3>2, Zenon
  <2>2. \A p \in Nat : (p \in H => c[next[p]] = f[next[p]]) => c[p] = f[p]
    BY <2>1, Zenon
  <2> HIDE DEF H, next, m, join, last
  <2> QED BY <1>1, <2>2, ComputedAlike
<1>10. Extensions(b) = IF Optional(b) THEN WalkFrom(b)[12] ELSE <<>>
  BY Zenon DEF Extensions, WalkFrom, IsWalk
<1>11. \A p \in Nat : c[p] \in Seq(Nat)
  BY <1>3, <1>9, Zenon
<1> QED BY <1>7, <1>8, <1>10, <1>11, Zenon

\* Where the i-th extension header starts: the type is before it.
StartsAt(b, exts, i, p) ==
    p \in Nat \ {0} /\ At(b, p - 1) = NextType(exts, i) /\ Holds(b, p, ChainFrom(exts)[i])

\* Offset q is that of extension header h.
LiesAt(b, h, q) ==
    /\ q \in Nat /\ At(b, q - 1) = h[1] /\ ExtLen(b, q) = Len(h[2]) + 2 /\ Holds(b, q + 1, h[2])

\* The walk s meets the headers from the i-th on, and ends where the chain does.
Meets(b, exts, i, s, e) ==
    /\ Len(s) = (Len(exts) + 1) - i
    /\ \A k \in 1..Len(s) : LiesAt(b, exts[(i - 1) + k], s[k])
    /\ Len(s) # 0 => s[Len(s)] + ExtLen(b, s[Len(s)]) = e

\* Where an extension header's parts lie, and where the next one starts
LEMMA NextStarts ==
    ASSUME NEW exts, HeaderList(exts), NEW i \in DOMAIN exts, NEW b, NEW p,
           StartsAt(b, exts, i, p)
    PROVE  /\ LiesAt(b, exts[i], p) /\ HasExt(b, p)
           /\ StartsAt(b, exts, i + 1, p + ExtLen(b, p))
           /\ p + Len(ChainFrom(exts)[i])
                = (p + ExtLen(b, p)) + Len(ChainFrom(exts)[i + 1])
<1> DEFINE h == exts[i]  n == NextType(exts, i + 1)
           l == (Len(h[2]) + 2) \div 4
           rest == ChainFrom(exts)[i + 1]
<1>1. IsHeader(h) /\ i \in Nat
  BY HeadersOf
<1>2. h[2] \in Seq(Octet) /\ Len(h[2]) \in Nat /\ h[1] \in 1..255
  BY <1>1 DEF IsHeader
<1>3. 4 * l = Len(h[2]) + 2
  <2>1. \A k \in Nat : k % 4 = 0 => 4 * (k \div 4) = k
    OBVIOUS
  <2>2. Len(h[2]) + 2 \in Nat /\ (Len(h[2]) + 2) % 4 = 0
    <3>1. (Len(h[2]) + 2) % 4 = 0
      BY <1>1, Zenon DEF IsHeader
    <3>2. \A k \in Nat : k + 2 \in Nat
      OBVIOUS
    <3> QED BY <1>2, <3>1, <3>2, Zenon
  <2> QED BY <2>1, <2>2, Zenon
<1>4. /\ <<l>> \in Seq(Octet) /\ <<n>> \in Seq(Octet) /\ <<l>> \o h[2] \in Seq(Octet)
      /\ ExtOctets(exts, i) \in Seq(Octet) /\ ExtOctets(exts, i) = (<<l>> \o h[2]) \o <<n>>
  BY ExtOctetsType DEF ExtOctets
<1>5. rest \in Seq(Octet) /\ ChainFrom(exts)[i] = ExtOctets(exts, i) \o rest
  <2>1. ChainFrom(exts) \in [Nat -> Seq(Octet)] /\ IsChain(exts, ChainFrom(exts))
    BY ChainComputed
  <2>2. i + 1 \in Nat
    BY <1>1
  <2>3. \A c : IsChain(exts, c) => c[i] = ExtOctets(exts, i) \o c[i + 1]
    BY <1>1, Zenon DEF IsChain
  <2> QED BY <2>1, <2>2, <2>3, Zenon
<1>6. p \in Nat \ {0} /\ At(b, p - 1) = h[1] /\ Holds(b, p, ChainFrom(exts)[i])
  BY DEF StartsAt, NextType
<1> HIDE DEF h, n, l, rest
<1>7. Len(<<l>>) = 1 /\ Len(<<n>>) = 1
  OBVIOUS
<1>8. Len(<<l>> \o h[2]) = 1 + Len(h[2]) /\ Len(ExtOctets(exts, i)) = (1 + Len(h[2])) + 1
  <2>1. Len(<<l>> \o h[2]) = 1 + Len(h[2])
    BY <1>2, <1>4, <1>7, JoinedLen, Zenon
  <2>2. Len((<<l>> \o h[2]) \o <<n>>) = Len(<<l>> \o h[2]) + Len(<<n>>)
    BY <1>4, JoinedLen, Zenon
  <2> QED BY <1>4, <1>7, <2>1, <2>2, Zenon
<1>9. Len(ChainFrom(exts)[i]) = ((1 + Len(h[2])) + 1) + Len(rest)
  BY <1>4, <1>5, <1>8, JoinedLen, Zenon
<1>10. Holds(b, p, ExtOctets(exts, i)) /\ Holds(b, p + ((1 + Len(h[2])) + 1), rest)
  <2>1. Holds(b, p, ExtOctets(exts, i) \o rest)
    BY <1>5, <1>6, Zenon
  <2>2. (1 + Len(h[2])) + 1 = Len(ExtOctets(exts, i))
    BY <1>8, Zenon
  <2> QED BY <1>4, <1>5, <2>1, <2>2, HoldsJoined, Zenon
<1>11. Holds(b, p, <<l>> \o h[2]) /\ Holds(b, p + (1 + Len(h[2])), <<n>>)
  BY <1>4, <1>8, <1>10, HoldsJoined, Zenon
<1>12. Holds(b, p, <<l>>) /\ Holds(b, p + 1, h[2])
  BY <1>2, <1>4, <1>7, <1>11, HoldsJoined, Zenon
<1>13. At(b, p) = l /\ p + 1 <= Len(b)
  BY <1>12, HoldsOne
<1>14. At(b, p + (1 + Len(h[2]))) = n /\ (p + (1 + Len(h[2]))) + 1 <= Len(b)
  BY <1>11, HoldsOne
<1>15. ExtLen(b, p) = Len(h[2]) + 2
  BY <1>3, <1>13 DEF ExtLen
<1>16. p + ExtLen(b, p) = p + ((1 + Len(h[2])) + 1) /\ (p + ExtLen(b, p)) - 1 = p + (1 + Len(h[2]))
       /\ p + ExtLen(b, p) \in Nat \ {0}
  BY <1>2, <1>6, <1>15
<1>17. Len(b) \in Nat
  BY <1>10 DEF Holds
<1>18. HasExt(b, p)
  <2>1. At(b, p - 1) # 0
    <3>1. \A k \in 1..255 : k # 0
      OBVIOUS
    <3> QED BY <1>2, <1>6, <3>1, Zenon
  <2>2. p < Len(b) /\ ExtLen(b, p) # 0
    BY <1>2, <1>6, <1>13, <1>15, <1>17
  <2>3. p + ExtLen(b, p) <= Len(b)
    BY <1>2, <1>6, <1>14, <1>16, <1>17
  <2> QED BY <2>1, <2>2, <2>3, Zenon DEF HasExt
<1>19. LiesAt(b, h, p)
  BY <1>6, <1>12, <1>15 DEF LiesAt
<1>20. StartsAt(b, exts, i + 1, p + ExtLen(b, p))
  BY <1>10, <1>14, <1>16, Zenon DEF StartsAt, n, rest
<1>21. p + Len(ChainFrom(exts)[i]) = (p + ExtLen(b, p)) + Len(rest)
  <2>1. Len(rest) \in Nat
    BY <1>5
  <2> QED BY <1>2, <1>6, <1>9, <1>15, <2>1
<1> QED BY <1>18, <1>19, <1>20, <1>21 DEF h, rest

\* A walk that starts at an extension header meets it and all that follow.
LEMMA WalkMeets ==
    ASSUME NEW exts, HeaderList(exts), NEW b \in Seq(Octet)
    PROVE  \A i \in 1..(Len(exts) + 1) : \A p :
             StartsAt(b, exts, i, p) =>
               Meets(b, exts, i, WalkFrom(b)[p], p + Len(ChainFrom(exts)[i]))
<1> DEFINE n == Len(exts)
           M(i, p) == Meets(b, exts, i, WalkFrom(b)[p], p + Len(ChainFrom(exts)[i]))
           T == {d \in Nat : \A i \in 1..(n + 1) : \A p :
                   (n + 1) - i = d /\ StartsAt(b, exts, i, p) => M(i, p)}
<1>1. n \in Nat /\ DOMAIN exts = 1..n
  BY HeadersOf
<1> HIDE DEF n, M
<1>2. ASSUME NEW d \in Nat, \A k \in Nat : k < d => k \in T
      PROVE  d \in T
  <2> SUFFICES ASSUME NEW i \in 1..(n + 1), NEW p, (n + 1) - i = d, StartsAt(b, exts, i, p)
               PROVE  M(i, p)
    OBVIOUS
  <2> DEFINE s == WalkFrom(b)[p]
  <2>1. p \in Nat /\ p # 0 /\ p \in Nat \ {0}
    BY DEF StartsAt
  <2>2. s \in Seq(Nat) /\ s = IF HasExt(b, p) THEN <<p>> \o WalkFrom(b)[p + ExtLen(b, p)] ELSE <<>>
    BY <2>1, WalkComputed
  <2>3. CASE i = n + 1
    <3>1. i \notin DOMAIN exts
      BY <1>1, <2>3
    <3>2. ~HasExt(b, p)
      BY <3>1 DEF StartsAt, NextType, HasExt
    <3>3. Len(s) = 0
      BY <2>2, <3>2
    <3>4. Len(s) = (n + 1) - i
      BY <1>1, <2>3, <3>3
    <3>5. \A k \in 1..Len(s) : FALSE
      BY <3>3
    <3> HIDE DEF s
    <3> QED BY <3>3, <3>4, <3>5, Zenon DEF Meets, M, s, n
  <2>4. CASE i # n + 1
    <3> DEFINE q == p + ExtLen(b, p)
               r == WalkFrom(b)[q]
               e == p + Len(ChainFrom(exts)[i])
    <3>1. i \in DOMAIN exts /\ i + 1 \in 1..(n + 1) /\ i \in Nat
      BY <1>1, <2>4
    <3>2. /\ LiesAt(b, exts[i], p) /\ HasExt(b, p) /\ StartsAt(b, exts, i + 1, q)
          /\ e = q + Len(ChainFrom(exts)[i + 1])
      BY <3>1, NextStarts
    <3>3. M(i + 1, q)
      <4>1. (n + 1) - (i + 1) \in Nat /\ (n + 1) - (i + 1) < d
        BY <1>1, <2>4
      <4>2. (n + 1) - (i + 1) \in T
        BY <1>2, <4>1, Zenon
      <4> QED BY <3>1, <3>2, <4>2, Zenon
    <3>4. q \in Nat
      BY <3>2 DEF StartsAt
    <3>5. r \in Seq(Nat) /\ s = <<p>> \o r
      BY <2>2, <3>2, <3>4, WalkComputed, Zenon
    <3>6. /\ Len(r) = (n + 1) - (i + 1)
          /\ \A k \in 1..Len(r) : LiesAt(b, exts[((i + 1) - 1) + k], r[k])
          /\ Len(r) # 0 => r[Len(r)] + ExtLen(b, r[Len(r)]) = e
      BY <3>2, <3>3, Zenon DEF M, Meets, n
    <3> HIDE DEF s, r, q, e
    <3>7. Len(s) = 1 + Len(r) /\ s[1] = p /\ \A k \in 1..Len(r) : s[k + 1] = r[k]
      BY <2>1, <3>5
    <3>8. Len(r) \in Nat
      BY <3>5
    <3>9. Len(s) = (n + 1) - i
      BY <1>1, <3>1, <3>6, <3>7
    <3>10. ASSUME NEW k \in 1..Len(s) PROVE LiesAt(b, exts[(i - 1) + k], s[k])
      <4>1. CASE k = 1
        <5>1. (i - 1) + k = i
          BY <3>1, <4>1
        <5> QED BY <3>2, <3>7, <4>1, <5>1, Zenon
      <4>2. CASE k # 1
        <5>1. k - 1 \in 1..Len(r) /\ (k - 1) + 1 = k /\ ((i + 1) - 1) + (k - 1) = (i - 1) + k
          BY <3>1, <3>7, <3>8, <4>2
        <5>2. LiesAt(b, exts[((i + 1) - 1) + (k - 1)], r[k - 1]) /\ s[(k - 1) + 1] = r[k - 1]
          BY <3>6, <3>7, <5>1, Zenon
        <5> QED BY <5>1, <5>2, Zenon
      <4> QED BY <4>1, <4>2
    <3>11. Len(s) # 0 => s[Len(s)] + ExtLen(b, s[Len(s)]) = e
      <4>1. CASE Len(r) = 0
        <5>1. n = i
          BY <1>1, <3>1, <3>6, <4>1
        <5>2. Len(ChainFrom(exts)[i + 1]) = 0
          <6>1. i + 1 \notin DOMAIN exts /\ i + 1 \in Nat
            BY <1>1, <5>1
          <6>2. IsChain(exts, ChainFrom(exts))
            BY ChainComputed
          <6>3. \A c : IsChain(exts, c) => c[i + 1] = <<>>
            BY <6>1, Zenon DEF IsChain
          <6>4. ChainFrom(exts)[i + 1] = <<>>
            BY <6>2, <6>3, Zenon
          <6> QED BY <6>4
        <5>3. e = q
          BY <3>2, <3>4, <5>2
        <5>4. s[Len(s)] = p
          BY <3>7, <4>1
        <5> QED BY <5>3, <5>4, Zenon DEF q
      <4>2. CASE Len(r) # 0
        <5>1. Len(r) \in 1..Len(r) /\ Len(s) = Len(r) + 1
          BY <3>7, <3>8, <4>2
        <5>2. s[Len(s)] = r[Len(r)]
          BY <3>7, <5>1, Zenon
        <5> QED BY <3>6, <4>2, <5>2, Zenon
      <4> QED BY <4>1, <4>2
    <3> QED BY <3>9, <3>10, <3>11, Zenon DEF Meets, M, n, s, e
  <2> QED BY <2>3, <2>4
<1>3. \A d \in Nat : d \in T
  <2> HIDE DEF T
  <2> QED BY <1>2, SetInduction
<1>4. ASSUME NEW i \in 1..(n + 1), NEW p, StartsAt(b, exts, i, p) PROVE M(i, p)
  <2>1. (n + 1) - i \in Nat
    BY <1>1
  <2> QED BY <1>3, <1>4, <2>1
<1> QED BY <1>4, Zenon DEF n, M

(***************************************************************************)
(* A message, as the code reads it                                         *)
(***************************************************************************)

\* b starts with the header of a message, what it announces and the body.
Laid(b, flags, type, teid, a, body) ==
    /\ b \in Seq(Octet) /\ At(b, 0) = flags /\ At(b, 1) = type
    /\ Uint16(b, 2) = Len(a) + Len(body) /\ Uint32(b, 4) = teid
    /\ Holds(b, 8, a) /\ Holds(b, 8 + Len(a), body)

\* What a peer writes, where it writes it
LEMMA HeaderLaid ==
    ASSUME NEW flags \in Octet, NEW type \in Octet, NEW teid \in Uint32s,
           NEW a \in Seq(Octet), NEW body \in Seq(Octet), NEW z \in Seq(Octet),
           Fits(Len(a) + Len(body))
    PROVE  Laid(<<flags, type>> \o Octets(Len(a) + Len(body), 2) \o Octets(teid, 4)
                  \o (a \o body \o z), flags, type, teid, a, body)
<1>1. PICK f : f = <<flags, type>>
  OBVIOUS
<1>2. PICK l : l = Octets(Len(a) + Len(body), 2)
  BY Zenon
<1>3. PICK t : t = Octets(teid, 4)
  OBVIOUS
<1>4. f \in Seq(Octet) /\ Len(f) = 2 /\ f[1] = flags /\ f[2] = type
  BY <1>1
<1>5. l \in Seq(Octet) /\ Len(l) = 2 /\ t \in Seq(Octet) /\ Len(t) = 4
  BY <1>2, <1>3, OctetsType DEF Uint32s, Fits, Uint16s
<1>6. PICK b : b = f \o l \o t \o (a \o body \o z)
  OBVIOUS
<1>7. a \o body \in Seq(Octet) /\ a \o body \o z \in Seq(Octet)
      /\ f \o l \in Seq(Octet) /\ f \o l \o t \in Seq(Octet)
      /\ f \o l \o t \o (a \o body \o z) \in Seq(Octet)
  BY <1>4, <1>5, JoinedType, Zenon
<1>8. Len(f \o l) = 4 /\ Len(f \o l \o t) = 8
  <2>1. Len(f \o l) = Len(f) + Len(l) /\ Len(f \o l \o t) = Len(f \o l) + Len(t)
    BY <1>4, <1>5, <1>7, JoinedLen, Zenon
  <2> QED BY <1>4, <1>5, <2>1
<1>9. Holds(b, 0, f \o l \o t \o (a \o body \o z))
  BY <1>6, <1>7, HoldsSelf, Zenon
<1>10. Holds(b, 0, f \o l \o t) /\ Holds(b, 0 + 8, a \o body \o z)
  BY <1>7, <1>8, <1>9, HoldsJoined, Zenon
<1>11. Holds(b, 0, f \o l) /\ Holds(b, 0 + 4, t)
  BY <1>5, <1>7, <1>8, <1>10, HoldsJoined, Zenon
<1>12. Holds(b, 0, f) /\ Holds(b, 0 + 2, l)
  BY <1>4, <1>5, <1>11, HoldsJoined, Zenon
<1>13. 0 + 2 = 2 /\ 0 + 4 = 4 /\ 0 + 8 = 8
  OBVIOUS
<1>14. Holds(b, 8, a \o body)
  <2>1. Holds(b, 8, a \o body \o z)
    BY <1>10, <1>13, Zenon
  <2> QED BY <1>7, <2>1, HoldsJoined, Zenon
<1>15. Holds(b, 8, a) /\ Holds(b, 8 + Len(a), body)
  <2>1. PICK k : k = Len(a)
    OBVIOUS
  <2>2. Holds(b, 8, a) /\ Holds(b, 8 + k, body)
    BY <1>14, <2>1, HoldsJoined, Zenon
  <2> QED BY <2>1, <2>2, Zenon
<1>16. At(b, 0) = flags /\ At(b, 1) = type
  BY <1>4, <1>12 DEF Holds, At
<1>17. Uint16(b, 2) = Len(a) + Len(body)
  BY <1>2, <1>12, <1>13, HoldsWord, Zenon
<1>18. Uint32(b, 4) = teid
  BY <1>3, <1>11, <1>13, HoldsLong, Zenon
<1>19. b \in Seq(Octet)
  BY <1>6, <1>7, Zenon
<1>20. Laid(b, flags, type, teid, a, body)
  BY <1>15, <1>16, <1>17, <1>18, <1>19 DEF Laid
<1> QED BY <1>1, <1>2, <1>3, <1>6, <1>20, Zenon

\* The shape of a message, as a peer may choose it
ShapeFits(shape) ==
    (\A n \in shape.seq : Fits(n)) /\ shape.pad \in Nat /\ HeaderList(shape.exts)

\* The sequence number that is written, zero when there is none
SeqOf(shape) == IF shape.seq = {} THEN 0 ELSE CHOOSE n \in shape.seq : TRUE

\* Nothing, or the sequence number and the chain of extension headers
LEMMA AnnouncedIs ==
    ASSUME NEW shape, ShapeFits(shape)
    PROVE  /\ Announced(shape) \in Seq(Octet)
           /\ (shape.seq = {} /\ shape.exts = <<>>) => Announced(shape) = <<>>
           /\ ~(shape.seq = {} /\ shape.exts = <<>>) =>
                /\ Len(Announced(shape)) = 4 + Len(ChainFrom(shape.exts)[1])
                /\ Fits(SeqOf(shape))
                /\ \A b, p : Holds(b, p, Announced(shape)) =>
                     /\ Holds(b, p, Octets(SeqOf(shape), 2))
                     /\ Holds(b, p + 3, <<NextType(shape.exts, 1)>>)
                     /\ Holds(b, (p + 3) + 1, ChainFrom(shape.exts)[1])
<1>1. PICK n : n = SeqOf(shape)
  OBVIOUS
<1>2. Fits(n)
  <2>1. ASSUME shape.seq # {} PROVE n \in shape.seq
    <3>1. \E k \in shape.seq : TRUE
      BY <2>1
    <3>2. (CHOOSE k \in shape.seq : TRUE) \in shape.seq
      BY <3>1, Zenon
    <3> QED BY <1>1, <2>1, <3>2, Zenon DEF SeqOf
  <2>2. \A k \in shape.seq : Fits(k)
    BY DEF ShapeFits
  <2>3. Fits(0)
    BY DEF Fits, Uint16s
  <2>4. shape.seq = {} => n = 0
    BY <1>1, Zenon DEF SeqOf
  <2> QED BY <2>1, <2>2, <2>3, <2>4
<1>3. PICK o : o = Octets(n, 2)
  OBVIOUS
<1>4. o \in Seq(Octet) /\ Len(o) = 2
  BY <1>2, <1>3, OctetsType DEF Fits, Uint16s
<1>5. HeaderList(shape.exts)
  BY DEF ShapeFits
<1>6. PICK t : t = <<NextType(shape.exts, 1)>>
  OBVIOUS
<1>7. PICK c : c = ChainFrom(shape.exts)[1]
  BY Zenon
<1>8. c \in Seq(Octet) /\ Chain(shape.exts) = t \o c
  <2>1. 1 \in Nat
    OBVIOUS
  <2>2. ChainFrom(shape.exts) \in [Nat -> Seq(Octet)]
    BY <1>5, ChainComputed
  <2>3. ChainFrom(shape.exts)[1] \in Seq(Octet)
    BY <2>1, <2>2, Zenon
  <2>4. Chain(shape.exts) = <<NextType(shape.exts, 1)>> \o ChainFrom(shape.exts)[1]
    BY <1>5, ChainComputed
  <2> QED BY <1>6, <1>7, <2>3, <2>4, Zenon
<1>9. t \in Seq(Octet) /\ Len(t) = 1
  <2>1. NextType(shape.exts, 1) \in Octet
    <3>1. ASSUME 1 \in DOMAIN shape.exts PROVE shape.exts[1][1] \in 1..255
      BY <1>5, <3>1, HeadersOf DEF IsHeader
    <3> QED BY <3>1 DEF NextType, Octet
  <2> QED BY <1>6, <2>1
<1>10. PICK z : z = <<0>>
  OBVIOUS
<1>11. z \in Seq(Octet) /\ Len(z) = 1
  BY <1>10 DEF Octet
<1>12. o \o z \in Seq(Octet) /\ t \o c \in Seq(Octet) /\ o \o z \o (t \o c) \in Seq(Octet)
  BY <1>4, <1>8, <1>9, <1>11, JoinedType, Zenon
<1>13. Announced(shape) = IF shape.seq = {} /\ shape.exts = <<>> THEN <<>> ELSE o \o z \o (t \o c)
  <2>1. Announced(shape) = IF shape.seq # {} \/ shape.exts # <<>>
                             THEN Octets(SeqOf(shape), 2) \o <<0>> \o Chain(shape.exts) ELSE <<>>
    BY Zenon DEF Announced, SeqOf
  <2>2. Octets(SeqOf(shape), 2) \o <<0>> \o Chain(shape.exts) = o \o z \o (t \o c)
    BY <1>1, <1>3, <1>8, <1>10, Zenon
  <2> QED BY <2>1, <2>2, Zenon
<1>14. Len(o \o z) = 3 /\ Len(o \o z \o (t \o c)) = 4 + Len(c)
  <2>1. Len(o \o z) = Len(o) + Len(z) /\ Len(t \o c) = Len(t) + Len(c)
        /\ Len(o \o z \o (t \o c)) = Len(o \o z) + Len(t \o c)
    BY <1>4, <1>8, <1>9, <1>11, <1>12, JoinedLen, Zenon
  <2>2. Len(c) \in Nat
    BY <1>8
  <2> QED BY <1>4, <1>9, <1>11, <2>1, <2>2
<1>15. ASSUME NEW b, NEW p, Holds(b, p, o \o z \o (t \o c))
       PROVE  Holds(b, p, o) /\ Holds(b, p + 3, t) /\ Holds(b, (p + 3) + 1, c)
  <2>1. Holds(b, p, o \o z) /\ Holds(b, p + 3, t \o c)
    BY <1>12, <1>14, <1>15, HoldsJoined, Zenon
  <2>2. Holds(b, p, o)
    BY <1>4, <1>11, <2>1, HoldsJoined, Zenon
  <2>3. Holds(b, p + 3, t) /\ Holds(b, (p + 3) + 1, c)
    BY <1>8, <1>9, <2>1, HoldsJoined, Zenon
  <2> QED BY <2>2, <2>3
<1>16. <<>> \in Seq(Octet)
  OBVIOUS
<1> QED BY <1>1, <1>2, <1>3, <1>6, <1>7, <1>12, <1>13, <1>14, <1>15, <1>16, Zenon

IsPlain(shape) == shape.seq = {} /\ shape.exts = <<>>

\* The flags say what follows the header.
LEMMA FlagsRead ==
    ASSUME NEW shape
    PROVE  /\ Flags(shape) \in Octet /\ Flags(shape) \div 32 = 1
           /\ (Flags(shape) % 8 = 0 <=> IsPlain(shape))
           /\ ((Flags(shape) \div 2) % 2 = 1 <=> shape.seq # {})
<1>1. PICK e : e = IF shape.exts # <<>> THEN 4 ELSE 0
  OBVIOUS
<1>2. PICK s : s = IF shape.seq # {} THEN 2 ELSE 0
  BY Zenon
<1>3. Flags(shape) = (48 + e) + s
  BY <1>1, <1>2, Zenon DEF Flags
<1> QED BY <1>1, <1>2, <1>3 DEF Octet, IsPlain

\* A message, where its parts are
LEMMA MessageLaid ==
    ASSUME NEW type \in Octet, NEW teid \in Uint32s, NEW shape, ShapeFits(shape),
           NEW body \in Seq(Octet), Fits(Len(Announced(shape)) + Len(body))
    PROVE  Laid(GTPUMessage(type, teid, shape, body), Flags(shape), type, teid,
                Announced(shape), body)
<1>1. PICK a : a = Announced(shape)
  OBVIOUS
<1>2. PICK z : z = Zeros(shape.pad)
  BY Zenon
<1>3. a \in Seq(Octet)
  BY <1>1, AnnouncedIs, Zenon
<1>4. z \in Seq(Octet)
  BY <1>2, ZerosType, Zenon DEF ShapeFits
<1>5. Flags(shape) \in Octet
  BY FlagsRead, Zenon
<1>6. PICK f : f = Flags(shape)
  OBVIOUS
<1>7. GTPUMessage(type, teid, shape, body)
        = <<f, type>> \o Octets(Len(a) + Len(body), 2) \o Octets(teid, 4) \o (a \o body \o z)
  BY <1>1, <1>2, <1>6, Zenon DEF GTPUMessage
<1>8. Fits(Len(a) + Len(body)) /\ f \in Octet
  BY <1>1, <1>5, <1>6, Zenon
<1>9. Laid(<<f, type>> \o Octets(Len(a) + Len(body), 2) \o Octets(teid, 4) \o (a \o body \o z),
           f, type, teid, a, body)
  BY <1>3, <1>4, <1>8, HeaderLaid, Zenon
<1> QED BY <1>1, <1>6, <1>7, <1>9, Zenon

\* b is a message of this type, TEID, shape and body.
IsMessage(b, type, teid, shape, body) ==
    /\ type \in Octet /\ ShapeFits(shape) /\ body \in Seq(Octet)
    /\ Laid(b, Flags(shape), type, teid, Announced(shape), body)

\* The header, the extension headers and the body of a message are read as they
\* were written, whatever chain of extension headers lies between.
LEMMA BodyRead ==
    ASSUME NEW b, NEW type, NEW teid, NEW shape, NEW body, IsMessage(b, type, teid, shape, body)
    PROVE  /\ b \in Seq(Octet) /\ At(b, 1) = type /\ Uint32(b, 4) = teid
           /\ Decodes(b) /\ Payload(b) = body
           /\ Meets(b, shape.exts, 1, Extensions(b), 8 + Len(Announced(shape)))
           /\ HasSeq(b) <=> shape.seq # {}
           /\ shape.seq # {} => Uint16(b, 8) = SeqOf(shape)
<1>0. /\ type \in Octet /\ ShapeFits(shape) /\ body \in Seq(Octet)
      /\ Laid(b, Flags(shape), type, teid, Announced(shape), body)
  BY Zenon DEF IsMessage
<1>1. PICK a : a = Announced(shape)
  OBVIOUS
<1>2. /\ b \in Seq(Octet) /\ At(b, 0) = Flags(shape) /\ Uint16(b, 2) = Len(a) + Len(body)
      /\ Holds(b, 8, a) /\ Holds(b, 8 + Len(a), body)
  BY <1>0, <1>1, Zenon DEF Laid
<1>3. PICK exts : exts = shape.exts
  OBVIOUS
<1>4. HeaderList(exts)
  BY <1>0, <1>3, Zenon DEF ShapeFits
<1>5. PICK c : c = ChainFrom(exts)[1]
  OBVIOUS
<1>6. Optional(b) <=> ~IsPlain(shape)
  BY <1>2, FlagsRead DEF Optional
<1>7. a \in Seq(Octet) /\ Len(a) \in Nat /\ Len(body) \in Nat /\ Len(b) \in Nat
  BY <1>0, <1>2 DEF Holds
<1>8. ASSUME IsPlain(shape) PROVE Len(a) = 0 /\ exts = <<>>
  <2>1. a = <<>> /\ exts = <<>>
    BY <1>1, <1>3, <1>0, <1>8, AnnouncedIs, Zenon DEF IsPlain
  <2> QED BY <2>1
<1>9. c \in Seq(Octet) /\ Len(c) \in Nat
  <2>1. ChainFrom(exts) \in [Nat -> Seq(Octet)]
    BY <1>4, ChainComputed
  <2>2. c \in Seq(Octet)
    BY <1>5, <2>1
  <2> QED BY <2>2
<1>10. ASSUME ~IsPlain(shape)
       PROVE  /\ Len(a) = 4 + Len(c) /\ Uint16(b, 8) = SeqOf(shape) /\ StartsAt(b, exts, 1, 12)
  <2>1. /\ Len(a) = 4 + Len(c) /\ Fits(SeqOf(shape)) /\ Holds(b, 8, Octets(SeqOf(shape), 2))
        /\ Holds(b, 8 + 3, <<NextType(exts, 1)>>) /\ Holds(b, (8 + 3) + 1, c)
    BY <1>1, <1>2, <1>3, <1>5, <1>0, <1>10, AnnouncedIs, Zenon DEF IsPlain
  <2>2. Uint16(b, 8) = SeqOf(shape)
    BY <2>1, HoldsWord, Zenon
  <2>3. At(b, 8 + 3) = NextType(exts, 1)
    BY <2>1, HoldsOne, Zenon
  <2>4. (8 + 3) + 1 = 12 /\ 12 - 1 = 8 + 3 /\ 12 \in Nat \ {0}
    OBVIOUS
  <2>5. Holds(b, 12, c) /\ At(b, 12 - 1) = NextType(exts, 1)
    BY <2>1, <2>3, <2>4, Zenon
  <2> QED BY <2>1, <2>2, <2>4, <2>5, <1>5, Zenon DEF StartsAt
<1>11. 8 + Len(a) <= Len(b) /\ (8 + Len(a)) + Len(body) <= Len(b)
  BY <1>2 DEF Holds
<1>12. Decodes(b)
  <2>1. Len(b) >= 8 /\ (Optional(b) => Len(b) >= 12)
    BY <1>6, <1>7, <1>9, <1>10, <1>11
  <2>2. At(b, 0) \div 32 = 1
    BY <1>2, FlagsRead, Zenon
  <2> QED BY <2>1, <2>2, Zenon DEF Decodes
<1>13. HasSeq(b) <=> shape.seq # {}
  BY <1>2, FlagsRead, Zenon DEF HasSeq
<1>14. shape.seq # {} => Uint16(b, 8) = SeqOf(shape)
  BY <1>10, Zenon DEF IsPlain
<1>15. PICK s : s = Extensions(b)
  OBVIOUS
<1>16. DOMAIN exts = 1..Len(exts) /\ Len(exts) \in Nat
  BY <1>4, HeadersOf
<1>17. Meets(b, exts, 1, s, 8 + Len(a))
  <2>1. CASE IsPlain(shape)
    <3>1. s = <<>> /\ Len(exts) = 0
      <4>1. s = <<>>
        BY <1>2, <1>6, <1>15, <2>1, WalkComputed, Zenon
      <4> QED BY <1>8, <2>1, <4>1
    <3>2. Len(s) = 0 /\ Len(s) = (Len(exts) + 1) - 1 /\ \A k \in 1..Len(s) : FALSE
      BY <3>1
    <3> QED BY <3>2, Zenon DEF Meets
  <2>2. CASE ~IsPlain(shape)
    <3>1. s = WalkFrom(b)[12]
      BY <1>2, <1>6, <1>15, <2>2, WalkComputed, Zenon
    <3>2. 1 \in 1..(Len(exts) + 1)
      BY <1>16
    <3>3. Meets(b, exts, 1, s, 12 + Len(c))
      BY <1>2, <1>4, <1>5, <1>10, <2>2, <3>1, <3>2, WalkMeets, Zenon
    <3>4. 12 + Len(c) = 8 + Len(a)
      BY <1>9, <1>10, <2>2
    <3> QED BY <3>3, <3>4, Zenon
  <2> QED BY <2>1, <2>2
<1>18. Payload(b) = body
  <2> DEFINE last == s[Len(s)]
             start == CASE ~Optional(b) -> 8
                        [] Optional(b) /\ s = <<>> -> 12
                        [] OTHER -> last + ExtLen(b, last)
             end == Min2(8 + Uint16(b, 2), Len(b))
  <2>1. Payload(b) = Slice(b, Min2(start, end), end)
    BY <1>15, Zenon DEF Payload
  <2>2. end = (8 + Len(a)) + Len(body)
    <3>1. 8 + Uint16(b, 2) = (8 + Len(a)) + Len(body)
      BY <1>2, <1>7
    <3>2. end = Min2((8 + Len(a)) + Len(body), Len(b))
      BY <3>1, Zenon
    <3> QED BY <1>7, <1>11, <3>2 DEF Min2
  <2>3. start = 8 + Len(a)
    <3>1. CASE IsPlain(shape)
      <4>1. ~Optional(b)
        BY <1>6, <3>1
      <4> QED BY <1>8, <3>1, <4>1
    <3>2. CASE ~IsPlain(shape) /\ Len(exts) = 0
      <4>1. Optional(b)
        BY <1>6, <3>2
      <4>2. Len(s) = 0
        BY <1>17, <3>2 DEF Meets
      <4>3. s = <<>>
        <5>1. s \in Seq(Nat)
          BY <1>2, <1>6, <1>15, <3>2, WalkComputed
        <5> QED BY <4>2, <5>1
      <4>4. Len(c) = 0
        <5>1. 1 \notin DOMAIN exts /\ 1 \in Nat
          BY <1>16, <3>2
        <5>2. IsChain(exts, ChainFrom(exts))
          BY <1>4, ChainComputed
        <5>3. \A f : IsChain(exts, f) => f[1] = <<>>
          BY <5>1, Zenon DEF IsChain
        <5>4. c = <<>>
          BY <1>5, <5>2, <5>3, Zenon
        <5> QED BY <5>4
      <4>5. Len(a) = 4
        BY <1>10, <3>2, <4>4
      <4> QED BY <4>1, <4>3, <4>5
    <3>3. CASE ~IsPlain(shape) /\ Len(exts) # 0
      <4>1. Optional(b)
        BY <1>6, <3>3
      <4>2. Len(s) # 0 /\ last + ExtLen(b, last) = 8 + Len(a)
        <5>1. Len(s) = (Len(exts) + 1) - 1
          BY <1>17, Zenon DEF Meets
        <5>2. Len(s) # 0
          BY <1>16, <3>3, <5>1
        <5> QED BY <1>17, <5>2, Zenon DEF Meets
      <4>3. s # <<>>
        BY <4>2
      <4> HIDE DEF last
      <4> QED BY <4>1, <4>2, <4>3
    <3> QED BY <3>1, <3>2, <3>3
  <2>4. Min2(start, end) = 8 + Len(a)
    <3> HIDE DEF start, end
    <3> QED BY <1>7, <2>2, <2>3 DEF Min2
  <2>5. Slice(b, 8 + Len(a), (8 + Len(a)) + Len(body)) = body
    BY <1>2, HoldsSlice, Zenon
  <2> HIDE DEF start, end
  <2> QED BY <2>1, <2>2, <2>4, <2>5, Zenon
<1>19. At(b, 1) = type /\ Uint32(b, 4) = teid
  BY <1>0, Zenon DEF Laid
<1> QED BY <1>1, <1>2, <1>3, <1>12, <1>13, <1>14, <1>15, <1>17, <1>18, <1>19, Zenon

(***************************************************************************)
(* The PDU Session Container                                               *)
(***************************************************************************)

OneContainer(exts) ==
    \A i, j \in DOMAIN exts : exts[i][1] = 133 /\ exts[j][1] = 133 => i = j

\* A downlink container of QoS flow q, as it is told
ContainerOf(q) == [pduType |-> 0, qfi |-> q, rqi |-> {FALSE}]

\* The octets of a container are decoded as what they say.
LEMMA ContainerDecoded ==
    ASSUME NEW h, IsHeader(h), h[1] = 133
    PROVE  DecodePDUSessionContainer(h[2]) = ContainerOf(h[2][2])
<1>1. PICK c : c = h[2]
  OBVIOUS
<1>2. c \in Seq(Octet) /\ (Len(c) + 2) % 4 = 0 /\ c[1] < 16 /\ c[2] < 64
  BY <1>1 DEF IsHeader
<1>3. Len(c) >= 2
  <2>1. Len(c) \in Nat
    BY <1>2
  <2> QED BY <1>2, <2>1
<1>4. c[1] \in Octet /\ c[2] \in Octet
  BY <1>2, <1>3, ElementOfSeq
<1>5. At(c, 0) = c[1] /\ At(c, 1) = c[2]
  BY DEF At
<1>6. \A n \in Nat : n < 16 => n \div 16 = 0
  OBVIOUS
<1>7. \A n \in Nat : n < 64 => n % 64 = n /\ n \div 64 = 0
  OBVIOUS
<1>8. c[1] \div 16 = 0 /\ c[2] % 64 = c[2] /\ c[2] \div 64 = 0
  BY <1>2, <1>4, <1>6, <1>7, OctetNat, Zenon
<1>9. ((c[2] \div 64) % 2 = 1) = FALSE
  BY <1>8
<1>10. DecodePDUSessionContainer(c) = [pduType |-> 0, qfi |-> c[2], rqi |-> {FALSE}]
  <2>1. DecodePDUSessionContainer(c) = [pduType |-> c[1] \div 16, qfi |-> c[2] % 64,
          rqi |-> IF c[1] \div 16 = 0 THEN {(c[2] \div 64) % 2 = 1} ELSE {}]
    BY <1>5, Zenon DEF DecodePDUSessionContainer, PduTypeDL
  <2> QED BY <1>8, <1>9, <2>1, Zenon
<1> QED BY <1>1, <1>10, Zenon DEF ContainerOf

\* The slice that is decoded of a container is its content.
LEMMA ContainerSliced ==
    ASSUME NEW h, IsHeader(h), h[1] = 133, NEW b, NEW q, LiesAt(b, h, q)
    PROVE  DecodePDUSessionContainer(Slice(b, q + 1, q + ExtLen(b, q) - 1)) = ContainerOf(h[2][2])
<1>1. PICK c : c = h[2]
  OBVIOUS
<1>2. PICK n : n = Len(c)
  OBVIOUS
<1>3. PICK x : x = ExtLen(b, q)
  BY Zenon
<1>4. q \in Nat /\ x = n + 2 /\ Holds(b, q + 1, c)
  BY <1>1, <1>2, <1>3, Zenon DEF LiesAt
<1>5. n \in Nat
  BY <1>2, <1>4 DEF Holds
<1>6. q + x - 1 = (q + 1) + n
  BY <1>4, <1>5
<1>7. q + x - 1 = (q + 1) + Len(c)
  BY <1>2, <1>6, Zenon
<1>8. DecodePDUSessionContainer(c) = ContainerOf(c[2])
  <2>1. DecodePDUSessionContainer(h[2]) = ContainerOf(h[2][2])
    BY ContainerDecoded, SMT
  <2> QED BY <1>1, <2>1, SMT
<1>9. Slice(b, q + 1, q + x - 1) = c
  BY <1>4, <1>7, HoldsUpTo, SMT
<1>10. DecodePDUSessionContainer(Slice(b, q + 1, q + x - 1)) = ContainerOf(c[2])
  BY <1>8, <1>9, Zenon
<1> QED BY <1>1, <1>3, <1>10, Zenon

\* What is read of a chain is the container in it, if there is one.
LEMMA ContainerRead ==
    ASSUME NEW exts, HeaderList(exts), OneContainer(exts), NEW b \in Seq(Octet),
           NEW e, Meets(b, exts, 1, Extensions(b), e)
    PROVE  PDUSession(b) = {ContainerOf(q) : q \in {exts[i][2][2] :
                              i \in {i \in DOMAIN exts : exts[i][1] = 133}}}
<1>1. PICK s : s = Extensions(b)
  OBVIOUS
<1>2. DOMAIN exts = 1..Len(exts) /\ Len(exts) \in Nat
  BY HeadersOf
<1>3. DOMAIN s = DOMAIN exts /\ Len(s) = Len(exts)
  <2>1. s \in Seq(Nat)
    <3>1. <<>> \in Seq(Nat) /\ 12 \in Nat
      OBVIOUS
    <3> QED BY <1>1, <3>1, WalkComputed, Zenon
  <2>2. Len(s) = (Len(exts) + 1) - 1
    BY <1>1, Zenon DEF Meets
  <2>3. Len(s) = Len(exts)
    BY <1>2, <2>2
  <2>4. DOMAIN s = 1..Len(s)
    BY <2>1, LenProperties
  <2> QED BY <1>2, <2>3, <2>4, Zenon
<1>4. ASSUME NEW i \in DOMAIN exts PROVE LiesAt(b, exts[i], s[i])
  <2>1. (1 - 1) + i = i
    BY <1>2
  <2>2. i \in 1..Len(s)
    BY <1>2, <1>3, Zenon
  <2>3. \A k \in 1..Len(s) : LiesAt(b, exts[(1 - 1) + k], s[k])
    BY <1>1, Zenon DEF Meets
  <2>4. LiesAt(b, exts[(1 - 1) + i], s[i])
    BY <2>2, <2>3, Zenon
  <2> QED BY <2>1, <2>4, Zenon
<1> DEFINE hits == {i \in DOMAIN s : At(b, s[i] - 1) = ExtPDUSessionContainer}
           slice(i) == Slice(b, s[i] + 1, s[i] + ExtLen(b, s[i]) - 1)
           goal == {ContainerOf(q) : q \in {exts[i][2][2] : i \in {i \in DOMAIN exts : exts[i][1] = 133}}}
<1>5. PDUSession(b) = {DecodePDUSessionContainer(slice(i)) : i \in {i \in hits : \A j \in hits : j <= i}}
  BY <1>1, Zenon DEF PDUSession
<1>6. ASSUME NEW i PROVE i \in hits <=> i \in DOMAIN exts /\ exts[i][1] = 133
  <2>1. i \in hits <=> i \in DOMAIN exts /\ At(b, s[i] - 1) = 133
    BY <1>3, Zenon DEF ExtPDUSessionContainer
  <2>2. i \in DOMAIN exts => At(b, s[i] - 1) = exts[i][1]
    BY <1>4, Zenon DEF LiesAt
  <2> HIDE DEF hits
  <2> QED BY <2>1, <2>2
<1> HIDE DEF hits
<1>7. ASSUME NEW i \in hits PROVE DecodePDUSessionContainer(slice(i)) = ContainerOf(exts[i][2][2])
  <2>1. i \in DOMAIN exts /\ exts[i][1] = 133
    BY <1>6, Zenon
  <2>2. PICK h : h = exts[i]
    OBVIOUS
  <2>3. PICK q : q = s[i]
    BY Zenon
  <2>4. IsHeader(h) /\ LiesAt(b, h, q) /\ h[1] = 133
    BY <1>4, <2>1, <2>2, <2>3, HeadersOf, SMT
  <2>5. DecodePDUSessionContainer(Slice(b, q + 1, q + ExtLen(b, q) - 1)) = ContainerOf(h[2][2])
    BY <2>4, ContainerSliced, SMT
  <2> QED BY <2>2, <2>3, <2>5, SMT
<1>8. ASSUME NEW i \in hits, NEW j \in hits PROVE i = j
  <2>1. i \in DOMAIN exts /\ exts[i][1] = 133 /\ j \in DOMAIN exts /\ exts[j][1] = 133
    BY <1>6, SMT
  <2> QED BY <2>1 DEF OneContainer
<1>9. {i \in hits : \A j \in hits : j <= i} = hits
  <2>1. \A i \in hits : i <= i
    <3>1. \A i \in hits : i \in DOMAIN exts
      BY <1>6, Zenon
    <3> QED BY <1>2, <3>1
  <2> QED BY <1>8, <2>1, Zenon
<1>10. PDUSession(b) = {ContainerOf(exts[i][2][2]) : i \in hits}
  <2> HIDE DEF slice
  <2> QED BY <1>5, <1>7, <1>9, Zenon
<1>11. goal = {ContainerOf(exts[i][2][2]) : i \in hits}
  <2>1. hits = {i \in DOMAIN exts : exts[i][1] = 133}
    BY <1>6, SMT
  <2>2. goal = {ContainerOf(q) : q \in {exts[i][2][2] : i \in hits}}
    BY <2>1, SMT
  <2>3. {ContainerOf(q) : q \in {exts[i][2][2] : i \in hits}} = {ContainerOf(exts[i][2][2]) : i \in hits}
    BY Zenon
  <2> HIDE DEF goal
  <2> QED BY <2>2, <2>3, SMT
<1> QED BY <1>10, <1>11, Zenon

(***************************************************************************)
(* The packet in a G-PDU                                                   *)
(***************************************************************************)

\* Offsets p and e are the ends of s in b.
Between(b, p, e, s) == Holds(b, p, s) /\ e = p + Len(s)

\* What lies between two offsets is the slice from one to the other.
LEMMA BetweenSlice ==
    ASSUME NEW b, NEW p, NEW e, NEW s, Between(b, p, e, s)
    PROVE  Slice(b, p, e) = s
BY HoldsUpTo DEF Between

\* The version and the header length of IPv4
LEMMA FirstOctet ==
    \A k \in 0..10 : (69 + k) \div 16 = 4 /\ (69 + k) % 16 = 5 + k
<1> SUFFICES ASSUME NEW k \in 0..10 PROVE (69 + k) \div 16 = 4 /\ (69 + k) % 16 = 5 + k
  OBVIOUS
<1>1. k \in Nat /\ 5 + k < 16 /\ 69 + k = 16 * 4 + (5 + k)
  OBVIOUS
<1>2. \A r \in Nat : r < 16 => (16 * 4 + r) \div 16 = 4 /\ (16 * 4 + r) % 16 = r
  OBVIOUS
<1> QED BY <1>1, <1>2

\* Where an IPv4 packet has the parts that are read of it
LiesFour(b, n, proto, s, d, l) ==
    /\ b \in Seq(Octet) /\ At(b, 0) = 69 + n /\ At(b, 9) = proto
    /\ Holds(b, 12, s) /\ Len(s) = 4 /\ Holds(b, 16, d) /\ Len(d) = 4
    /\ Holds(b, 20 + 4 * n, l) /\ Len(b) = (20 + 4 * n) + Len(l)

\* What is read of a packet whose parts lie where IPv4 has them
LEMMA ParsedFour ==
    ASSUME NEW b, NEW n \in 0..10, NEW proto, NEW src, NEW dst, NEW l4,
           LiesFour(b, n, proto, src, dst, l4)
    PROVE  ParseInner(b) = {Inner(src, dst, proto, Upper(proto, ICMP, l4))}
<1>0. /\ b \in Seq(Octet) /\ At(b, 0) = 69 + n /\ At(b, 9) = proto
      /\ Holds(b, 12, src) /\ Len(src) = 4 /\ Holds(b, 16, dst) /\ Len(dst) = 4
      /\ Holds(b, 20 + 4 * n, l4) /\ Len(b) = (20 + 4 * n) + Len(l4)
  BY SMT DEF LiesFour
<1>1. Len(l4) \in Nat /\ Len(b) >= 20 /\ b # <<>>
  <2>1. Len(l4) \in Nat
    BY <1>0 DEF Holds
  <2>2. Len(b) >= 20
    BY <1>0, <2>1
  <2> QED BY <1>0, <2>1, <2>2
<1>2. At(b, 0) \div 16 = 4 /\ 4 * (At(b, 0) % 16) = 20 + 4 * n
  <2>1. At(b, 0) \div 16 = 4 /\ At(b, 0) % 16 = 5 + n
    BY <1>0, FirstOctet, SMT
  <2> QED BY <2>1
<1>3. Slice(b, 12, 16) = src /\ Slice(b, 16, 20) = dst
  <2>1. Between(b, 12, 16, src) /\ Between(b, 16, 20, dst)
    BY <1>0 DEF Between
  <2> QED BY <2>1, BetweenSlice, SMT
<1>4. Slice(b, 20 + 4 * n, Len(b)) = l4
  BY <1>0, HoldsUpTo, SMT
<1>5. ~(Len(b) < 20 \/ Len(b) < 20 + 4 * n)
  BY <1>0, <1>1
<1>6. ParseIPv4(b) = {Inner(src, dst, At(b, 9), Upper(At(b, 9), ICMP, l4))}
  <2>1. ParseIPv4(b) = IF Len(b) < 20 \/ Len(b) < 20 + 4 * n THEN {}
                       ELSE {Inner(Slice(b, 12, 16), Slice(b, 16, 20), At(b, 9),
                                   Upper(At(b, 9), ICMP, Slice(b, 20 + 4 * n, Len(b))))}
    BY <1>2, Zenon DEF ParseIPv4
  <2> QED BY <1>0, <1>3, <1>4, <1>5, <2>1, SMT
<1>7. ParseInner(b) = ParseIPv4(b)
  BY <1>1, <1>2, SMT DEF ParseInner
<1>8. At(b, 9) = proto
  BY <1>0
<1> QED BY <1>6, <1>7, <1>8, Zenon

LiesSix(b, proto, s, d, l) ==
    /\ b \in Seq(Octet) /\ At(b, 0) \div 16 = 6 /\ At(b, 6) = proto
    /\ Holds(b, 8, s) /\ Len(s) = 16 /\ Holds(b, 24, d) /\ Len(d) = 16
    /\ Holds(b, 40, l) /\ Len(b) = 40 + Len(l)

\* And where IPv6 has them
LEMMA ParsedSix ==
    ASSUME NEW b, NEW proto, NEW src, NEW dst, NEW l4, LiesSix(b, proto, src, dst, l4)
    PROVE  ParseInner(b) = {Inner(src, dst, proto, Upper(proto, ICMPv6, l4))}
<1>0. /\ b \in Seq(Octet) /\ At(b, 0) \div 16 = 6 /\ At(b, 6) = proto
      /\ Holds(b, 8, src) /\ Len(src) = 16 /\ Holds(b, 24, dst) /\ Len(dst) = 16
      /\ Holds(b, 40, l4) /\ Len(b) = 40 + Len(l4)
  BY SMT DEF LiesSix
<1>1. Len(l4) \in Nat /\ Len(b) >= 40 /\ b # <<>>
  <2>1. Len(l4) \in Nat
    BY <1>0 DEF Holds
  <2>2. Len(b) >= 40
    BY <1>0, <2>1
  <2> QED BY <1>0, <2>1, <2>2
<1>3. Slice(b, 8, 24) = src /\ Slice(b, 24, 40) = dst
  <2>1. Between(b, 8, 24, src) /\ Between(b, 24, 40, dst)
    BY <1>0 DEF Between
  <2> QED BY <2>1, BetweenSlice, SMT
<1>4. Slice(b, 40, Len(b)) = l4
  BY <1>0, HoldsUpTo, SMT
<1>5. ~(Len(b) < 40)
  BY <1>1
<1>6. ParseIPv6(b) = {Inner(src, dst, At(b, 6), Upper(At(b, 6), ICMPv6, l4))}
  <2>1. ParseIPv6(b) = IF Len(b) < 40 THEN {}
                       ELSE {Inner(Slice(b, 8, 24), Slice(b, 24, 40), At(b, 6),
                                   Upper(At(b, 6), ICMPv6, Slice(b, 40, Len(b))))}
    BY SMT DEF ParseIPv6
  <2> QED BY <1>0, <1>3, <1>4, <1>5, <2>1, SMT
<1>7. ParseInner(b) = ParseIPv6(b)
  <2>1. 6 # 4
    OBVIOUS
  <2>2. At(b, 0) \div 16 = 6
    BY <1>0
  <2> QED BY <1>1, <2>1, <2>2, SMT DEF ParseInner
<1>8. At(b, 6) = proto
  BY <1>0
<1> QED BY <1>6, <1>7, <1>8, Zenon

\* The upper layer of a packet is told as it was meant.
LEMMA UpperRead ==
    ASSUME NEW p, Len(p.l4) \in Nat, Len(p.l4) >= 8, NEW icmp, icmp # UDP, p.proto \in {UDP, icmp}
    PROVE  Upper(p.proto, icmp, p.l4) = {UpperOf(p)}
BY SMT DEF Upper, UpperOf

\* A string of k octets
Part(s, k) == s \in Seq(Octet) /\ Len(s) = k

\* A string of two parts, after whatever lies before it
LEMMA PartsLie ==
    ASSUME NEW b, NEW s \in Seq(Octet), NEW t \in Seq(Octet), Holds(b, 0, s \o t)
    PROVE  Holds(b, 0, s) /\ Holds(b, Len(s), t)
<1>1. PICK n : n = Len(s)
  OBVIOUS
<1>2. Holds(b, 0, s) /\ Holds(b, 0 + n, t)
  BY <1>1, HoldsJoined, Zenon
<1>3. 0 + n = n
  BY <1>1
<1> QED BY <1>1, <1>2, <1>3, Zenon

\* The parts of a packet of each family
JoinedFour(b, u, v, w, s, d, o, l) == b = u \o v \o w \o s \o d \o o \o l
JoinedSix(b, u, v, w, s, d, l) == b = u \o v \o w \o s \o d \o l

\* Where the parts of an IPv4 packet lie
LEMMA FourLaid ==
    ASSUME NEW u, Part(u, 2), NEW v, Part(v, 2), NEW w, Part(w, 8), NEW s, Part(s, 4),
           NEW d, Part(d, 4), NEW o \in Seq(Octet), NEW l \in Seq(Octet), NEW b,
           JoinedFour(b, u, v, w, s, d, o, l)
    PROVE  /\ b \in Seq(Octet) /\ Len(b) = (20 + Len(o)) + Len(l)
           /\ Holds(b, 0, u) /\ Holds(b, 4, w) /\ Holds(b, 12, s) /\ Holds(b, 16, d)
           /\ Holds(b, 20 + Len(o), l)
<1>0. /\ u \in Seq(Octet) /\ Len(u) = 2 /\ v \in Seq(Octet) /\ Len(v) = 2
      /\ w \in Seq(Octet) /\ Len(w) = 8 /\ s \in Seq(Octet) /\ Len(s) = 4
      /\ d \in Seq(Octet) /\ Len(d) = 4
  BY Zenon DEF Part
<1>1. PICK x2 : x2 = u \o v
  OBVIOUS
<1>2. PICK x3 : x3 = x2 \o w
  BY Zenon
<1>3. PICK x4 : x4 = x3 \o s
  OBVIOUS
<1>4. PICK x5 : x5 = x4 \o d
  BY Zenon
<1>5. PICK x6 : x6 = x5 \o o
  OBVIOUS
<1>6. x2 \in Seq(Octet) /\ Len(x2) = Len(u) + Len(v)
  BY <1>0, <1>1, JoinedType, JoinedLen, Zenon
<1>7. x3 \in Seq(Octet) /\ Len(x3) = Len(x2) + Len(w)
  BY <1>0, <1>2, <1>6, JoinedType, JoinedLen, Zenon
<1>8. x4 \in Seq(Octet) /\ Len(x4) = Len(x3) + Len(s)
  BY <1>0, <1>3, <1>7, JoinedType, JoinedLen, Zenon
<1>9. x5 \in Seq(Octet) /\ Len(x5) = Len(x4) + Len(d)
  BY <1>0, <1>4, <1>8, JoinedType, JoinedLen, Zenon
<1>10. x6 \in Seq(Octet) /\ Len(x6) = Len(x5) + Len(o)
  BY <1>5, <1>9, JoinedType, JoinedLen, Zenon
<1>11. b = x6 \o l
  BY <1>1, <1>2, <1>3, <1>4, <1>5, Zenon DEF JoinedFour
<1>12. b \in Seq(Octet) /\ Len(b) = Len(x6) + Len(l)
  BY <1>10, <1>11, JoinedType, JoinedLen, Zenon
<1>13. Len(x2) = 4 /\ Len(x3) = 12 /\ Len(x4) = 16 /\ Len(x5) = 20 /\ Len(x6) = 20 + Len(o)
       /\ Len(o) \in Nat /\ 20 + Len(o) \in Nat
  BY <1>0, <1>6, <1>7, <1>8, <1>9, <1>10
<1>14. Holds(b, 0, x6 \o l)
  BY <1>11, <1>12, HoldsSelf, Zenon
<1>15. Holds(b, 0, x6) /\ Holds(b, Len(x6), l)
  BY <1>10, <1>14, PartsLie, Zenon
<1>16. Holds(b, 0, x5)
  BY <1>5, <1>9, <1>15, PartsLie, Zenon
<1>17. Holds(b, 0, x4) /\ Holds(b, Len(x4), d)
  BY <1>0, <1>4, <1>8, <1>16, PartsLie, Zenon
<1>18. Holds(b, 0, x3) /\ Holds(b, Len(x3), s)
  BY <1>0, <1>3, <1>7, <1>17, PartsLie, Zenon
<1>19. Holds(b, 0, x2) /\ Holds(b, Len(x2), w)
  BY <1>0, <1>2, <1>6, <1>18, PartsLie, Zenon
<1>20. Holds(b, 0, u)
  BY <1>0, <1>1, <1>19, PartsLie, Zenon
<1> QED BY <1>0, <1>12, <1>13, <1>15, <1>17, <1>18, <1>19, <1>20, SMT

\* And those of an IPv6 packet
LEMMA SixLaid ==
    ASSUME NEW u, Part(u, 4), NEW v, Part(v, 2), NEW w, Part(w, 2), NEW s, Part(s, 16),
           NEW d, Part(d, 16), NEW l \in Seq(Octet), NEW b,
           JoinedSix(b, u, v, w, s, d, l)
    PROVE  /\ b \in Seq(Octet) /\ Len(b) = 40 + Len(l)
           /\ Holds(b, 0, u) /\ Holds(b, 4, v) /\ Holds(b, 6, w) /\ Holds(b, 8, s)
           /\ Holds(b, 24, d) /\ Holds(b, 40, l)
<1>0. /\ u \in Seq(Octet) /\ Len(u) = 4 /\ v \in Seq(Octet) /\ Len(v) = 2
      /\ w \in Seq(Octet) /\ Len(w) = 2 /\ s \in Seq(Octet) /\ Len(s) = 16
      /\ d \in Seq(Octet) /\ Len(d) = 16
  BY Zenon DEF Part
<1>1. PICK x2 : x2 = u \o v
  OBVIOUS
<1>2. PICK x3 : x3 = x2 \o w
  BY Zenon
<1>3. PICK x4 : x4 = x3 \o s
  OBVIOUS
<1>4. PICK x5 : x5 = x4 \o d
  BY Zenon
<1>6. x2 \in Seq(Octet) /\ Len(x2) = Len(u) + Len(v)
  BY <1>0, <1>1, JoinedType, JoinedLen, Zenon
<1>7. x3 \in Seq(Octet) /\ Len(x3) = Len(x2) + Len(w)
  BY <1>0, <1>2, <1>6, JoinedType, JoinedLen, Zenon
<1>8. x4 \in Seq(Octet) /\ Len(x4) = Len(x3) + Len(s)
  BY <1>0, <1>3, <1>7, JoinedType, JoinedLen, Zenon
<1>9. x5 \in Seq(Octet) /\ Len(x5) = Len(x4) + Len(d)
  BY <1>0, <1>4, <1>8, JoinedType, JoinedLen, Zenon
<1>11. b = x5 \o l
  BY <1>1, <1>2, <1>3, <1>4, Zenon DEF JoinedSix
<1>12. b \in Seq(Octet) /\ Len(b) = Len(x5) + Len(l)
  BY <1>9, <1>11, JoinedType, JoinedLen, Zenon
<1>13. /\ Len(x2) = 6 /\ Len(x3) = 8 /\ Len(x4) = 24 /\ Len(x5) = 40
       /\ {4, 6, 8, 24, 40} \subseteq Nat
  BY <1>0, <1>6, <1>7, <1>8, <1>9
<1>14. Holds(b, 0, x5 \o l)
  BY <1>11, <1>12, HoldsSelf, Zenon
<1>15. Holds(b, 0, x5) /\ Holds(b, Len(x5), l)
  BY <1>9, <1>14, PartsLie, Zenon
<1>16. Holds(b, 0, x4) /\ Holds(b, Len(x4), d)
  BY <1>0, <1>4, <1>8, <1>15, PartsLie, Zenon
<1>17. Holds(b, 0, x3) /\ Holds(b, Len(x3), s)
  BY <1>0, <1>3, <1>7, <1>16, PartsLie, Zenon
<1>18. Holds(b, 0, x2) /\ Holds(b, Len(x2), w)
  BY <1>0, <1>2, <1>6, <1>17, PartsLie, Zenon
<1>19. Holds(b, 0, u) /\ Holds(b, Len(u), v)
  BY <1>0, <1>1, <1>18, PartsLie, Zenon
<1> QED BY <1>0, <1>12, <1>13, <1>15, <1>16, <1>17, <1>18, <1>19, SMT

\* The first octet of an IPv4 header with n words of options
Versioned(u, n) == Part(u, 2) /\ u[1] = 69 + n

OptionWords(o, n) == Part(o, 4 * n)

Protocol(w, k, i, proto) == Part(w, k) /\ w[i] = proto

\* An IPv4 packet of these parts is parsed as them.
LEMMA PacketFour ==
    ASSUME NEW n \in 0..10, NEW proto, NEW u, Versioned(u, n), NEW v, Part(v, 2),
           NEW w, Protocol(w, 8, 6, proto), NEW s, Part(s, 4), NEW d, Part(d, 4),
           NEW o, OptionWords(o, n), NEW l \in Seq(Octet), NEW b,
           JoinedFour(b, u, v, w, s, d, o, l)
    PROVE  b \in Seq(Octet) /\ ParseInner(b) = {Inner(s, d, proto, Upper(proto, ICMP, l))}
<1>1. /\ b \in Seq(Octet) /\ Len(b) = (20 + Len(o)) + Len(l)
      /\ Holds(b, 0, u) /\ Holds(b, 4, w) /\ Holds(b, 12, s) /\ Holds(b, 16, d)
      /\ Holds(b, 20 + Len(o), l)
  <2>1. Part(u, 2) /\ Part(w, 8) /\ o \in Seq(Octet)
    BY Zenon DEF Versioned, Protocol, OptionWords, Part
  <2> QED BY <2>1, FourLaid, Zenon
<1>2. u[1] = 69 + n /\ Len(u) = 2 /\ w[6] = proto /\ Len(w) = 8 /\ Len(o) = 4 * n
      /\ Len(s) = 4 /\ Len(d) = 4
  BY SMT DEF Versioned, Protocol, OptionWords, Part
<1>3. At(b, 0) = 69 + n /\ At(b, 9) = proto
  <2>1. At(b, 0 + 0) = At(u, 0) /\ At(b, 4 + 5) = At(w, 5)
    <3>1. 0 \in Nat /\ 0 < Len(u) /\ 5 \in Nat /\ 5 < Len(w)
      BY <1>2
    <3> QED BY <1>1, <3>1, HoldsOctet, SMT
  <2>2. At(u, 0) = 69 + n /\ At(w, 5) = proto
    BY <1>2, SMT DEF At
  <2> QED BY <2>1, <2>2, SMT
<1>4. Len(b) = (20 + 4 * n) + Len(l) /\ Holds(b, 20 + 4 * n, l)
  BY <1>1, <1>2, SMT
<1>5. LiesFour(b, n, proto, s, d, l)
  BY <1>1, <1>2, <1>3, <1>4, SMT DEF LiesFour
<1> QED BY <1>1, <1>5, ParsedFour, SMT

\* And so is an IPv6 packet.
LEMMA PacketSix ==
    ASSUME NEW proto, NEW u, Protocol(u, 4, 1, 96), NEW v, Part(v, 2),
           NEW w, Protocol(w, 2, 1, proto), NEW s, Part(s, 16), NEW d, Part(d, 16),
           NEW l \in Seq(Octet), NEW b,
           JoinedSix(b, u, v, w, s, d, l)
    PROVE  b \in Seq(Octet) /\ ParseInner(b) = {Inner(s, d, proto, Upper(proto, ICMPv6, l))}
<1>1. /\ b \in Seq(Octet) /\ Len(b) = 40 + Len(l)
      /\ Holds(b, 0, u) /\ Holds(b, 4, v) /\ Holds(b, 6, w) /\ Holds(b, 8, s)
      /\ Holds(b, 24, d) /\ Holds(b, 40, l)
  <2>1. Part(u, 4) /\ Part(w, 2)
    BY SMT DEF Protocol
  <2> QED BY <2>1, SixLaid, SMT
<1>2. u[1] = 96 /\ Len(u) = 4 /\ w[1] = proto /\ Len(w) = 2 /\ Len(s) = 16 /\ Len(d) = 16
  BY SMT DEF Protocol, Part
<1>3. At(b, 0) \div 16 = 6 /\ At(b, 6) = proto
  <2>1. At(b, 0 + 0) = At(u, 0) /\ At(b, 6 + 0) = At(w, 0)
    <3>1. 0 \in Nat /\ 0 < Len(u) /\ 0 < Len(w)
      BY <1>2
    <3> QED BY <1>1, <3>1, HoldsOctet, SMT
  <2>2. At(u, 0) = 96 /\ At(w, 0) = proto
    BY <1>2, SMT DEF At
  <2> QED BY <2>1, <2>2, SMT
<1>4. LiesSix(b, proto, s, d, l)
  BY <1>1, <1>2, <1>3, SMT DEF LiesSix
<1> QED BY <1>1, <1>4, ParsedSix, SMT

\* A packet to a UE is octets, and is parsed as what it was made of.
LEMMA PacketRead ==
    ASSUME NEW p, WellFormed(p)
    PROVE  /\ Packet(p) \in Seq(Octet)
           /\ ParseInner(Packet(p)) = {Inner(p.src, p.dst, p.proto, {UpperOf(p)})}
<1>1. /\ p.src \in Seq(Octet) /\ p.dst \in Seq(Octet) /\ p.l4 \in Seq(Octet)
      /\ p.options \in 0..10 /\ Len(p.src) = Len(p.dst) /\ Len(p.dst) \in {4, 16}
      /\ p.proto \in {UDP, IF Is4(p.dst) THEN ICMP ELSE ICMPv6} /\ Len(p.l4) >= 8
  BY SMT DEF WellFormed, SameFamily
<1>2. Len(p.l4) \in Nat /\ p.proto \in Octet
  BY <1>1, SMT DEF UDP, ICMP, ICMPv6, Octet
<1>3. ASSUME NEW k \in Nat PROVE Part(Octets(k, 2), 2)
  BY OctetsType DEF Part
<1>4. CASE Is4(p.dst)
  <2> DEFINE u == <<69 + p.options, 0>>
             v == Octets(20 + 4 * p.options + Len(p.l4), 2)
             w == <<0, 0, 0, 0, 64, p.proto, 0, 0>>
             o == [i \in 1..(4 * p.options) |-> 1]
  <2>1. Part(p.src, 4) /\ Part(p.dst, 4)
    BY <1>1, <1>4, SMT DEF Is4, Part
  <2>2. Versioned(u, p.options)
    <3>1. 69 + p.options \in Octet /\ 0 \in Octet
      <4>1. \A n \in 0..10 : 69 + n \in Octet
        BY SMT DEF Octet
      <4>2. 0 \in Octet
        BY SMT DEF Octet
      <4> QED BY <1>1, <4>1, <4>2, Zenon
    <3> QED BY <3>1, SMT DEF Versioned, Part
  <2>3. Part(v, 2)
    <3>1. 20 + 4 * p.options + Len(p.l4) \in Nat
      <4>1. \A n \in 0..10 : \A k \in Nat : 20 + 4 * n + k \in Nat
        BY SMT
      <4> QED BY <1>1, <1>2, <4>1, Zenon
    <3> QED BY <1>3, <3>1, Zenon
  <2>4. Protocol(w, 8, 6, p.proto)
    <3>1. 0 \in Octet /\ 64 \in Octet
      BY SMT DEF Octet
    <3> QED BY <1>2, <3>1, SMT DEF Protocol, Part
  <2>5. OptionWords(o, p.options)
    <3>1. 4 * p.options \in Nat
      BY <1>1, SMT
    <3> QED BY <3>1, SMT DEF OptionWords, Part, Octet
  <2>6. JoinedFour(Packet(p), u, v, w, p.src, p.dst, o, p.l4)
    BY <1>4, Zenon DEF JoinedFour, Packet
  <2>7. ICMP # UDP /\ p.proto \in {UDP, ICMP}
    BY <1>1, <1>4, SMT DEF ICMP, UDP
  <2>8. Upper(p.proto, ICMP, p.l4) = {UpperOf(p)}
    <3>1. Len(p.l4) \in Nat /\ Len(p.l4) >= 8
      BY <1>1, <1>2, Zenon
    <3> QED BY <2>7, <3>1, UpperRead, Zenon
  <2> HIDE DEF u, v, w, o
  <2>9. Packet(p) \in Seq(Octet)
        /\ ParseInner(Packet(p)) = {Inner(p.src, p.dst, p.proto, Upper(p.proto, ICMP, p.l4))}
    <3>1. p.options \in 0..10 /\ p.l4 \in Seq(Octet)
      BY <1>1, Zenon
    <3> QED BY <2>1, <2>2, <2>3, <2>4, <2>5, <2>6, <3>1, PacketFour, SMT
  <2> QED BY <2>8, <2>9, SMT
<1>5. CASE ~Is4(p.dst)
  <2> DEFINE u == <<96, 0, 0, 0>>
             v == Octets(Len(p.l4), 2)
             w == <<p.proto, 64>>
  <2>1. Part(p.src, 16) /\ Part(p.dst, 16)
    BY <1>1, <1>5, SMT DEF Is4, Part
  <2>2. Protocol(u, 4, 1, 96)
    <3>1. 96 \in Octet /\ 0 \in Octet
      BY SMT DEF Octet
    <3> QED BY <3>1, SMT DEF Protocol, Part
  <2>3. Part(v, 2)
    BY <1>2, <1>3, Zenon
  <2>4. Protocol(w, 2, 1, p.proto)
    <3>1. 64 \in Octet
      BY SMT DEF Octet
    <3> QED BY <1>2, <3>1, SMT DEF Protocol, Part
  <2>6. JoinedSix(Packet(p), u, v, w, p.src, p.dst, p.l4)
    BY <1>5, Zenon DEF JoinedSix, Packet
  <2>7. ICMPv6 # UDP /\ p.proto \in {UDP, ICMPv6}
    BY <1>1, <1>5, SMT DEF ICMPv6, UDP
  <2>8. Upper(p.proto, ICMPv6, p.l4) = {UpperOf(p)}
    <3>1. Len(p.l4) \in Nat /\ Len(p.l4) >= 8
      BY <1>1, <1>2, Zenon
    <3> QED BY <2>7, <3>1, UpperRead, Zenon
  <2> HIDE DEF u, v, w
  <2>9. Packet(p) \in Seq(Octet)
        /\ ParseInner(Packet(p)) = {Inner(p.src, p.dst, p.proto, Upper(p.proto, ICMPv6, p.l4))}
    BY <1>1, <2>1, <2>2, <2>3, <2>4, <2>6, PacketSix, SMT
  <2> QED BY <2>8, <2>9, SMT
<1> QED BY <1>4, <1>5

(***************************************************************************)
(* The walk over information elements                                      *)
(***************************************************************************)

Elements == [type : Octet, value : Seq(Octet)]

\* The information element at an offset
IEOf(b, i) == [type |-> At(b, i), value |-> Slice(b, ValueAt(b, i), ValueEnd(b, i))]

IsIEWalk(b, walk) ==
    walk = [i \in Nat |-> IF HasIE(b, i) THEN <<IEOf(b, i)>> \o walk[ValueEnd(b, i)] ELSE <<>>]

\* The information elements from an offset on
IEsFrom(b) == CHOOSE walk : IsIEWalk(b, walk)

\* The end of an element is behind its start and within the string.
LEMMA ElementEnds ==
    ASSUME NEW b \in Seq(Octet), NEW i \in Nat, HasIE(b, i)
    PROVE  /\ ValueAt(b, i) \in Nat /\ ValueEnd(b, i) \in Nat /\ At(b, i) \in Octet
           /\ i < ValueAt(b, i) /\ ValueAt(b, i) <= ValueEnd(b, i) /\ ValueEnd(b, i) <= Len(b)
<1>1. Len(b) \in Nat /\ i < Len(b) /\ ValueEnd(b, i) <= Len(b)
  <2>1. Len(b) \in Nat
    OBVIOUS
  <2> QED BY <2>1, Zenon DEF HasIE
<1>2. At(b, i) \in Octet
  BY <1>1, OctetAt
<1>3. CASE At(b, i) < 128
  <2>1. At(b, i) \in DOMAIN TVLength
    BY <1>3, SMT DEF HasIE
  <2>2. \A t \in DOMAIN TVLength : TVLength[t] \in Nat
    BY SMT DEF TVLength
  <2>3. PICK n \in Nat : n = TVLength[At(b, i)]
    BY <2>1, <2>2, Zenon
  <2>4. ValueAt(b, i) = i + 1 /\ ValueEnd(b, i) = i + 1 + n
    BY <1>3, <2>3, SMT DEF ValueAt, ValueEnd
  <2> QED BY <1>1, <1>2, <2>4
<1>4. CASE ~(At(b, i) < 128)
  <2>1. i + 3 <= Len(b)
    BY <1>4, SMT DEF HasIE
  <2>2. At(b, i + 1) \in Nat /\ At(b, i + 2) \in Nat
    <3>1. i + 1 \in Nat /\ i + 1 < Len(b) /\ i + 2 \in Nat /\ i + 2 < Len(b)
      BY <1>1, <2>1
    <3> QED BY <3>1, OctetAt, OctetNat, Zenon
  <2>3. PICK n \in Nat : n = Uint16(b, i + 1)
    <3>1. (i + 1) + 1 = i + 2
      OBVIOUS
    <3>2. Uint16(b, i + 1) = 256 * At(b, i + 1) + At(b, i + 2)
      BY <3>1, SMT DEF Uint16
    <3> QED BY <2>2, <3>2
  <2>4. ValueAt(b, i) = i + 3 /\ ValueEnd(b, i) = i + 3 + n
    BY <1>4, <2>3, SMT DEF ValueAt, ValueEnd
  <2> QED BY <1>1, <1>2, <2>4
<1> QED BY <1>3, <1>4

\* So it is an element.
LEMMA ElementType ==
    ASSUME NEW b \in Seq(Octet), NEW i \in Nat, HasIE(b, i)
    PROVE  IEOf(b, i) \in Elements
<1>1. PICK s : s = Slice(b, ValueAt(b, i), ValueEnd(b, i))
  OBVIOUS
<1>2. s \in Seq(Octet)
  <2>1. Holds(b, ValueAt(b, i), s)
    BY <1>1, ElementEnds, SliceType, Zenon
  <2> QED BY <2>1, Zenon DEF Holds
<1>3. At(b, i) \in Octet
  BY ElementEnds, Zenon
<1> QED BY <1>1, <1>2, <1>3, Zenon DEF IEOf, Elements

\* The recursion of IEs ends, whatever octets it goes over.
LEMMA IEsComputed ==
    ASSUME NEW b \in Seq(Octet)
    PROVE  /\ \A i \in Nat : IEsFrom(b)[i] = IF HasIE(b, i)
                               THEN <<IEOf(b, i)>> \o IEsFrom(b)[ValueEnd(b, i)] ELSE <<>>
           /\ IEs(b) = IEsFrom(b)[0]
<1> DEFINE H == {i \in Nat : HasIE(b, i)}
           next == [i \in H |-> ValueEnd(b, i)]
           m == [i \in Nat |-> IF i <= Len(b) THEN Len(b) - i ELSE 0]
           join == [i \in H |-> [v \in Seq(Elements) |-> <<IEOf(b, i)>> \o v]]
           last == [i \in Nat |-> <<>>]
<1>1. Descends(H, next, m)
  <2>1. Len(b) \in Nat
    OBVIOUS
  <2>2. m \in [Nat -> Nat]
    BY <2>1
  <2>3. ASSUME NEW i \in H PROVE next[i] \in Nat /\ m[next[i]] < m[i]
    <3>1. i \in Nat /\ next[i] = ValueEnd(b, i) /\ HasIE(b, i)
      OBVIOUS
    <3>2. /\ ValueAt(b, i) \in Nat /\ ValueEnd(b, i) \in Nat
          /\ i < ValueAt(b, i) /\ ValueAt(b, i) <= ValueEnd(b, i) /\ ValueEnd(b, i) <= Len(b)
      BY <3>1, ElementEnds, Zenon
    <3>3. next[i] \in Nat /\ i < next[i] /\ next[i] <= Len(b)
      BY <3>1, <3>2
    <3>4. \A q \in Nat : m[q] = IF q <= Len(b) THEN Len(b) - q ELSE 0
      BY Zenon
    <3> HIDE DEF m, next, H
    <3> QED BY <2>1, <3>1, <3>3, <3>4
  <2> HIDE DEF next, m
  <2> QED BY <2>2, <2>3 DEF Descends
<1>2. \E f : Computes(f, Nat, H, next, join, last)
  <2> HIDE DEF H, next, m, join, last
  <2> QED BY <1>1, Computed
<1>. PICK f : Computes(f, Nat, H, next, join, last)
  BY <1>2, Zenon
<1>3. f \in [Nat -> Seq(Elements)]
  <2>1. ASSUME NEW i \in H, NEW v \in Seq(Elements) PROVE <<IEOf(b, i)>> \o v \in Seq(Elements)
    <3>1. IEOf(b, i) \in Elements
      BY ElementType
    <3>2. <<IEOf(b, i)>> \in Seq(Elements)
      BY <3>1
    <3> QED BY <3>2, ConcatProperties, Zenon
  <2>2. join \in [H -> [Seq(Elements) -> Seq(Elements)]]
    BY <2>1, Zenon
  <2>3. last \in [Nat -> Seq(Elements)]
    OBVIOUS
  <2> HIDE DEF H, next, m, join, last
  <2> QED BY <1>1, <1>2, <2>2, <2>3, ComputedIn
<1>4. ASSUME NEW i \in Nat
      PROVE  f[i] = IF HasIE(b, i) THEN <<IEOf(b, i)>> \o f[ValueEnd(b, i)] ELSE <<>>
  <2>1. f[i] = IF i \in H THEN join[i][f[next[i]]] ELSE last[i]
    <3> HIDE DEF H, next, join, last
    <3> QED BY Zenon DEF Computes
  <2>2. i \in H <=> HasIE(b, i)
    OBVIOUS
  <2>3. ASSUME i \in H PROVE join[i][f[next[i]]] = <<IEOf(b, i)>> \o f[ValueEnd(b, i)]
    <3>1. next[i] = ValueEnd(b, i) /\ next[i] \in Nat
      <4>1. next[i] \in Nat
        BY <1>1, <2>3, Zenon DEF Descends
      <4> QED BY <2>3, <4>1, Zenon
    <3>2. f[next[i]] \in Seq(Elements)
      BY <1>3, <3>1, Zenon
    <3> QED BY <2>3, <3>1, <3>2, Zenon
  <2>4. last[i] = <<>>
    OBVIOUS
  <2> HIDE DEF H, next, join, last
  <2> QED BY <2>1, <2>2, <2>3, <2>4, Zenon
<1>5. IsIEWalk(b, f)
  <2>1. f = [i \in Nat |-> f[i]]
    BY <1>3
  <2> QED BY <1>4, <2>1, Zenon DEF IsIEWalk
<1>6. IsIEWalk(b, IEsFrom(b))
  BY <1>5, Zenon DEF IEsFrom
<1>7. IEs(b) = IEsFrom(b)[0]
  BY Zenon DEF IEs, IEsFrom, IsIEWalk, IEOf
<1>8. PICK c : c = IEsFrom(b)
  OBVIOUS
<1>9. \A i \in Nat : c[i] = IF HasIE(b, i) THEN <<IEOf(b, i)>> \o c[ValueEnd(b, i)] ELSE <<>>
  BY <1>6, <1>8, Zenon DEF IsIEWalk
<1> QED BY <1>7, <1>8, <1>9, Zenon

\* What is read of a type that one element has
LEMMA OneValue ==
    ASSUME NEW ies, DOMAIN ies \subseteq Nat, NEW i \in DOMAIN ies, Valid(ies[i]),
           \A j \in DOMAIN ies : ies[j].type = ies[i].type => j = i
    PROVE  IEValue(ies, ies[i].type) = {ies[i].value}
<1> DEFINE hits == {j \in DOMAIN ies : ies[j].type = ies[i].type /\ Valid(ies[j])}
<1>1. hits = {i}
  BY Zenon
<1>2. {j \in hits : \A k \in hits : k <= j} = {i}
  <2>1. i <= i
    OBVIOUS
  <2> HIDE DEF hits
  <2> QED BY <1>1, <2>1, Zenon
<1>3. IEValue(ies, ies[i].type) = {ies[j].value : j \in {j \in hits : \A k \in hits : k <= j}}
  BY Zenon DEF IEValue
<1> HIDE DEF hits
<1> QED BY <1>2, <1>3, Zenon

(***************************************************************************)
(* The control messages                                                    *)
(***************************************************************************)

\* A sequence of one element, before none
LEMMA OneJoined == ASSUME NEW x PROVE <<x>> \o <<>> = <<x>>
OBVIOUS

\* A sequence with one more in front
Front(s, x, t) == s = <<x>> \o t

\* Its elements, and how many they are
LEMMA OneMore ==
    ASSUME NEW S, NEW x \in S, NEW t \in Seq(S), NEW s, Front(s, x, t)
    PROVE  s \in Seq(S) /\ Len(s) = 1 + Len(t) /\ s[1] = x
           /\ \A i \in 1..Len(t) : s[1 + i] = t[i]
<1>1. PICK o : o = <<x>>
  OBVIOUS
<1>2. o \in Seq(S) /\ Len(o) = 1 /\ o[1] = x
  BY <1>1
<1>3. PICK j : j = o \o t
  OBVIOUS
<1>4. o \o t \in Seq(S) /\ Len(o \o t) = Len(o) + Len(t)
      /\ \A i \in 1..(Len(o) + Len(t)) : (o \o t)[i] = IF i <= Len(o) THEN o[i] ELSE t[i - Len(o)]
  BY <1>2, ConcatProperties, Zenon
<1>5. j \in Seq(S) /\ Len(j) = Len(o) + Len(t)
      /\ \A i \in 1..(Len(o) + Len(t)) : j[i] = IF i <= Len(o) THEN o[i] ELSE t[i - Len(o)]
  BY <1>3, <1>4, Zenon
<1>6. s = j
  BY <1>1, <1>3, Zenon DEF Front
<1>7. Len(t) \in Nat
  OBVIOUS
<1>8. \A i \in 1..Len(t) : j[1 + i] = t[i]
  BY <1>2, <1>5, <1>7
<1>9. j[1] = x /\ Len(j) = 1 + Len(t)
  BY <1>2, <1>5, <1>7
<1> QED BY <1>5, <1>6, <1>8, <1>9, Zenon

\* The elements of a sequence of three
LEMMA ThreeJoined ==
    ASSUME NEW x, NEW y, NEW z, NEW s, NEW s2, NEW s3,
           Front(s, x, s2), Front(s2, y, s3), Front(s3, z, <<>>)
    PROVE  DOMAIN s = 1..3 /\ s[1] = x /\ s[2] = y /\ s[3] = z
<1>1. PICK S : x \in S /\ y \in S /\ z \in S
  <2>1. x \in {x, y, z} /\ y \in {x, y, z} /\ z \in {x, y, z}
    OBVIOUS
  <2> QED BY <2>1, Zenon
<1>2. <<>> \in Seq(S) /\ Len(<<>>) = 0
  OBVIOUS
<1>3. s3 \in Seq(S) /\ Len(s3) = 1 + Len(<<>>) /\ s3[1] = z
  <2>1. PICK e : e = <<>>
    OBVIOUS
  <2>2. z \in S /\ e \in Seq(S) /\ Front(s3, z, e)
    BY <1>1, <1>2, <2>1, Zenon
  <2>3. s3 \in Seq(S) /\ Len(s3) = 1 + Len(e) /\ s3[1] = z
    BY <2>2, OneMore, SMT
  <2> QED BY <2>1, <2>3, Zenon
<1>4. s2 \in Seq(S) /\ Len(s2) = 1 + Len(s3) /\ s2[1] = y
      /\ \A i \in 1..Len(s3) : s2[1 + i] = s3[i]
  <2>1. y \in S /\ s3 \in Seq(S)
    BY <1>1, <1>3, Zenon
  <2> QED BY <2>1, OneMore, SMT
<1>5. s \in Seq(S) /\ Len(s) = 1 + Len(s2) /\ s[1] = x /\ \A i \in 1..Len(s2) : s[1 + i] = s2[i]
  BY <1>1, <1>4, OneMore, SMT
<1>6. Len(s3) = 1 /\ Len(s2) = 2 /\ Len(s) = 3
  BY <1>2, <1>3, <1>4, <1>5
<1>7. s2[2] = z /\ s[2] = y /\ s[3] = z
  BY <1>3, <1>4, <1>5, <1>6
<1> QED BY <1>5, <1>6, <1>7

IsEchoBody(b, c) == b = <<14, c>>

\* The body of an echo response is read as its counter.
LEMMA EchoBodyRead ==
    ASSUME NEW c \in Octet, NEW b, IsEchoBody(b, c)
    PROVE  /\ {At(v, 0) : v \in IEValue(IEs(b), IERecovery)} = {c}
           /\ b \in Seq(Octet) /\ Len(b) = 2
<1>1. b \in Seq(Octet) /\ Len(b) = 2 /\ At(b, 0) = 14 /\ b[2] = c
  BY SMT DEF IsEchoBody, Octet, At
<1>2. ValueAt(b, 0) = 1 /\ ValueEnd(b, 0) = 2 /\ HasIE(b, 0)
  <2>1. 14 \in DOMAIN TVLength /\ TVLength[14] = 1
    BY SMT DEF TVLength, IERecovery, IETEIDDataI
  <2> QED BY <1>1, <2>1, SMT DEF ValueAt, ValueEnd, HasIE
<1>3. ~HasIE(b, 2)
  BY <1>1, SMT DEF HasIE
<1>4. PICK e : e = IEOf(b, 0)
  OBVIOUS
<1>5. PICK ies : ies = IEs(b)
  BY Zenon
<1>6. ies = <<e>>
  <2>1. 0 \in Nat /\ 2 \in Nat
    OBVIOUS
  <2>2. IEsFrom(b)[2] = <<>>
    BY <1>1, <1>3, <2>1, IEsComputed, Zenon
  <2>3. IEs(b) = <<IEOf(b, 0)>> \o IEsFrom(b)[2]
    BY <1>1, <1>2, <2>1, IEsComputed, Zenon
  <2> QED BY <1>4, <1>5, <2>2, <2>3, OneJoined, Zenon
<1>7. e.type = 14 /\ e.value = Slice(b, 1, 2)
  BY <1>1, <1>2, <1>4, SMT DEF IEOf
<1>8. At(e.value, 0) = c
  BY <1>1, <1>7, SMT DEF Slice, At
<1>9. IEValue(ies, 14) = {e.value}
  <2>1. DOMAIN ies = {1} /\ ies[1] = e
    BY <1>6, SMT
  <2>2. Valid(ies[1])
    BY <1>7, <2>1, SMT DEF Valid, IEPeerAddress
  <2>3. DOMAIN ies \subseteq Nat /\ \A j \in DOMAIN ies : ies[j].type = ies[1].type => j = 1
    BY <2>1
  <2>4. IEValue(ies, ies[1].type) = {ies[1].value}
    BY <2>1, <2>2, <2>3, OneValue, Zenon
  <2> QED BY <1>7, <2>1, <2>4, SMT
<1>10. {At(v, 0) : v \in IEValue(ies, IERecovery)} = {At(e.value, 0)}
  BY <1>9, SMT DEF IERecovery
<1> QED BY <1>1, <1>5, <1>8, <1>10, SMT

JoinedError(b, u, t, v, w, a, z) == b = u \o t \o v \o w \o a \o z

\* Where the information elements of an error indication lie
LEMMA ErrorLaid ==
    ASSUME NEW u, Part(u, 1), NEW t, Part(t, 4), NEW v, Part(v, 1), NEW w, Part(w, 2),
           NEW a \in Seq(Octet), NEW z, Part(z, 5), NEW b, JoinedError(b, u, t, v, w, a, z)
    PROVE  /\ b \in Seq(Octet) /\ Len(b) = 13 + Len(a)
           /\ Holds(b, 0, u) /\ Holds(b, 1, t) /\ Holds(b, 5, v) /\ Holds(b, 6, w)
           /\ Holds(b, 8, a) /\ Holds(b, 8 + Len(a), z)
<1>0. /\ u \in Seq(Octet) /\ Len(u) = 1 /\ t \in Seq(Octet) /\ Len(t) = 4
      /\ v \in Seq(Octet) /\ Len(v) = 1 /\ w \in Seq(Octet) /\ Len(w) = 2
      /\ z \in Seq(Octet) /\ Len(z) = 5
  BY Zenon DEF Part
<1>1. PICK x2 : x2 = u \o t
  OBVIOUS
<1>2. PICK x3 : x3 = x2 \o v
  BY Zenon
<1>3. PICK x4 : x4 = x3 \o w
  OBVIOUS
<1>4. PICK x5 : x5 = x4 \o a
  BY Zenon
<1>5. x2 \in Seq(Octet) /\ Len(x2) = Len(u) + Len(t)
  BY <1>0, <1>1, JoinedType, JoinedLen, Zenon
<1>6. x3 \in Seq(Octet) /\ Len(x3) = Len(x2) + Len(v)
  BY <1>0, <1>2, <1>5, JoinedType, JoinedLen, Zenon
<1>7. x4 \in Seq(Octet) /\ Len(x4) = Len(x3) + Len(w)
  BY <1>0, <1>3, <1>6, JoinedType, JoinedLen, Zenon
<1>8. x5 \in Seq(Octet) /\ Len(x5) = Len(x4) + Len(a)
  BY <1>0, <1>4, <1>7, JoinedType, JoinedLen, Zenon
<1>9. b = x5 \o z
  BY <1>1, <1>2, <1>3, <1>4, Zenon DEF JoinedError
<1>10. b \in Seq(Octet) /\ Len(b) = Len(x5) + Len(z)
  BY <1>0, <1>8, <1>9, JoinedType, JoinedLen, Zenon
<1>11. /\ Len(x2) = 5 /\ Len(x3) = 6 /\ Len(x4) = 8 /\ Len(x5) = 8 + Len(a) /\ Len(a) \in Nat
  BY <1>0, <1>5, <1>6, <1>7, <1>8
<1>12. Holds(b, 0, x5 \o z)
  BY <1>9, <1>10, HoldsSelf, Zenon
<1>13. Holds(b, 0, x5) /\ Holds(b, Len(x5), z)
  BY <1>0, <1>8, <1>12, PartsLie, Zenon
<1>14. Holds(b, 0, x4) /\ Holds(b, Len(x4), a)
  BY <1>0, <1>4, <1>7, <1>13, PartsLie, Zenon
<1>15. Holds(b, 0, x3) /\ Holds(b, Len(x3), w)
  BY <1>0, <1>3, <1>6, <1>14, PartsLie, Zenon
<1>16. Holds(b, 0, x2) /\ Holds(b, Len(x2), v)
  BY <1>0, <1>2, <1>5, <1>15, PartsLie, Zenon
<1>17. Holds(b, 0, u) /\ Holds(b, Len(u), t)
  BY <1>0, <1>1, <1>16, PartsLie, Zenon
<1> QED BY <1>0, <1>10, <1>11, <1>13, <1>14, <1>15, <1>16, <1>17, SMT

\* One step of the walk over elements
LEMMA NextElement ==
    ASSUME NEW b \in Seq(Octet), NEW i \in Nat, HasIE(b, i), NEW j, j = ValueEnd(b, i)
    PROVE  Front(IEsFrom(b)[i], IEOf(b, i), IEsFrom(b)[j])
BY IEsComputed, Zenon DEF Front

\* And its end
LEMMA NoElement ==
    ASSUME NEW b \in Seq(Octet), NEW i \in Nat, ~HasIE(b, i)
    PROVE  IEsFrom(b)[i] = <<>>
BY IEsComputed, Zenon

\* The three elements, when each ends where the next one starts
LEMMA ThreeElements ==
    ASSUME NEW b \in Seq(Octet), NEW i \in Nat, NEW j \in Nat, NEW k \in Nat,
           HasIE(b, 0), i = ValueEnd(b, 0), HasIE(b, i), j = ValueEnd(b, i),
           HasIE(b, j), k = ValueEnd(b, j), ~HasIE(b, k), NEW ies, ies = IEs(b)
    PROVE  DOMAIN ies = 1..3 /\ ies[1] = IEOf(b, 0) /\ ies[2] = IEOf(b, i) /\ ies[3] = IEOf(b, j)
<1>1. 0 \in Nat
  OBVIOUS
<1>2. PICK f : f = IEsFrom(b)
  OBVIOUS
<1>3. f[k] = <<>>
  BY <1>2, NoElement, Zenon
<1>4. Front(f[j], IEOf(b, j), f[k])
  BY <1>2, NextElement, Zenon
<1>5. Front(f[j], IEOf(b, j), <<>>)
  BY <1>3, <1>4, Zenon
<1>6. Front(f[i], IEOf(b, i), f[j])
  BY <1>2, NextElement, Zenon
<1>7. Front(f[0], IEOf(b, 0), f[i])
  BY <1>1, <1>2, NextElement, Zenon
<1>8. ies = f[0]
  BY <1>2, IEsComputed, Zenon
<1>9. DOMAIN f[0] = 1..3 /\ f[0][1] = IEOf(b, 0) /\ f[0][2] = IEOf(b, i) /\ f[0][3] = IEOf(b, j)
  BY <1>5, <1>6, <1>7, ThreeJoined, SMT
<1> QED BY <1>8, <1>9, Zenon

\* Where the elements start and end, in octets that have these where they are read
LEMMA ErrorElements ==
    ASSUME NEW b \in Seq(Octet), NEW n \in Nat, Len(b) = 13 + n,
           At(b, 0) = 16, At(b, 5) = 133, Uint16(b, 6) = n,
           At(b, 8 + n) = 255, Uint16(b, (8 + n) + 1) = 2, NEW ies, ies = IEs(b)
    PROVE  /\ DOMAIN ies = 1..3 /\ ies[1] = IEOf(b, 0) /\ ies[2] = IEOf(b, 5)
           /\ ies[3] = IEOf(b, 8 + n)
           /\ ValueAt(b, 0) = 1 /\ ValueEnd(b, 0) = 5
           /\ ValueAt(b, 5) = 8 /\ ValueEnd(b, 5) = 8 + n
<1>1. ValueAt(b, 0) = 1 /\ ValueEnd(b, 0) = 5 /\ HasIE(b, 0)
  <2>1. 16 \in DOMAIN TVLength /\ TVLength[16] = 4
    BY SMT DEF TVLength, IERecovery, IETEIDDataI
  <2> QED BY <2>1, SMT DEF ValueAt, ValueEnd, HasIE
<1>2. ValueAt(b, 5) = 8 /\ ValueEnd(b, 5) = 8 + n /\ HasIE(b, 5)
  BY SMT DEF ValueAt, ValueEnd, HasIE
<1>3. PICK j \in Nat : j = 8 + n
  OBVIOUS
<1>4. ValueEnd(b, j) = 13 + n /\ HasIE(b, j)
  <2>1. At(b, j) = 255 /\ Uint16(b, j + 1) = 2
    BY <1>3
  <2>2. ValueEnd(b, j) = j + 3 + 2
    BY <2>1, SMT DEF ValueEnd
  <2>3. j < Len(b) /\ j + 3 <= Len(b) /\ j + 3 + 2 <= Len(b)
    BY <1>3
  <2> QED BY <1>3, <2>1, <2>2, <2>3, SMT DEF HasIE
<1>5. ~HasIE(b, 13 + n)
  BY SMT DEF HasIE
<1>6. PICK k \in Nat : k = 13 + n
  OBVIOUS
<1>7. PICK i \in Nat : i = 5
  OBVIOUS
<1>8. /\ i = ValueEnd(b, 0) /\ HasIE(b, i) /\ j = ValueEnd(b, i) /\ HasIE(b, j)
      /\ k = ValueEnd(b, j) /\ ~HasIE(b, k)
  BY <1>1, <1>2, <1>3, <1>4, <1>5, <1>6, <1>7
<1>9. DOMAIN ies = 1..3 /\ ies[1] = IEOf(b, 0) /\ ies[2] = IEOf(b, i) /\ ies[3] = IEOf(b, j)
  BY <1>1, <1>8, ThreeElements, SMT
<1> QED BY <1>1, <1>2, <1>3, <1>7, <1>9, SMT

ErrorBody(teid, a) ==
    <<16>> \o Octets(teid, 4) \o <<133>> \o Octets(Len(a), 2) \o a \o <<255, 0, 2, 0, 0>>

IsErrorBody(b, teid, a) == b = ErrorBody(teid, a)

\* What is read at the places of an error indication where its fields are
LEMMA ErrorBodyLies ==
    ASSUME NEW teid \in Uint32s, NEW a \in Seq(Octet), Len(a) \in {4, 16},
           NEW b, IsErrorBody(b, teid, a)
    PROVE  /\ b \in Seq(Octet) /\ Len(b) = 13 + Len(a)
           /\ At(b, 0) = 16 /\ At(b, 5) = 133 /\ Uint16(b, 6) = Len(a)
           /\ At(b, 8 + Len(a)) = 255 /\ Uint16(b, (8 + Len(a)) + 1) = 2
           /\ Holds(b, 1, Octets(teid, 4)) /\ Holds(b, 8, a)
<1>1. PICK u : u = <<16>>
  OBVIOUS
<1>2. PICK t : t = Octets(teid, 4)
  OBVIOUS
<1>3. PICK v : v = <<133>>
  OBVIOUS
<1>4. PICK w : w = Octets(Len(a), 2)
  OBVIOUS
<1>5. PICK z : z = <<255, 0, 2, 0, 0>>
  OBVIOUS
<1>6. Part(u, 1) /\ Part(v, 1) /\ Part(z, 5)
  <2>1. 16 \in Octet /\ 133 \in Octet /\ 255 \in Octet /\ 0 \in Octet /\ 2 \in Octet
    BY DEF Octet
  <2> QED BY <1>1, <1>3, <1>5, <2>1 DEF Part
<1>7. Part(t, 4)
  BY <1>2, OctetsType DEF Part, Uint32s
<1>8. Fits(Len(a))
  <2>1. PICK n : n = Len(a)
    OBVIOUS
  <2>2. n = 4 \/ n = 16
    BY <2>1, Zenon
  <2>3. n \in Nat /\ n <= 50
    BY <2>2
  <2> QED BY <2>1, <2>3, SmallFits, Zenon
<1>9. Part(w, 2)
  BY <1>4, <1>8, FitsNat, OctetsType DEF Part
<1>10. JoinedError(b, u, t, v, w, a, z)
  BY <1>1, <1>2, <1>3, <1>4, <1>5, SMT DEF JoinedError, IsErrorBody, ErrorBody
<1>11. /\ b \in Seq(Octet) /\ Len(b) = 13 + Len(a)
       /\ Holds(b, 0, u) /\ Holds(b, 1, t) /\ Holds(b, 5, v) /\ Holds(b, 6, w)
       /\ Holds(b, 8, a) /\ Holds(b, 8 + Len(a), z)
  BY <1>6, <1>7, <1>9, <1>10, ErrorLaid, SMT
<1>12. At(b, 0) = 16
  BY <1>1, <1>11, HoldsOne, SMT
<1>13. At(b, 5) = 133
  BY <1>3, <1>11, HoldsOne, SMT
<1>14. Uint16(b, 6) = Len(a)
  BY <1>4, <1>8, <1>11, HoldsWord, SMT
<1>15. PICK p \in Nat : p = 8 + Len(a)
  OBVIOUS
<1>16. At(b, p) = 255 /\ Uint16(b, p + 1) = 2
  <2>1. Holds(b, p, z) /\ Len(z) = 5 /\ z[1] = 255 /\ z[2] = 0 /\ z[3] = 2
    BY <1>5, <1>11, <1>15
  <2>2. At(b, p) = 255 /\ At(b, p + 1) = 0 /\ At(b, (p + 1) + 1) = 2
    BY <2>1 DEF Holds, At
  <2> QED BY <2>2 DEF Uint16
<1> QED BY <1>2, <1>11, <1>12, <1>13, <1>14, <1>15, <1>16, SMT

\* The body of an error indication is read as the TEID and the address in it.
LEMMA ErrorBodyRead ==
    ASSUME NEW teid \in Uint32s, NEW a \in Seq(Octet), Len(a) \in {4, 16},
           NEW b, IsErrorBody(b, teid, a)
    PROVE  /\ {Uint32(v, 0) : v \in IEValue(IEs(b), IETEIDDataI)} = {teid}
           /\ {Unmapped(v) : v \in IEValue(IEs(b), IEPeerAddress)} = {Unmapped(a)}
           /\ b \in Seq(Octet) /\ Len(b) = 13 + Len(a)
<1>1. PICK n \in Nat : n = Len(a)
  OBVIOUS
<1>2. PICK ies : ies = IEs(b)
  OBVIOUS
<1>3. /\ b \in Seq(Octet) /\ Len(b) = 13 + n
      /\ At(b, 0) = 16 /\ At(b, 5) = 133 /\ Uint16(b, 6) = n
      /\ At(b, 8 + n) = 255 /\ Uint16(b, (8 + n) + 1) = 2
      /\ Holds(b, 1, Octets(teid, 4)) /\ Holds(b, 8, a)
  <2>1. /\ b \in Seq(Octet) /\ Len(b) = 13 + Len(a)
        /\ At(b, 0) = 16 /\ At(b, 5) = 133 /\ Uint16(b, 6) = Len(a)
        /\ At(b, 8 + Len(a)) = 255 /\ Uint16(b, (8 + Len(a)) + 1) = 2
        /\ Holds(b, 1, Octets(teid, 4)) /\ Holds(b, 8, a)
    BY ErrorBodyLies
  <2> QED BY <1>1, <2>1, SMT
<1>4. /\ DOMAIN ies = 1..3 /\ ies[1] = IEOf(b, 0) /\ ies[2] = IEOf(b, 5) /\ ies[3] = IEOf(b, 8 + n)
      /\ ValueAt(b, 0) = 1 /\ ValueEnd(b, 0) = 5 /\ ValueAt(b, 5) = 8 /\ ValueEnd(b, 5) = 8 + n
  BY <1>2, <1>3, ErrorElements, SMT
<1>5. ies[1].type = 16 /\ ies[2].type = 133 /\ ies[3].type = 255
  BY <1>3, <1>4, SMT DEF IEOf
<1>6. ies[1].value = Slice(b, 1, 5) /\ ies[2].value = Slice(b, 8, 8 + n)
  BY <1>3, <1>4, SMT DEF IEOf
<1>7. ies[2].value = a
  <2>1. Between(b, 8, 8 + n, a)
    BY <1>1, <1>3 DEF Between
  <2> QED BY <1>6, <2>1, BetweenSlice, SMT
<1>8. Uint32(ies[1].value, 0) = teid
  <2>1. PICK t : t = Octets(teid, 4)
    OBVIOUS
  <2>2. t \in Seq(Octet) /\ Len(t) = 4
    BY <2>1, OctetsType DEF Uint32s
  <2>3. Between(b, 1, 5, t)
    <3>1. Holds(b, 1, t)
      BY <1>3, <2>1, Zenon
    <3>2. 5 = 1 + Len(t)
      BY <2>2
    <3> QED BY <3>1, <3>2, Zenon DEF Between
  <2>4. ies[1].value = t
    BY <1>6, <2>3, BetweenSlice, SMT
  <2>5. Holds(t, 0, Octets(teid, 4))
    BY <2>1, <2>2, HoldsSelf, Zenon
  <2> QED BY <2>4, <2>5, HoldsLong, SMT
<1>9. Valid(ies[1]) /\ Valid(ies[2])
  BY <1>5, <1>7, SMT DEF Valid, IEPeerAddress
<1>10. DOMAIN ies \subseteq Nat /\ 1 \in DOMAIN ies /\ 2 \in DOMAIN ies
  BY <1>4
<1>11. /\ \A j \in DOMAIN ies : ies[j].type = ies[1].type => j = 1
       /\ \A j \in DOMAIN ies : ies[j].type = ies[2].type => j = 2
  <2>1. \A j \in DOMAIN ies : j = 1 \/ j = 2 \/ j = 3
    BY <1>4
  <2> QED BY <1>5, <2>1, SMT
<1>12. IEValue(ies, ies[1].type) = {ies[1].value} /\ IEValue(ies, ies[2].type) = {ies[2].value}
  <2>1. IEValue(ies, ies[1].type) = {ies[1].value}
    BY <1>9, <1>10, <1>11, OneValue, Zenon
  <2>2. IEValue(ies, ies[2].type) = {ies[2].value}
    BY <1>9, <1>10, <1>11, OneValue, Zenon
  <2> QED BY <2>1, <2>2, Zenon
<1>13. IEValue(ies, IETEIDDataI) = {ies[1].value} /\ IEValue(ies, IEPeerAddress) = {ies[2].value}
  BY <1>5, <1>12, SMT DEF IETEIDDataI, IEPeerAddress
<1>14. {Uint32(v, 0) : v \in IEValue(ies, IETEIDDataI)} = {teid}
  BY <1>8, <1>13, SMT
<1>15. {Unmapped(v) : v \in IEValue(ies, IEPeerAddress)} = {Unmapped(a)}
  BY <1>7, <1>13, SMT
<1>16. b \in Seq(Octet) /\ Len(b) = 13 + Len(a)
  BY ErrorBodyLies
<1> QED BY <1>2, <1>14, <1>15, <1>16, Zenon

(***************************************************************************)
(* What is told of a datagram is what its sender meant                     *)
(***************************************************************************)

\* The fields of a decoded message
LEMMA FieldsOf ==
    ASSUME NEW b
    PROVE  /\ Decode(b).type = At(b, 1) /\ Decode(b).teid = Uint32(b, 4)
           /\ Decode(b).payload = Payload(b) /\ Decode(b).pduSession = PDUSession(b)
           /\ Decode(b).seq = IF HasSeq(b) THEN Uint16(b, 8) ELSE 0
           /\ At(b, 1) # MsgGPDU =>
                /\ Decode(b).recovery = {At(v, 0) : v \in IEValue(IEs(Payload(b)), IERecovery)}
                /\ Decode(b).teidDataI = {Uint32(v, 0) : v \in IEValue(IEs(Payload(b)), IETEIDDataI)}
                /\ Decode(b).peerAddress = {Unmapped(v) : v \in IEValue(IEs(Payload(b)), IEPeerAddress)}
BY Zenon DEF Decode

\* The types of the messages that are told
LEMMA TypesApart ==
    MsgGPDU # MsgEchoResponse /\ MsgGPDU # MsgErrorIndication /\ MsgEchoResponse # MsgErrorIndication
BY SMT DEF MsgGPDU, MsgEchoResponse, MsgErrorIndication

\* What is sent, and to or from whom
Addressed(x) ==
    \/ x.type = MsgGPDU /\ x.teid \in Teids /\ x.to \in Sessions /\ x.teid \in DLTeids[x.to]
    \/ x.type = MsgEchoResponse /\ x.teid = 0 /\ x.to \in Peers
    \/ x.type = MsgErrorIndication /\ x.teid = 0 /\ x.to = "UPF"

\* A datagram is one of the three.
LEMMA DatagramsAddressed ==
    ASSUME NEW x \in Datagrams
    PROVE  Addressed(x)
<1> DEFINE GPDUs(d) == [type : {MsgGPDU}, teid : {d}, to : {s \in Sessions : d \in DLTeids[s]},
                         form : DOMAIN Shapes[d]]
           Echoes == [type : {MsgEchoResponse}, teid : {0}, to : Peers, form : {1}]
           Errors == [type : {MsgErrorIndication}, teid : {0}, to : {"UPF"}, form : {1}]
<1>1. CASE x \in Echoes
  BY <1>1 DEF Addressed
<1>2. CASE x \in Errors
  BY <1>2 DEF Addressed
<1>3. CASE \E d \in Teids : x \in GPDUs(d)
  BY <1>3 DEF Addressed
<1>4. Datagrams = (UNION {GPDUs(d) : d \in Teids}) \cup Echoes \cup Errors
  BY DEF Datagrams
<1> HIDE DEF GPDUs, Echoes, Errors
<1>5. (\E d \in Teids : x \in GPDUs(d)) \/ x \in Echoes \/ x \in Errors
  BY <1>4
<1> QED BY <1>1, <1>2, <1>3, <1>5, Zenon

\* The shape of a G-PDU of the instance, and its packet
LEMMA GPDUFits ==
    ASSUME NEW x \in Datagrams, x.type = MsgGPDU
    PROVE  /\ ShapeFits(ShapeOf(x)) /\ HeaderList(ShapeOf(x).exts) /\ OneContainer(ShapeOf(x).exts)
           /\ WellFormed(Traffic[x.to]) /\ x.teid \in Uint32s
           /\ Fits(Len(Announced(ShapeOf(x))) + Len(Packet(Traffic[x.to])))
<1>1. PICK shape : shape = ShapeOf(x)
  OBVIOUS
<1>2. PICK p : p = Traffic[x.to]
  BY Zenon
<1>3. /\ shape.seq \subseteq Uint16s /\ shape.pad \in Nat /\ shape.exts \in Seq(ExtensionHeaders)
      /\ OneContainer(shape.exts)
      /\ WellFormed(p) /\ Fits(Len(Announced(shape)) + Len(Packet(p)))
  BY <1>1, <1>2, WireAssumption, SMT DEF OneContainer, Fits
<1>4. HeaderList(shape.exts)
  BY <1>3, Zenon DEF HeaderList
<1>5. \A n \in shape.seq : Fits(n)
  BY <1>3, Zenon DEF Fits
<1>6. ShapeFits(shape)
  BY <1>3, <1>4, <1>5, Zenon DEF ShapeFits
<1>8. x.teid \in Uint32s
  <2>1. x.teid \in Teids
    BY DatagramsAddressed, SMT DEF Addressed, MsgGPDU, MsgEchoResponse, MsgErrorIndication
  <2> QED BY <2>1, UserPlaneAssumption, Zenon
<1> QED BY <1>1, <1>2, <1>3, <1>4, <1>6, <1>8, Zenon

\* A packet to a UE as a message
LEMMA GPDUSent ==
    ASSUME NEW x \in Datagrams, x.type = MsgGPDU
    PROVE  IsMessage(AsOctets(x), MsgGPDU, x.teid, ShapeOf(x), Packet(Traffic[x.to]))
<1>1. PICK b : b = AsOctets(x)
  OBVIOUS
<1>2. PICK shape : shape = ShapeOf(x)
  BY Zenon
<1>3. PICK p : p = Traffic[x.to]
  OBVIOUS
<1>4. /\ ShapeFits(shape) /\ WellFormed(p) /\ x.teid \in Uint32s
      /\ Fits(Len(Announced(shape)) + Len(Packet(p)))
  BY <1>2, <1>3, GPDUFits, Zenon
<1>5. MsgGPDU \in Octet
  BY SMT DEF MsgGPDU, Octet
<1>6. b = GTPUMessage(MsgGPDU, x.teid, shape, Packet(p))
  BY <1>1, <1>2, <1>3, TypesApart, Zenon DEF AsOctets
<1>7. Packet(p) \in Seq(Octet)
  BY <1>4, PacketRead, Zenon
<1>8. Laid(b, Flags(shape), MsgGPDU, x.teid, Announced(shape), Packet(p))
  BY <1>4, <1>5, <1>6, <1>7, MessageLaid, Zenon
<1>9. IsMessage(b, MsgGPDU, x.teid, shape, Packet(p))
  BY <1>4, <1>5, <1>7, <1>8, Zenon DEF IsMessage
<1> QED BY <1>1, <1>2, <1>3, <1>9, Zenon

\* It is told with the QoS flow of its container, behind whatever sequence number
\* and extension headers, and before whatever padding.
LEMMA GPDUTold ==
    ASSUME NEW x \in Datagrams, x.type = MsgGPDU, NEW kind
    PROVE  Decodes(AsOctets(x)) /\ Told(Decode(AsOctets(x)), kind) = Meant(x, kind)
<1>1. PICK b : b = AsOctets(x)
  OBVIOUS
<1>2. PICK shape : shape = ShapeOf(x)
  BY Zenon
<1>3. PICK p : p = Traffic[x.to]
  OBVIOUS
<1>4. HeaderList(shape.exts) /\ OneContainer(shape.exts) /\ WellFormed(p)
  BY <1>2, <1>3, GPDUFits, Zenon
<1>5. ParseInner(Packet(p)) = {Inner(p.src, p.dst, p.proto, {UpperOf(p)})}
  BY <1>4, PacketRead, Zenon
<1>6. IsMessage(b, MsgGPDU, x.teid, shape, Packet(p))
  BY <1>1, <1>2, <1>3, GPDUSent, Zenon
<1>7. /\ b \in Seq(Octet) /\ At(b, 1) = MsgGPDU /\ Decodes(b) /\ Payload(b) = Packet(p)
       /\ Meets(b, shape.exts, 1, Extensions(b), 8 + Len(Announced(shape)))
  BY <1>6, BodyRead, Zenon
<1>8. PDUSession(b) = {ContainerOf(q) : q \in QFIsOf(x)}
  <2>1. QFIsOf(x) = {shape.exts[i][2][2] : i \in {i \in DOMAIN shape.exts : shape.exts[i][1] = 133}}
    BY <1>2, SMT DEF QFIsOf
  <2>2. PDUSession(b) = {ContainerOf(q) : q \in {shape.exts[i][2][2] :
                          i \in {i \in DOMAIN shape.exts : shape.exts[i][1] = 133}}}
    BY <1>4, <1>7, ContainerRead, SMT
  <2> QED BY <2>1, <2>2, SMT
<1>9. Told(Decode(b), kind) = [raw |-> Packet(p),
         inner |-> {Inner(p.src, p.dst, p.proto, {UpperOf(p)})},
         container |-> IF kind = "gNB" THEN {ContainerOf(q) : q \in QFIsOf(x)} ELSE {}]
  <2>1. Decode(b).type = MsgGPDU /\ Decode(b).payload = Packet(p)
        /\ Decode(b).pduSession = {ContainerOf(q) : q \in QFIsOf(x)}
    BY <1>7, <1>8, FieldsOf, Zenon
  <2> QED BY <1>5, <2>1, TypesApart, Zenon DEF Told
<1>10. Meant(x, kind) = [raw |-> Packet(p),
         inner |-> {Inner(p.src, p.dst, p.proto, {UpperOf(p)})},
         container |-> IF kind = "gNB" THEN {ContainerOf(q) : q \in QFIsOf(x)} ELSE {}]
  BY <1>3, TypesApart, Zenon DEF Meant, ContainerOf
<1> QED BY <1>1, <1>7, <1>9, <1>10, Zenon

\* The shapes of the control messages
EchoShape == [Plain EXCEPT !.seq = {1}]
ErrorShape == [Plain EXCEPT !.seq = {0}, !.exts = <<PortHeader>>]

\* They are shapes that a peer may choose.
LEMMA ControlShapes ==
    /\ ShapeFits(EchoShape) /\ EchoShape.seq = {1} /\ EchoShape.exts = <<>>
    /\ ShapeFits(ErrorShape) /\ ErrorShape.seq = {0} /\ ErrorShape.exts = <<PortHeader>>
<1>1. PortHeader \in ExtensionHeaders
  <2>1. PICK c : c = <<8, 104>>
    OBVIOUS
  <2>2. c \in Seq(Octet) /\ Len(c) = 2
    BY <2>1 DEF Octet
  <2>3. PICK S : S = Seq(Octet)
    OBVIOUS
  <2>4. PortHeader = <<64, c>> /\ 64 \in 1..255 /\ 64 # 133
    BY <2>1, SMT DEF PortHeader
  <2>5. PortHeader \in (1..255) \X S /\ PortHeader[1] = 64 /\ PortHeader[2] = c
    BY <2>2, <2>3, <2>4
  <2>6. (Len(c) + 2) % 4 = 0 /\ Len(c) + 2 <= 4 * 255
    <3>1. Len(c) + 2 = 4
      BY <2>2
    <3>2. 4 % 4 = 0 /\ 4 <= 4 * 255
      OBVIOUS
    <3> QED BY <3>1, <3>2, SMT
  <2> QED BY <2>3, <2>4, <2>5, <2>6, SMT DEF ExtensionHeaders
<1>2. <<PortHeader>> \in Seq(ExtensionHeaders) /\ <<>> \in Seq(ExtensionHeaders)
  BY <1>1
<1>3. HeaderList(<<PortHeader>>) /\ HeaderList(<<>>)
  BY <1>2, Zenon DEF HeaderList
<1>4. Fits(0) /\ Fits(1)
  BY DEF Fits, Uint16s
<1>5. EchoShape.seq = {1} /\ EchoShape.exts = <<>> /\ EchoShape.pad = 0
  BY SMT DEF EchoShape, Plain
<1>6. ErrorShape.seq = {0} /\ ErrorShape.exts = <<PortHeader>> /\ ErrorShape.pad = 0
  BY SMT DEF ErrorShape, Plain
<1>7. ShapeFits(EchoShape)
  <2>1. \A n \in EchoShape.seq : Fits(n)
    BY <1>4, <1>5, Zenon
  <2>2. EchoShape.pad \in Nat
    BY <1>5
  <2> QED BY <1>3, <1>5, <2>1, <2>2, Zenon DEF ShapeFits
<1>8. ShapeFits(ErrorShape)
  <2>1. \A n \in ErrorShape.seq : Fits(n)
    BY <1>4, <1>6, Zenon
  <2>2. ErrorShape.pad \in Nat
    BY <1>6
  <2> QED BY <1>3, <1>6, <2>1, <2>2, Zenon DEF ShapeFits
<1> QED BY <1>5, <1>6, <1>7, <1>8, Zenon

\* The octets of a chain from a header on, and after the last one
LEMMA ChainLength ==
    ASSUME NEW exts, HeaderList(exts), NEW i \in Nat
    PROVE  /\ i \notin DOMAIN exts => ChainFrom(exts)[i] = <<>>
           /\ i \in DOMAIN exts =>
                Len(ChainFrom(exts)[i]) = (2 + Len(exts[i][2])) + Len(ChainFrom(exts)[i + 1])
<1>1. PICK c : c = ChainFrom(exts)
  OBVIOUS
<1>2. c \in [Nat -> Seq(Octet)] /\ IsChain(exts, c)
  BY <1>1, ChainComputed, Zenon
<1>3. c[i] = IF i \in DOMAIN exts THEN ExtOctets(exts, i) \o c[i + 1] ELSE <<>>
  BY <1>2, Zenon DEF IsChain
<1>4. ASSUME i \in DOMAIN exts
      PROVE  Len(c[i]) = (2 + Len(exts[i][2])) + Len(c[i + 1])
  <2>1. PICK h : h = exts[i][2]
    OBVIOUS
  <2>2. PICK l : l = <<(Len(h) + 2) \div 4>>
    BY Zenon
  <2>3. PICK t : t = <<NextType(exts, i + 1)>>
    OBVIOUS
  <2>4. l \in Seq(Octet) /\ h \in Seq(Octet) /\ t \in Seq(Octet) /\ l \o h \in Seq(Octet)
        /\ ExtOctets(exts, i) \in Seq(Octet)
    BY <1>4, <2>1, <2>2, <2>3, ExtOctetsType, Zenon
  <2>5. ExtOctets(exts, i) = (l \o h) \o t
    BY <2>1, <2>2, <2>3, Zenon DEF ExtOctets
  <2>6. Len(l) = 1 /\ Len(t) = 1 /\ Len(h) \in Nat
    BY <2>2, <2>3, <2>4
  <2>7. Len(l \o h) = Len(l) + Len(h) /\ Len((l \o h) \o t) = Len(l \o h) + Len(t)
    BY <2>4, JoinedLen, Zenon
  <2>8. c[i + 1] \in Seq(Octet)
    BY <1>2
  <2>9. Len(ExtOctets(exts, i) \o c[i + 1]) = Len(ExtOctets(exts, i)) + Len(c[i + 1])
    BY <2>4, <2>8, JoinedLen, Zenon
  <2>10. Len(c[i]) = Len(ExtOctets(exts, i)) + Len(c[i + 1])
    BY <1>3, <1>4, <2>9, Zenon
  <2>11. Len(ExtOctets(exts, i)) = Len(l \o h) + Len(t)
    BY <2>5, <2>7, Zenon
  <2>12. Len(c[i]) = (2 + Len(h)) + Len(c[i + 1])
    <3>1. Len(c[i + 1]) \in Nat
      BY <2>8
    <3>2. PICK u : u = Len(c[i + 1])
      OBVIOUS
    <3>3. PICK n : n = Len(h)
      BY Zenon
    <3>4. Len(ExtOctets(exts, i)) = (1 + n) + 1
      BY <2>6, <2>7, <2>11, <3>3, Zenon
    <3>5. Len(c[i]) = ((1 + n) + 1) + u
      BY <2>10, <3>2, <3>4, Zenon
    <3>6. ((1 + n) + 1) + u = (2 + n) + u
      <4>1. n \in Nat /\ u \in Nat
        BY <2>6, <3>1, <3>2, <3>3, Zenon
      <4> QED BY <4>1, SMT
    <3> QED BY <3>2, <3>3, <3>5, <3>6, Zenon
  <2> QED BY <2>1, <2>12, Zenon
<1> QED BY <1>1, <1>3, <1>4, Zenon

\* How much the control messages have between header and body
LEMMA ControlAnnounced ==
    /\ Announced(EchoShape) \in Seq(Octet) /\ Len(Announced(EchoShape)) = 4
    /\ Announced(ErrorShape) \in Seq(Octet) /\ Len(Announced(ErrorShape)) = 8
<1>1. PICK e : e = EchoShape
  OBVIOUS
<1>2. PICK r : r = ErrorShape
  BY Zenon
<1>3. ShapeFits(e) /\ e.seq = {1} /\ e.exts = <<>> /\ ShapeFits(r) /\ r.seq = {0} /\ r.exts = <<PortHeader>>
  BY <1>1, <1>2, ControlShapes, Zenon
<1>4. HeaderList(e.exts) /\ HeaderList(r.exts)
  BY <1>3, Zenon DEF ShapeFits
<1>5. ~(e.seq = {} /\ e.exts = <<>>) /\ ~(r.seq = {} /\ r.exts = <<>>)
  BY <1>3, Zenon
<1>6. 1 \in Nat /\ 2 \in Nat /\ 1 + 1 = 2
  OBVIOUS
<1>7. Announced(e) \in Seq(Octet) /\ Len(Announced(e)) = 4 + Len(ChainFrom(e.exts)[1])
  BY <1>3, <1>5, AnnouncedIs, Zenon
<1>8. Announced(r) \in Seq(Octet) /\ Len(Announced(r)) = 4 + Len(ChainFrom(r.exts)[1])
  BY <1>3, <1>5, AnnouncedIs, Zenon
<1>9. Len(ChainFrom(e.exts)[1]) = 0
  <2>1. 1 \notin DOMAIN e.exts
    BY <1>3
  <2>2. ChainFrom(e.exts)[1] = <<>>
    BY <1>4, <1>6, <2>1, ChainLength, Zenon
  <2> QED BY <2>2
<1>10. Len(ChainFrom(r.exts)[1]) = 4
  <2>1. 1 \in DOMAIN r.exts /\ 2 \notin DOMAIN r.exts /\ r.exts[1] = PortHeader
    BY <1>3
  <2>2. ChainFrom(r.exts)[2] = <<>>
    BY <1>4, <1>6, <2>1, ChainLength, Zenon
  <2>3. Len(ChainFrom(r.exts)[1]) = (2 + Len(r.exts[1][2])) + Len(ChainFrom(r.exts)[1 + 1])
    BY <1>4, <1>6, <2>1, ChainLength, Zenon
  <2>4. Len(ChainFrom(r.exts)[2]) = 0
    BY <2>2
  <2>5. Len(r.exts[1][2]) = 2
    BY <2>1, SMT DEF PortHeader
  <2>6. Len(ChainFrom(r.exts)[1]) = (2 + Len(r.exts[1][2])) + Len(ChainFrom(r.exts)[2])
    BY <1>6, <2>3, Zenon
  <2> QED BY <2>4, <2>5, <2>6, SMT
<1> QED BY <1>1, <1>2, <1>7, <1>8, <1>9, <1>10, SMT

\* The octets of the control messages
LEMMA ControlOctets ==
    ASSUME NEW c \in Octet, NEW teid \in Uint32s, NEW a \in Seq(Octet), Len(a) \in {4, 16}
    PROVE  /\ IsMessage(EchoResponse(1, c), MsgEchoResponse, 0, EchoShape, <<14, c>>)
           /\ IsMessage(ErrorIndication(teid, a), MsgErrorIndication, 0, ErrorShape, ErrorBody(teid, a))
<1>1. PICK e : e = <<14, c>>
  OBVIOUS
<1>2. PICK r : r = ErrorBody(teid, a)
  BY Zenon
<1>3. e \in Seq(Octet) /\ Len(e) = 2
  <2>1. IsEchoBody(e, c)
    BY <1>1, Zenon DEF IsEchoBody
  <2> QED BY <2>1, EchoBodyRead, Zenon
<1>4. r \in Seq(Octet) /\ Len(r) = 13 + Len(a)
  <2>1. IsErrorBody(r, teid, a)
    BY <1>2, Zenon DEF IsErrorBody
  <2> QED BY <2>1, ErrorBodyRead, SMT
<1>5. MsgEchoResponse \in Octet /\ MsgErrorIndication \in Octet /\ 0 \in Uint32s
  BY SMT DEF MsgEchoResponse, MsgErrorIndication, Octet, Uint32s
<1>6. ShapeFits(EchoShape) /\ ShapeFits(ErrorShape)
  BY ControlShapes, Zenon
<1>7. Fits(Len(Announced(EchoShape)) + Len(e))
  <2>1. PICK m \in Nat : m = Len(Announced(EchoShape)) + Len(e) /\ m <= 50
    BY <1>3, ControlAnnounced, SMT
  <2> QED BY <2>1, SmallFits, Zenon
<1>8. Fits(Len(Announced(ErrorShape)) + Len(r))
  <2>1. PICK n \in Nat : n = Len(a)
    OBVIOUS
  <2>2. n = 4 \/ n = 16
    BY <2>1, Zenon
  <2>3. Len(Announced(ErrorShape)) + Len(r) = 8 + (13 + n)
    BY <1>4, <2>1, ControlAnnounced, Zenon
  <2>4. PICK m \in Nat : m = 8 + (13 + n) /\ m <= 50
    BY <2>2, SMT
  <2>5. Fits(m)
    BY <2>4, SmallFits, Zenon
  <2> QED BY <2>3, <2>4, <2>5, Zenon
<1>9. EchoResponse(1, c) = GTPUMessage(MsgEchoResponse, 0, EchoShape, e)
  BY <1>1, Zenon DEF EchoResponse, EchoShape
<1>10. ErrorIndication(teid, a) = GTPUMessage(MsgErrorIndication, 0, ErrorShape, r)
  BY <1>2, Zenon DEF ErrorIndication, ErrorShape, ErrorBody
<1>11. IsMessage(EchoResponse(1, c), MsgEchoResponse, 0, EchoShape, e)
  <2>1. Laid(EchoResponse(1, c), Flags(EchoShape), MsgEchoResponse, 0, Announced(EchoShape), e)
    BY <1>3, <1>5, <1>6, <1>7, <1>9, MessageLaid, Zenon
  <2> QED BY <1>3, <1>5, <1>6, <2>1, Zenon DEF IsMessage
<1>12. IsMessage(ErrorIndication(teid, a), MsgErrorIndication, 0, ErrorShape, r)
  <2>1. Laid(ErrorIndication(teid, a), Flags(ErrorShape), MsgErrorIndication, 0, Announced(ErrorShape), r)
    BY <1>4, <1>5, <1>6, <1>8, <1>10, MessageLaid, Zenon
  <2> QED BY <1>4, <1>5, <1>6, <2>1, Zenon DEF IsMessage
<1> QED BY <1>1, <1>2, <1>11, <1>12, Zenon

\* An echo response as a message
LEMMA EchoSent ==
    ASSUME NEW x \in Datagrams, x.type = MsgEchoResponse
    PROVE  /\ Restarts[x.to] \in Octet
           /\ IsMessage(AsOctets(x), MsgEchoResponse, 0, EchoShape, <<14, Restarts[x.to]>>)
<1>1. PICK b : b = AsOctets(x)
  OBVIOUS
<1>2. PICK c : c = Restarts[x.to]
  BY Zenon
<1>3. c \in Octet
  <2>1. x.to \in Peers
    BY DatagramsAddressed, TypesApart, Zenon DEF Addressed
  <2> QED BY <1>2, <2>1, WireAssumption, Zenon
<1>4. b = EchoResponse(1, c)
  BY <1>1, <1>2, TypesApart, Zenon DEF AsOctets
<1>5. PICK e : e = <<14, c>>
  OBVIOUS
<1>6. IsMessage(b, MsgEchoResponse, 0, EchoShape, e)
  <2>1. 0 \in Uint32s
    BY SMT DEF Uint32s
  <2>2. PICK a : a = <<0, 0, 0, 0>>
    OBVIOUS
  <2>3. a \in Seq(Octet) /\ Len(a) \in {4, 16}
    BY <2>2, SMT DEF Octet
  <2> QED BY <1>3, <1>4, <1>5, <2>1, <2>3, ControlOctets, Zenon
<1> QED BY <1>1, <1>2, <1>3, <1>5, <1>6, Zenon

\* It is told as the peer's counter.
LEMMA EchoTold ==
    ASSUME NEW x \in Datagrams, x.type = MsgEchoResponse, NEW kind
    PROVE  Decodes(AsOctets(x)) /\ Told(Decode(AsOctets(x)), kind) = Meant(x, kind)
<1>1. PICK b : b = AsOctets(x)
  OBVIOUS
<1>2. PICK c : c = Restarts[x.to]
  BY Zenon
<1>3. PICK e : e = <<14, c>>
  OBVIOUS
<1>4. c \in Octet /\ IsMessage(b, MsgEchoResponse, 0, EchoShape, e)
  BY <1>1, <1>2, <1>3, EchoSent, Zenon
<1>5. /\ At(b, 1) = MsgEchoResponse /\ Decodes(b) /\ Payload(b) = e
      /\ HasSeq(b) <=> EchoShape.seq # {}
      /\ EchoShape.seq # {} => Uint16(b, 8) = SeqOf(EchoShape)
  BY <1>4, BodyRead, Zenon
<1>6. SeqOf(EchoShape) = 1
  BY ControlShapes, SMT DEF SeqOf
<1>7. Decode(b).type = MsgEchoResponse /\ Decode(b).seq = 1
  <2>1. HasSeq(b) /\ Uint16(b, 8) = 1
    BY <1>5, <1>6, ControlShapes, SMT
  <2> QED BY <1>5, <2>1, FieldsOf, Zenon
<1>8. Decode(b).recovery = {c}
  <2>1. Decode(b).recovery = {At(v, 0) : v \in IEValue(IEs(e), IERecovery)}
    BY <1>5, FieldsOf, TypesApart, Zenon
  <2>2. {At(v, 0) : v \in IEValue(IEs(e), IERecovery)} = {c}
    <3>1. IsEchoBody(e, c)
      BY <1>3, Zenon DEF IsEchoBody
    <3> QED BY <1>4, <3>1, EchoBodyRead, Zenon
  <2> QED BY <2>1, <2>2, Zenon
<1>9. Told(Decode(b), kind) = [seq |-> 1, recovery |-> {c}]
  BY <1>7, <1>8, TypesApart, Zenon DEF Told
<1>10. Meant(x, kind) = [seq |-> 1, recovery |-> {c}]
  BY <1>2, TypesApart, Zenon DEF Meant
<1> QED BY <1>1, <1>5, <1>9, <1>10, Zenon

\* An error indication as a message
LEMMA ErrorSent ==
    ASSUME NEW x \in Datagrams, x.type = MsgErrorIndication
    PROVE  IsMessage(AsOctets(x), MsgErrorIndication, 0, ErrorShape, ErrorBody(Unknown, UPFIP))
<1>1. PICK b : b = AsOctets(x)
  OBVIOUS
<1>2. b = ErrorIndication(Unknown, UPFIP)
  BY <1>1, TypesApart, Zenon DEF AsOctets
<1>3. Unknown \in Uint32s
  BY UserPlaneAssumption, Zenon
<1>4. UPFIP \in Seq(Octet) /\ Len(UPFIP) \in {4, 16} /\ Unmapped(UPFIP) = UPFIP
  BY WireAssumption, Zenon
<1>5. PICK r : r = ErrorBody(Unknown, UPFIP)
  OBVIOUS
<1>6. IsMessage(b, MsgErrorIndication, 0, ErrorShape, r)
  <2>1. 14 \in Octet
    BY SMT DEF Octet
  <2> QED BY <1>2, <1>3, <1>4, <1>5, <2>1, ControlOctets, Zenon
<1> QED BY <1>1, <1>5, <1>6, Zenon

\* It is told as the TEID and the peer it is about.
LEMMA ErrorTold ==
    ASSUME NEW x \in Datagrams, x.type = MsgErrorIndication, NEW kind
    PROVE  Decodes(AsOctets(x)) /\ Told(Decode(AsOctets(x)), kind) = Meant(x, kind)
<1>1. PICK b : b = AsOctets(x)
  OBVIOUS
<1>2. PICK r : r = ErrorBody(Unknown, UPFIP)
  BY Zenon
<1>3. Unknown \in Uint32s
  BY UserPlaneAssumption, Zenon
<1>4. UPFIP \in Seq(Octet) /\ Len(UPFIP) \in {4, 16} /\ Unmapped(UPFIP) = UPFIP
  BY WireAssumption, Zenon
<1>5. IsMessage(b, MsgErrorIndication, 0, ErrorShape, r)
  BY <1>1, <1>2, ErrorSent, Zenon
<1>6. At(b, 1) = MsgErrorIndication /\ Uint32(b, 4) = 0 /\ Decodes(b) /\ Payload(b) = r
  BY <1>5, BodyRead, Zenon
<1>7. Decode(b).type = MsgErrorIndication /\ Decode(b).teid = 0
  BY <1>6, FieldsOf, Zenon
<1>8. Decode(b).teidDataI = {Unknown} /\ Decode(b).peerAddress = {UPFIP}
  <2>1. /\ Decode(b).teidDataI = {Uint32(v, 0) : v \in IEValue(IEs(r), IETEIDDataI)}
        /\ Decode(b).peerAddress = {Unmapped(v) : v \in IEValue(IEs(r), IEPeerAddress)}
    BY <1>6, FieldsOf, TypesApart, Zenon
  <2>2. /\ {Uint32(v, 0) : v \in IEValue(IEs(r), IETEIDDataI)} = {Unknown}
        /\ {Unmapped(v) : v \in IEValue(IEs(r), IEPeerAddress)} = {Unmapped(UPFIP)}
    <3>1. IsErrorBody(r, Unknown, UPFIP)
      BY <1>2, Zenon DEF IsErrorBody
    <3> QED BY <1>3, <1>4, <3>1, ErrorBodyRead, Zenon
  <2> QED BY <1>4, <2>1, <2>2, Zenon
<1>9. Told(Decode(b), kind) = [header |-> 0, teidDataI |-> {Unknown}, peer |-> {UPFIP}]
  BY <1>7, <1>8, TypesApart, Zenon DEF Told
<1>10. Meant(x, kind) = [header |-> 0, teidDataI |-> {Unknown}, peer |-> {UPFIP}]
  BY TypesApart, Zenon DEF Meant
<1> QED BY <1>1, <1>6, <1>9, <1>10, Zenon

\* What is told of any datagram of the instance is what its sender meant.
LEMMA TellingMeant ==
    ASSUME NEW x \in Datagrams, NEW kind \in Nodes
    PROVE  x \in Decodable /\ Telling[kind][x] = Meaning[kind][x]
<1>1. x.type = MsgGPDU \/ x.type = MsgEchoResponse \/ x.type = MsgErrorIndication
  BY DatagramsAddressed, Zenon DEF Addressed
<1>2. Decodes(AsOctets(x)) /\ Told(Decode(AsOctets(x)), kind) = Meant(x, kind)
  BY <1>1, GPDUTold, EchoTold, ErrorTold, Zenon
<1>3. x \in Decodable
  BY <1>2, Zenon DEF Decodable
<1>4. Decoded[x] = Decode(AsOctets(x))
  BY <1>3, Zenon DEF Decoded
<1>5. Telling[kind][x] = Told(Decoded[x], kind)
  BY <1>3, Zenon DEF Telling
<1>6. Meaning[kind][x] = Meant(x, kind)
  BY Zenon DEF Meaning
<1> QED BY <1>2, <1>3, <1>4, <1>5, <1>6, Zenon

\* A datagram carries the type and the TEID that it was sent with.
LEMMA DatagramRead ==
    ASSUME NEW x \in Datagrams
    PROVE  At(AsOctets(x), 1) = x.type /\ Uint32(AsOctets(x), 4) = x.teid
<1>1. CASE x.type = MsgGPDU
  BY <1>1, GPDUSent, BodyRead, Zenon
<1>2. CASE x.type # MsgGPDU
  <2>1. x.teid = 0
    BY <1>2, DatagramsAddressed, Zenon DEF Addressed
  <2>2. x.type = MsgEchoResponse \/ x.type = MsgErrorIndication
    BY <1>2, DatagramsAddressed, Zenon DEF Addressed
  <2> QED BY <2>1, <2>2, EchoSent, ErrorSent, BodyRead, Zenon
<1> QED BY <1>1, <1>2

\* runReceiver files a datagram under the key it was sent to.
LEMMA FiledWhereSent ==
    ASSUME NEW x \in Decodable
    PROVE  KeyOf(Decoded[x]) = <<x.type, x.teid>> /\ <<x.type, x.teid>> \in Keys
<1>1. x \in Datagrams
  BY DEF Decodable
<1>2. At(AsOctets(x), 1) = x.type /\ Uint32(AsOctets(x), 4) = x.teid /\ Addressed(x)
  BY <1>1, DatagramRead, DatagramsAddressed
<1>3. Decoded[x].type = At(AsOctets(x), 1) /\ Decoded[x].teid = Uint32(AsOctets(x), 4)
  BY DEF Decoded, Decode
<1>4. Decoded[x].type = x.type /\ Decoded[x].teid = x.teid
  BY <1>2, <1>3
<1>5. x.type # MsgGPDU => x.teid = 0
  BY <1>2 DEF Addressed
<1>6. KeyOf(Decoded[x]) = <<x.type, x.teid>>
  BY <1>4, <1>5 DEF KeyOf
<1>7. <<x.type, x.teid>> \in Keys
  BY <1>2 DEF Addressed, Keys
<1> QED BY <1>6, <1>7

(***************************************************************************)
(* The sum of the words of a string, and its checksum                      *)
(***************************************************************************)

\* What the recursion of WordSum asks of the sums from each offset on
IsSum(b, sum) ==
    sum = [i \in Nat |-> CASE i >= Len(b) -> 0
                           [] i = Len(b) - 1 -> 256 * At(b, i)
                           [] OTHER -> Uint16(b, i) + sum[i + 2]]

\* The sum of the words from an offset on
SumFrom(b) == CHOOSE sum : IsSum(b, sum)

\* A word of octets is a number.
LEMMA WordType ==
    ASSUME NEW b \in Seq(Octet), NEW i \in Nat, i + 1 < Len(b)
    PROVE  Uint16(b, i) \in Nat
<1>1. i < Len(b) /\ i + 1 \in Nat /\ Len(b) \in Nat
  OBVIOUS
<1>2. At(b, i) \in Octet /\ At(b, i + 1) \in Octet
  BY <1>1, OctetAt
<1>3. At(b, i) \in Nat /\ At(b, i + 1) \in Nat
  BY <1>2, OctetNat, Zenon
<1> QED BY <1>3 DEF Uint16

\* The recursion of WordSum ends, and adds word after word.
LEMMA SumComputed ==
    ASSUME NEW b \in Seq(Octet)
    PROVE  /\ SumFrom(b) \in [Nat -> Nat] /\ WordSum(b) = SumFrom(b)[0]
           /\ \A i \in Nat : /\ i >= Len(b) => SumFrom(b)[i] = 0
                             /\ i = Len(b) - 1 => SumFrom(b)[i] = 256 * At(b, i)
                             /\ i + 1 < Len(b) => SumFrom(b)[i] = Uint16(b, i) + SumFrom(b)[i + 2]
<1> DEFINE n == Len(b)
           H == {i \in Nat : i + 1 < n}
           next == [i \in H |-> i + 2]
           m == [i \in Nat |-> IF i <= n THEN n - i ELSE 0]
           join == [i \in H |-> [v \in Nat |-> Uint16(b, i) + v]]
           last == [i \in Nat |-> IF i = n - 1 THEN 256 * At(b, i) ELSE 0]
<1>0. n \in Nat
  OBVIOUS
<1>1. Descends(H, next, m)
  <2>1. m \in [Nat -> Nat]
    BY <1>0
  <2>2. ASSUME NEW i \in H PROVE next[i] \in Nat /\ m[next[i]] < m[i]
    <3>1. i \in Nat /\ i + 1 < n /\ next[i] = i + 2 /\ i + 2 \in Nat /\ i <= n /\ i + 2 <= n
      BY <1>0
    <3>2. m[i] = n - i /\ m[i + 2] = n - (i + 2)
      BY <3>1
    <3> HIDE DEF m, next, H, n
    <3> QED BY <1>0, <3>1, <3>2
  <2> HIDE DEF next, m
  <2> QED BY <2>1, <2>2 DEF Descends
<1>2. PICK f : Computes(f, Nat, H, next, join, last)
  <2> HIDE DEF H, next, m, join, last
  <2> QED BY <1>1, Computed, Zenon
<1>3. f \in [Nat -> Nat]
  <2>1. ASSUME NEW i \in H, NEW v \in Nat PROVE Uint16(b, i) + v \in Nat
    <3>1. Uint16(b, i) \in Nat
      BY WordType
    <3> QED BY <3>1
  <2>2. join \in [H -> [Nat -> Nat]]
    BY <2>1, Zenon
  <2>3. ASSUME NEW i \in Nat, i = n - 1 PROVE 256 * At(b, i) \in Nat
    <3>1. i < Len(b)
      BY <2>3
    <3>2. At(b, i) \in Nat
      BY <3>1, OctetAt, OctetNat
    <3> QED BY <3>2
  <2>4. last \in [Nat -> Nat]
    BY <2>3
  <2> HIDE DEF H, next, m, join, last
  <2> QED BY <1>1, <1>2, <2>2, <2>4, ComputedIn
<1>4. ASSUME NEW i \in Nat
      PROVE  f[i] = IF i + 1 < n THEN Uint16(b, i) + f[i + 2] ELSE last[i]
  <2>1. f[i] = IF i \in H THEN join[i][f[next[i]]] ELSE last[i]
    <3> HIDE DEF H, next, join, last
    <3> QED BY <1>2, Zenon DEF Computes
  <2>2. ASSUME i \in H PROVE join[i][f[next[i]]] = Uint16(b, i) + f[i + 2]
    <3>1. next[i] = i + 2 /\ i + 2 \in Nat
      BY <2>2
    <3>2. f[i + 2] \in Nat
      BY <1>3, <3>1
    <3> HIDE DEF H, next
    <3> QED BY <2>2, <3>1, <3>2
  <2> HIDE DEF next, join, last
  <2> QED BY <2>1, <2>2
<1>5. ASSUME NEW i \in Nat
      PROVE  /\ i >= n => f[i] = 0
             /\ i = n - 1 => f[i] = 256 * At(b, i)
             /\ i + 1 < n => f[i] = Uint16(b, i) + f[i + 2]
  <2>1. last[i] = IF i = n - 1 THEN 256 * At(b, i) ELSE 0
    OBVIOUS
  <2> HIDE DEF last, n, H, next, join, m
  <2> QED BY <1>0, <1>4, <2>1
<1>6. IsSum(b, f)
  <2>1. ASSUME NEW i \in Nat
        PROVE  f[i] = CASE i >= Len(b) -> 0
                        [] i = Len(b) - 1 -> 256 * At(b, i)
                        [] OTHER -> Uint16(b, i) + f[i + 2]
    <3>1. i >= n \/ i = n - 1 \/ i + 1 < n
      BY <1>0
    <3>2. ~(i >= n /\ i = n - 1) /\ ~(i >= n /\ i + 1 < n) /\ ~(i = n - 1 /\ i + 1 < n)
      BY <1>0
    <3>3. n = Len(b)
      OBVIOUS
    <3> HIDE DEF n, last, H, next, join, m
    <3> QED BY <1>5, <3>1, <3>2, <3>3, Zenon
  <2>2. f = [i \in Nat |-> f[i]]
    BY <1>3
  <2> QED BY <2>1, <2>2, Zenon DEF IsSum
<1>7. IsSum(b, SumFrom(b))
  BY <1>6, Zenon DEF SumFrom
<1>8. PICK g : g = SumFrom(b)
  OBVIOUS
<1>9. ASSUME NEW i \in Nat
      PROVE  /\ i >= n => g[i] = 0
             /\ i = n - 1 => g[i] = 256 * At(b, i)
             /\ i + 1 < n => g[i] = Uint16(b, i) + g[i + 2]
  <2>1. g[i] = CASE i >= Len(b) -> 0
                 [] i = Len(b) - 1 -> 256 * At(b, i)
                 [] OTHER -> Uint16(b, i) + g[i + 2]
    BY <1>7, <1>8, Zenon DEF IsSum
  <2>2. ~(i >= n /\ i = n - 1) /\ ~(i >= n /\ i + 1 < n) /\ ~(i = n - 1 /\ i + 1 < n)
    BY <1>0
  <2>3. n = Len(b)
    OBVIOUS
  <2> HIDE DEF n, last, H, next, join, m
  <2> QED BY <2>1, <2>2, <2>3, Zenon
<1>10. \A i \in Nat : f[i] = g[i]
  <2>1. ASSUME NEW i \in Nat, i \in H => f[next[i]] = g[next[i]] PROVE f[i] = g[i]
    <3>1. i + 1 < n => f[i + 2] = g[i + 2]
      BY <2>1
    <3>2. i >= n \/ i = n - 1 \/ i + 1 < n
      BY <1>0
    <3> HIDE DEF n, last, H, next, join, m
    <3>3. CASE i >= n
      <4>1. f[i] = 0 /\ g[i] = 0
        BY <1>5, <1>9, <3>3, Zenon
      <4> QED BY <4>1
    <3>4. CASE i = n - 1
      <4>1. f[i] = 256 * At(b, i) /\ g[i] = 256 * At(b, i)
        BY <1>5, <1>9, <3>4
      <4> QED BY <4>1
    <3>5. CASE i + 1 < n
      <4>1. f[i] = Uint16(b, i) + f[i + 2] /\ g[i] = Uint16(b, i) + g[i + 2]
        BY <1>5, <1>9, <3>5
      <4> QED BY <3>1, <3>5, <4>1
    <3> QED BY <3>2, <3>3, <3>4, <3>5, Zenon
  <2> HIDE DEF n, last, H, next, join, m
  <2> QED BY <1>1, <2>1, ComputedAlike
<1>11. g = f
  <2>1. g = [i \in Nat |-> g[i]]
    <3>1. \A h : IsSum(b, h) => h = [i \in Nat |-> h[i]]
      BY DEF IsSum
    <3> QED BY <1>7, <1>8, <3>1, Zenon
  <2>2. f = [i \in Nat |-> f[i]]
    BY <1>3
  <2> QED BY <1>10, <2>1, <2>2
<1>12. WordSum(b) = g[0]
  BY <1>8, Zenon DEF WordSum, SumFrom, IsSum
<1> HIDE DEF H, next, join, m, last
<1> QED BY <1>3, <1>8, <1>9, <1>11, <1>12, Zenon

\* b ends with t, from offset p on.
Ends(b, p, t) == Holds(b, p, t) /\ Len(b) = p + Len(t)

\* The sum of the words from an offset on is that of what lies there.
LEMMA SumShift ==
    ASSUME NEW b, NEW p, NEW t, Ends(b, p, t)
    PROVE  \A i \in Nat : SumFrom(t)[i] = SumFrom(b)[p + i]
<1> DEFINE n == Len(t)
           H == {i \in Nat : i + 1 < n}
           next == [i \in H |-> i + 2]
           m == [i \in Nat |-> IF i <= n THEN n - i ELSE 0]
           g == [i \in Nat |-> SumFrom(b)[p + i]]
<1>0. /\ b \in Seq(Octet) /\ t \in Seq(Octet) /\ p \in Nat /\ n \in Nat /\ Len(b) = p + n
      /\ \A i \in 1..n : b[p + i] = t[i]
  BY DEF Ends, Holds
<1>1. Descends(H, next, m)
  <2>1. m \in [Nat -> Nat]
    BY <1>0
  <2>2. ASSUME NEW i \in H PROVE next[i] \in Nat /\ m[next[i]] < m[i]
    <3>1. i \in Nat /\ i + 1 < n /\ next[i] = i + 2 /\ i + 2 \in Nat /\ i <= n /\ i + 2 <= n
      BY <1>0
    <3>2. m[i] = n - i /\ m[i + 2] = n - (i + 2)
      BY <3>1
    <3> HIDE DEF m, next, H, n
    <3> QED BY <1>0, <3>1, <3>2
  <2> HIDE DEF next, m
  <2> QED BY <2>1, <2>2 DEF Descends
<1>2. ASSUME NEW i \in Nat, i < n PROVE At(t, i) = At(b, p + i)
  <2>1. i + 1 \in 1..n /\ p + (i + 1) = (p + i) + 1
    BY <1>0, <1>2
  <2>2. b[p + (i + 1)] = t[i + 1]
    BY <1>0, <2>1
  <2> HIDE DEF n
  <2> QED BY <2>1, <2>2 DEF At
<1>3. ASSUME NEW i \in Nat PROVE g[i] = SumFrom(b)[p + i]
  OBVIOUS
<1>4. ASSUME NEW i \in Nat, i \in H => SumFrom(t)[next[i]] = g[next[i]]
      PROVE  SumFrom(t)[i] = g[i]
  <2>1. /\ p + i \in Nat /\ (i >= n => p + i >= Len(b)) /\ (i = n - 1 => p + i = Len(b) - 1)
        /\ (i + 1 < n => (p + i) + 1 < Len(b)) /\ (p + i) + 2 = p + (i + 2)
        /\ (i + 1 < n => i < n) /\ (i = n - 1 => i < n)
        /\ i + 1 \in Nat /\ p + (i + 1) = (p + i) + 1 /\ i + 2 \in Nat
    BY <1>0
  <2>2. i + 1 < n => SumFrom(t)[i + 2] = g[i + 2]
    BY <1>4
  <2>3. i >= n \/ i = n - 1 \/ i + 1 < n
    BY <1>0
  <2>4. n = Len(t)
    OBVIOUS
  <2> HIDE DEF n, H, next, m, g
  <2>5. CASE i >= n
    <3>1. SumFrom(t)[i] = 0
      BY <1>0, <2>4, <2>5, SumComputed, Zenon
    <3>2. SumFrom(b)[p + i] = 0
      BY <1>0, <2>1, <2>5, SumComputed, Zenon
    <3> QED BY <1>3, <3>1, <3>2, Zenon
  <2>6. CASE i = n - 1
    <3>1. SumFrom(t)[i] = 256 * At(t, i)
      BY <1>0, <2>4, <2>6, SumComputed
    <3>2. SumFrom(b)[p + i] = 256 * At(b, p + i)
      BY <1>0, <2>1, <2>6, SumComputed
    <3>3. At(t, i) = At(b, p + i)
      BY <1>2, <2>1, <2>6, Zenon
    <3> QED BY <1>3, <3>1, <3>2, <3>3
  <2>7. CASE i + 1 < n
    <3>1. SumFrom(t)[i] = Uint16(t, i) + SumFrom(t)[i + 2]
      BY <1>0, <2>4, <2>7, SumComputed
    <3>2. SumFrom(b)[p + i] = Uint16(b, p + i) + SumFrom(b)[(p + i) + 2]
      BY <1>0, <2>1, <2>7, SumComputed
    <3>3. At(t, i) = At(b, p + i) /\ At(t, i + 1) = At(b, (p + i) + 1)
      BY <1>2, <2>1, <2>7
    <3>4. Uint16(t, i) = Uint16(b, p + i)
      BY <3>3 DEF Uint16
    <3>5. SumFrom(t)[i + 2] = SumFrom(b)[(p + i) + 2]
      BY <1>3, <2>1, <2>2, <2>7
    <3> QED BY <1>3, <3>1, <3>2, <3>4, <3>5
  <2> QED BY <2>3, <2>5, <2>6, <2>7, Zenon
<1>5. \A i \in Nat : SumFrom(t)[i] = g[i]
  <2> HIDE DEF n, H, next, m, g
  <2> QED BY <1>1, <1>4, ComputedAlike
<1> HIDE DEF g
<1> QED BY <1>3, <1>5, Zenon

\* Of two strings, the first of which has an even length
LEMMA SumJoined ==
    ASSUME NEW s \in Seq(Octet), NEW t \in Seq(Octet), NEW k \in Nat, Len(s) = 2 * k,
           NEW b, b = s \o t
    PROVE  WordSum(b) = WordSum(s) + WordSum(t)
<1> DEFINE from(j) == 2 * (k - j)
           T == {j \in Nat : j <= k => SumFrom(b)[from(j)] = SumFrom(s)[from(j)] + WordSum(t)}
<1>1. /\ b \in Seq(Octet) /\ Len(b) = 2 * k + Len(t) /\ Len(t) \in Nat
      /\ \A i \in 1..Len(s) : b[i] = s[i]
  <2>0. b \in Seq(Octet) /\ Len(t) \in Nat
    BY JoinedType
  <2>1. b \in Seq(Octet) /\ Len(b) = Len(s) + Len(t) /\ Len(t) \in Nat
    BY <2>0, JoinedLen, Zenon
  <2>2. Holds(b, 0, s \o t)
    BY <2>1, HoldsSelf
  <2>3. Holds(b, 0, s)
    BY <2>2, HoldsJoined
  <2>4. \A i \in 1..Len(s) : b[0 + i] = s[i] /\ 0 + i = i
    BY <2>3 DEF Holds
  <2>5. \A i \in 1..Len(s) : b[i] = s[i]
    BY <2>4
  <2> QED BY <2>1, <2>5
<1>2. Ends(b, 2 * k, t)
  <2>1. Holds(b, 0, s \o t)
    BY <1>1, HoldsSelf
  <2>2. Holds(b, 2 * k, t)
    <3>1. 0 + 2 * k = 2 * k
      OBVIOUS
    <3>2. Holds(b, 0 + 2 * k, t)
      BY <2>1, HoldsJoined
    <3> QED BY <3>1, <3>2
  <2> QED BY <1>1, <2>2 DEF Ends
<1>3. SumFrom(b)[2 * k] = WordSum(t)
  <2>1. 0 \in Nat /\ 2 * k + 0 = 2 * k
    OBVIOUS
  <2>2. SumFrom(t)[0] = SumFrom(b)[2 * k + 0]
    BY <1>2, <2>1, SumShift
  <2>3. WordSum(t) = SumFrom(t)[0]
    BY SumComputed
  <2> QED BY <2>1, <2>2, <2>3
<1>4. WordSum(t) \in Nat
  <2>1. SumFrom(t) \in [Nat -> Nat] /\ WordSum(t) = SumFrom(t)[0]
    BY SumComputed
  <2> QED BY <2>1
<1>5. ASSUME NEW i \in Nat, i + 1 < Len(s) PROVE Uint16(b, i) = Uint16(s, i)
  <2>1. i + 1 \in 1..Len(s) /\ (i + 1) + 1 \in 1..Len(s)
    BY <1>5
  <2>2. b[i + 1] = s[i + 1] /\ b[(i + 1) + 1] = s[(i + 1) + 1]
    BY <1>1, <2>1
  <2> QED BY <2>2 DEF Uint16, At
<1>6. ASSUME NEW j \in Nat, \A l \in Nat : l < j => l \in T PROVE j \in T
  <2> SUFFICES ASSUME j <= k PROVE SumFrom(b)[from(j)] = SumFrom(s)[from(j)] + WordSum(t)
    OBVIOUS
  <2>1. CASE j = 0
    <3>1. from(j) = 2 * k /\ 2 * k \in Nat
      BY <2>1
    <3>2. SumFrom(s)[2 * k] = 0
      BY <3>1, SumComputed
    <3> HIDE DEF from
    <3> QED BY <1>3, <1>4, <3>1, <3>2
  <2>2. CASE j # 0
    <3>1. PICK l \in Nat : j = l + 1
      <4>1. j - 1 \in Nat /\ j = (j - 1) + 1
        BY <2>2
      <4> QED BY <4>1
    <3>2. PICK i \in Nat : i = from(j)
      <4>1. from(j) \in Nat
        OBVIOUS
      <4> QED BY <4>1
    <3>3. from(l) = i + 2 /\ l < j /\ l <= k /\ i + 1 < Len(s) /\ i + 1 < Len(b) /\ i + 2 \in Nat
      BY <1>1, <3>1, <3>2
    <3>4. SumFrom(b)[i + 2] = SumFrom(s)[i + 2] + WordSum(t)
      <4>1. l \in T
        BY <1>6, <3>3, Zenon
      <4>2. SumFrom(b)[from(l)] = SumFrom(s)[from(l)] + WordSum(t)
        BY <3>3, <4>1
      <4> HIDE DEF T, from
      <4> QED BY <3>3, <4>2
    <3>5. SumFrom(b)[i] = Uint16(b, i) + SumFrom(b)[i + 2]
      BY <1>1, <3>3, SumComputed
    <3>6. SumFrom(s)[i] = Uint16(s, i) + SumFrom(s)[i + 2]
      BY <3>3, SumComputed
    <3>7. Uint16(b, i) = Uint16(s, i) /\ Uint16(s, i) \in Nat
      BY <1>5, <3>3, WordType
    <3>8. SumFrom(s)[i + 2] \in Nat
      BY <3>3, SumComputed
    <3>9. SumFrom(b)[i] = SumFrom(s)[i] + WordSum(t)
      BY <1>4, <3>4, <3>5, <3>6, <3>7, <3>8
    <3> HIDE DEF T, from
    <3> QED BY <3>2, <3>9, Zenon
  <2> QED BY <2>1, <2>2, Zenon
<1>7. k \in T
  <2> HIDE DEF T
  <2> QED BY <1>6, SetInduction
<1>8. from(k) = 0 /\ k <= k
  OBVIOUS
<1>9. SumFrom(b)[0] = SumFrom(s)[0] + WordSum(t)
  <2>1. SumFrom(b)[from(k)] = SumFrom(s)[from(k)] + WordSum(t)
    BY <1>7, <1>8
  <2> HIDE DEF from, T
  <2> QED BY <1>8, <2>1
<1> HIDE DEF from, T
<1>10. WordSum(b) = SumFrom(b)[0] /\ WordSum(s) = SumFrom(s)[0]
  BY <1>1, SumComputed
<1> QED BY <1>9, <1>10

\* Of a string of one word
LEMMA SumOfWord ==
    ASSUME NEW b, Part(b, 2)
    PROVE  WordSum(b) = Uint16(b, 0)
<1>1. b \in Seq(Octet) /\ 0 + 1 < Len(b) /\ 0 + 2 >= Len(b) /\ 0 + 2 \in Nat /\ 0 \in Nat
  BY DEF Part
<1>2. SumFrom(b)[0] = Uint16(b, 0) + SumFrom(b)[0 + 2]
  BY <1>1, SumComputed
<1>3. SumFrom(b)[0 + 2] = 0
  BY <1>1, SumComputed
<1>4. WordSum(b) = SumFrom(b)[0]
  BY <1>1, SumComputed
<1>5. Uint16(b, 0) \in Nat
  BY <1>1, WordType
<1> QED BY <1>2, <1>3, <1>4, <1>5

\* A sum is a number.
LEMMA SumType ==
    ASSUME NEW b \in Seq(Octet)
    PROVE  WordSum(b) \in Nat
<1>1. SumFrom(b) \in [Nat -> Nat] /\ WordSum(b) = SumFrom(b)[0]
  BY SumComputed
<1> QED BY <1>1

\* The loop of checksum that folds the carries into 16 bits
FoldOf(fold, s) == IF s < 65536 THEN s ELSE fold[(s % 65536) + (s \div 65536)]

IsFold(fold) == fold = [s \in Nat |-> FoldOf(fold, s)]

\* What the carries of a sum are added back in to
Folded == CHOOSE fold : IsFold(fold)

\* They are what the sum is modulo 65535.
Keeps(s, v) == v \in Uint16s /\ \E k \in Nat : s = 65535 * k + v

Complement(v) == 65535 - v

\* The sum without its carries, and what was taken off it
LEMMA CarriesBack ==
    ASSUME NEW s \in Nat, ~(s < 65536)
    PROVE  /\ (s % 65536) + (s \div 65536) \in Nat /\ (s % 65536) + (s \div 65536) < s
           /\ s \div 65536 \in Nat
           /\ s = 65535 * (s \div 65536) + ((s % 65536) + (s \div 65536))
BY SMT

\* The loop ends, with 16 bits that leave the sum what it is modulo 65535.
LEMMA FoldComputed ==
    /\ \A b : onesComplementSum(b) = Complement(Folded[WordSum(b)])
    /\ \A s \in Nat : Keeps(s, Folded[s])
<1> DEFINE H == {s \in Nat : ~(s < 65536)}
           next == [s \in H |-> (s % 65536) + (s \div 65536)]
           m == [s \in Nat |-> s]
           join == [s \in H |-> [v \in Nat |-> v]]
<1>1. Descends(H, next, m)
  <2>1. m \in [Nat -> Nat]
    OBVIOUS
  <2>2. ASSUME NEW s \in H PROVE next[s] \in Nat /\ m[next[s]] < m[s]
    <3>1. s \in Nat /\ next[s] \in Nat /\ next[s] < s
      BY CarriesBack
    <3> HIDE DEF next
    <3> QED BY <3>1
  <2> HIDE DEF next, m
  <2> QED BY <2>1, <2>2 DEF Descends
<1>2. PICK f : Computes(f, Nat, H, next, join, m)
  <2> HIDE DEF H, next, m, join
  <2> QED BY <1>1, Computed, Zenon
<1>3. f \in [Nat -> Nat]
  <2>1. join \in [H -> [Nat -> Nat]] /\ m \in [Nat -> Nat]
    OBVIOUS
  <2> HIDE DEF H, next, m, join
  <2> QED BY <1>1, <1>2, <2>1, ComputedIn
<1>4. ASSUME NEW s \in Nat
      PROVE  f[s] = FoldOf(f, s)
  <2>1. f[s] = IF s \in H THEN join[s][f[next[s]]] ELSE m[s]
    <3> HIDE DEF H, next, join, m
    <3> QED BY <1>2, Zenon DEF Computes
  <2>2. ASSUME s \in H PROVE join[s][f[next[s]]] = f[(s % 65536) + (s \div 65536)]
    <3>1. next[s] = (s % 65536) + (s \div 65536) /\ next[s] \in Nat
      BY <2>2, CarriesBack
    <3>2. f[next[s]] \in Nat
      BY <1>3, <3>1
    <3>3. join[s][f[next[s]]] = f[next[s]]
      <4> HIDE DEF next, H
      <4> QED BY <2>2, <3>2
    <3> HIDE DEF next, join, H, m
    <3> QED BY <3>1, <3>3
  <2>3. m[s] = s /\ (s \in H <=> ~(s < 65536))
    OBVIOUS
  <2> HIDE DEF H, next, join, m
  <2> QED BY <2>1, <2>2, <2>3 DEF FoldOf
<1>5. IsFold(f)
  <2>1. f = [s \in Nat |-> f[s]]
    BY <1>3
  <2> HIDE DEF H, next, join, m
  <2>2. [s \in Nat |-> f[s]] = [s \in Nat |-> FoldOf(f, s)]
    BY <1>4, Zenon
  <2> QED BY <2>1, <2>2, Zenon DEF IsFold
<1>6. IsFold(Folded)
  BY <1>5, Zenon DEF Folded
<1>7. \A s \in Nat : Folded[s] = FoldOf(Folded, s)
  BY <1>6, Zenon DEF IsFold
<1> DEFINE T == {s \in Nat : Keeps(s, Folded[s])}
<1>8. ASSUME NEW s \in Nat, \A l \in Nat : l < s => l \in T PROVE s \in T
  <2>1. CASE s < 65536
    <3>1. Folded[s] = s
      BY <1>7, <2>1 DEF FoldOf
    <3>2. s = 65535 * 0 + s /\ s \in Uint16s
      BY <2>1 DEF Uint16s
    <3>3. Keeps(s, s)
      BY <3>2 DEF Keeps
    <3> QED BY <3>1, <3>3
  <2>2. CASE ~(s < 65536)
    <3>1. PICK l : l = (s % 65536) + (s \div 65536)
      OBVIOUS
    <3>2. PICK d : d = s \div 65536
      OBVIOUS
    <3>3. l \in Nat /\ l < s /\ d \in Nat /\ s = 65535 * d + l
      BY <2>2, <3>1, <3>2, CarriesBack
    <3>4. Folded[s] = Folded[l]
      BY <1>7, <2>2, <3>1 DEF FoldOf
    <3>5. l \in T
      <4>1. l \in Nat /\ l < s
        BY <3>3
      <4> HIDE DEF T
      <4> QED BY <1>8, <4>1
    <3>6. Keeps(l, Folded[l])
      BY <3>5
    <3>7. PICK v : v = Folded[l]
      OBVIOUS
    <3>8. Keeps(s, v)
      <4>1. v \in Uint16s
        BY <3>6, <3>7 DEF Keeps
      <4>2. PICK k \in Nat : l = 65535 * k + v
        BY <3>6, <3>7 DEF Keeps
      <4>3. v \in Nat
        BY <4>1 DEF Uint16s
      <4>4. s = 65535 * (k + d) + v /\ k + d \in Nat
        BY <3>3, <4>2, <4>3
      <4> QED BY <4>1, <4>4 DEF Keeps
    <3> QED BY <3>4, <3>7, <3>8
  <2> HIDE DEF T
  <2> QED BY <2>1, <2>2
<1>9. \A s \in Nat : s \in T
  <2> HIDE DEF T
  <2> QED BY <1>8, SetInduction
<1>10. \A b : onesComplementSum(b) = Complement(Folded[WordSum(b)])
  <2> HIDE DEF H, next, join, m, T
  <2> QED BY DEF onesComplementSum, Complement, Folded, IsFold, FoldOf
<1> HIDE DEF H, next, join, m
<1> QED BY <1>9, <1>10

\* The checksum of a string, as a number that makes another string verify: that with
\* it in place of zero, or with 65535 if it is zero itself.
LEMMA ChecksumVerifies ==
    ASSUME NEW z \in Seq(Octet), NEW n, n = onesComplementSum(z)
    PROVE  /\ Fits(n) /\ n \in Nat
           /\ \A b : WordSum(b) = WordSum(z) + n => Verifies(b)
           /\ Fits(AsComputed(n)) /\ AsComputed(n) # 0 /\ AsComputed(n) \in Nat
           /\ \A b : WordSum(b) = WordSum(z) + AsComputed(n) => Verifies(b)
<1>1. PICK s \in Nat : s = WordSum(z)
  BY SumType
<1>2. PICK v : v = Folded[s]
  OBVIOUS
<1>3. v \in Uint16s /\ n = 65535 - v /\ \E k \in Nat : s = 65535 * k + v
  <2>1. n = Complement(v) /\ Keeps(s, v)
    BY <1>1, <1>2, FoldComputed, Zenon
  <2> QED BY <2>1 DEF Complement, Keeps
<1>4. PICK k \in Nat : s = 65535 * k + v
  BY <1>3
<1>5. v \in Nat /\ v < 65536
  BY <1>3 DEF Uint16s
<1>6. n \in Nat /\ n < 65536 /\ (n = 0 => v = 65535)
  BY <1>3, <1>5
<1>7. ASSUME NEW b, WordSum(b) = s + n PROVE Verifies(b)
  <2>1. WordSum(b) = 65535 * (k + 1)
    BY <1>3, <1>4, <1>5, <1>7
  <2>2. \A j \in Nat : (65535 * j) % 65535 = 0
    BY SMT
  <2> QED BY <2>1, <2>2 DEF Verifies
<1>8. AsComputed(n) = IF n = 0 THEN 65535 ELSE n
  BY DEF AsComputed
<1>9. ASSUME NEW b, WordSum(b) = s + AsComputed(n) PROVE Verifies(b)
  <2>1. CASE n # 0
    BY <1>7, <1>8, <1>9, <2>1
  <2>2. CASE n = 0
    <3>1. WordSum(b) = 65535 * (k + 2)
      BY <1>4, <1>6, <1>8, <1>9, <2>2
    <3>2. \A j \in Nat : (65535 * j) % 65535 = 0
      BY SMT
    <3> QED BY <3>1, <3>2 DEF Verifies
  <2> QED BY <2>1, <2>2
<1>10. Fits(n)
  BY <1>6 DEF Fits, Uint16s
<1>11. Fits(AsComputed(n)) /\ AsComputed(n) # 0 /\ AsComputed(n) \in Nat
  BY <1>6, <1>8, SMT DEF Fits, Uint16s
<1> QED BY <1>1, <1>6, <1>7, <1>9, <1>10, <1>11

(***************************************************************************)
(* What an uplink is made of                                               *)
(***************************************************************************)

\* A field that is still to be computed
Blank == <<0, 0>>

\* It adds nothing to a sum.
LEMMA BlankWord == Part(Blank, 2) /\ WordSum(Blank) = 0
<1>1. Part(Blank, 2)
  BY DEF Blank, Part, Octet
<1>2. Uint16(Blank, 0) = 0
  BY DEF Blank, Uint16, At
<1> QED BY <1>1, <1>2, SumOfWord

\* The word of a number is that number.
LEMMA NumberWord ==
    ASSUME NEW n, Fits(n)
    PROVE  Part(Octets(n, 2), 2) /\ WordSum(Octets(n, 2)) = n /\ Uint16(Octets(n, 2), 0) = n
<1>1. PICK o : o = Octets(n, 2)
  OBVIOUS
<1>2. Part(o, 2)
  <2>1. n \in Nat /\ 2 \in 1..4
    BY FitsNat
  <2> QED BY <1>1, <2>1, OctetsType DEF Part
<1>3. Holds(o, 0, Octets(n, 2))
  BY <1>1, <1>2, HoldsSelf DEF Part
<1>4. Uint16(o, 0) = n
  BY <1>3, HoldsWord
<1> QED BY <1>1, <1>2, <1>4, SumOfWord

\* A part of what comes first
LEMMA HoldsFirst ==
    ASSUME NEW b, NEW s, NEW q, NEW t, Holds(b, 0, s), Holds(s, q, t)
    PROVE  Holds(b, q, t)
<1>1. ASSUME NEW i \in 1..Len(t) PROVE b[q + i] = t[i]
  <2>1. q + i \in 1..Len(s) /\ 0 + (q + i) = q + i
    BY DEF Holds
  <2> QED BY <2>1 DEF Holds
<1> QED BY <1>1 DEF Holds

\* A string of two parts
JoinedTwo(b, s, t) == b = s \o t

\* Each part lies where it begins.
LEMMA TwoLaid ==
    ASSUME NEW s \in Seq(Octet), NEW t \in Seq(Octet), NEW b, JoinedTwo(b, s, t)
    PROVE  /\ b \in Seq(Octet) /\ Len(b) = Len(s) + Len(t)
           /\ Holds(b, 0, s) /\ Holds(b, Len(s), t)
           /\ \A k \in Nat : Len(s) = 2 * k => WordSum(b) = WordSum(s) + WordSum(t)
<1>1. b = s \o t
  BY DEF JoinedTwo
<1>2. b \in Seq(Octet) /\ Len(b) = Len(s) + Len(t)
  BY <1>1, JoinedType, JoinedLen, Zenon
<1>3. Holds(b, 0, s) /\ Holds(b, Len(s), t)
  <2>1. Holds(b, 0, s \o t)
    BY <1>1, <1>2, HoldsSelf, Zenon
  <2> QED BY <2>1, PartsLie, Zenon
<1>4. ASSUME NEW k \in Nat, Len(s) = 2 * k PROVE WordSum(b) = WordSum(s) + WordSum(t)
  BY <1>1, <1>4, SumJoined
<1> QED BY <1>2, <1>3, <1>4, Zenon

\* Two parts, the first of an even length, and where they lie
IsEven(n) == \E k \in Nat : n = 2 * k

LaidTwo(b, n, s, t) ==
    /\ b \in Seq(Octet) /\ Len(b) = n + Len(t) /\ Holds(b, 0, s) /\ Holds(b, n, t)
    /\ WordSum(b) = WordSum(s) + WordSum(t)

\* The first of the two has a known even length.
LEMMA TwoSummed ==
    ASSUME NEW n, IsEven(n), NEW s, Part(s, n), NEW t \in Seq(Octet), NEW b, JoinedTwo(b, s, t)
    PROVE  LaidTwo(b, n, s, t)
<1>1. PICK k \in Nat : n = 2 * k
  BY DEF IsEven
<1>2. s \in Seq(Octet) /\ Len(s) = 2 * k /\ Len(s) = n
  BY <1>1 DEF Part
<1> QED BY <1>2, TwoLaid, Zenon DEF LaidTwo

\* A header of four words, and what follows it
JoinedWords(b, a, c, d, e, l) == b = a \o c \o d \o e \o l

\* What its words add up to, and where they lie
SumOfWords(a, c, d, e, l) ==
    (((WordSum(a) + WordSum(c)) + WordSum(d)) + WordSum(e)) + WordSum(l)

WordsLie(b, a, c, d, e, l) ==
    /\ b \in Seq(Octet) /\ Len(b) = 8 + Len(l)
    /\ Holds(b, 0, a) /\ Holds(b, 2, c) /\ Holds(b, 4, d) /\ Holds(b, 6, e) /\ Holds(b, 8, l)
    /\ WordSum(b) = SumOfWords(a, c, d, e, l)

\* The words do lie there, and their sums make up its sum.
LEMMA WordsLaid ==
    ASSUME NEW a, Part(a, 2), NEW c, Part(c, 2), NEW d, Part(d, 2), NEW e, Part(e, 2),
           NEW l \in Seq(Octet), NEW b, JoinedWords(b, a, c, d, e, l)
    PROVE  WordsLie(b, a, c, d, e, l)
<1>0. /\ a \in Seq(Octet) /\ Len(a) = 2 /\ c \in Seq(Octet) /\ Len(c) = 2
      /\ d \in Seq(Octet) /\ Len(d) = 2 /\ e \in Seq(Octet) /\ Len(e) = 2
  BY Zenon DEF Part
<1>1. PICK x2 : x2 = a \o c
  OBVIOUS
<1>2. PICK x3 : x3 = x2 \o d
  OBVIOUS
<1>3. PICK x4 : x4 = x3 \o e
  OBVIOUS
<1>4. JoinedTwo(x2, a, c) /\ JoinedTwo(x3, x2, d) /\ JoinedTwo(x4, x3, e) /\ JoinedTwo(b, x4, l)
  <2>1. b = x4 \o l
    BY <1>1, <1>2, <1>3, Zenon DEF JoinedWords
  <2> QED BY <1>1, <1>2, <1>3, <2>1, Zenon DEF JoinedTwo
<1>5. IsEven(2) /\ IsEven(4) /\ IsEven(6) /\ IsEven(8)
  <2>1. 2 = 2 * 1 /\ 4 = 2 * 2 /\ 6 = 2 * 3 /\ 8 = 2 * 4
    OBVIOUS
  <2> QED BY <2>1 DEF IsEven
<1>6. LaidTwo(x2, 2, a, c)
  BY <1>0, <1>4, <1>5, TwoSummed, Zenon
<1>7. Part(x2, 4)
  BY <1>0, <1>6 DEF Part, LaidTwo
<1>8. LaidTwo(x3, 4, x2, d)
  BY <1>0, <1>4, <1>5, <1>7, TwoSummed, Zenon
<1>9. Part(x3, 6)
  BY <1>0, <1>8 DEF Part, LaidTwo
<1>10. LaidTwo(x4, 6, x3, e)
  BY <1>0, <1>4, <1>5, <1>9, TwoSummed, Zenon
<1>11. Part(x4, 8)
  BY <1>0, <1>10 DEF Part, LaidTwo
<1>12. LaidTwo(b, 8, x4, l)
  BY <1>4, <1>5, <1>11, TwoSummed, Zenon
<1>13. Holds(b, 0, x4) /\ Holds(x4, 0, x3) /\ Holds(x3, 0, x2) /\ Holds(x2, 0, a)
  BY <1>6, <1>8, <1>10, <1>12, Zenon DEF LaidTwo
<1>14. Holds(b, 0, x3)
  BY <1>13, HoldsFirst, Zenon
<1>15. Holds(b, 0, x2)
  BY <1>13, <1>14, HoldsFirst, Zenon
<1>16. Holds(b, 0, a) /\ Holds(b, 2, c) /\ Holds(b, 4, d) /\ Holds(b, 6, e)
  <2>1. Holds(x2, 2, c) /\ Holds(x3, 4, d) /\ Holds(x4, 6, e)
    BY <1>6, <1>8, <1>10, Zenon DEF LaidTwo
  <2>2. Holds(b, 0, a)
    BY <1>13, <1>15, HoldsFirst, Zenon
  <2>3. Holds(b, 2, c)
    BY <1>15, <2>1, HoldsFirst, Zenon
  <2>4. Holds(b, 4, d)
    BY <1>14, <2>1, HoldsFirst, Zenon
  <2>5. Holds(b, 6, e)
    BY <1>13, <2>1, HoldsFirst, Zenon
  <2> QED BY <2>2, <2>3, <2>4, <2>5, Zenon
<1>17. WordSum(b) = SumOfWords(a, c, d, e, l)
  BY <1>6, <1>8, <1>10, <1>12, Zenon DEF SumOfWords, LaidTwo
<1> QED BY <1>12, <1>16, <1>17, Zenon DEF LaidTwo, WordsLie

\* The words of b are those of z and one more.
Adds(z, b, n) == WordSum(b) = WordSum(z) + n

\* A checksum in its place adds itself, in the second word (ICMP) or the fourth (UDP).
LEMMA ChecksumAdds ==
    ASSUME NEW a, Part(a, 2), NEW d, Part(d, 2), NEW e, Part(e, 2), NEW l \in Seq(Octet),
           NEW n, Fits(n), NEW z, NEW b
    PROVE  /\ JoinedWords(z, a, Blank, d, e, l) /\ JoinedWords(b, a, Octets(n, 2), d, e, l) =>
                Adds(z, b, n)
           /\ JoinedWords(z, a, d, e, Blank, l) /\ JoinedWords(b, a, d, e, Octets(n, 2), l) =>
                Adds(z, b, n)
<1>1. WordSum(a) \in Nat /\ WordSum(d) \in Nat /\ WordSum(e) \in Nat /\ WordSum(l) \in Nat
  BY SumType, Zenon DEF Part
<1>2. n \in Nat
  BY FitsNat
<1>3. PICK o : o = Octets(n, 2)
  OBVIOUS
<1>4. Part(o, 2) /\ WordSum(o) = n
  BY <1>3, NumberWord, Zenon
<1>5. ASSUME JoinedWords(z, a, Blank, d, e, l), JoinedWords(b, a, o, d, e, l)
      PROVE  Adds(z, b, n)
  <2>1. WordSum(z) = SumOfWords(a, Blank, d, e, l)
    BY <1>5, BlankWord, WordsLaid, Zenon DEF WordsLie
  <2>2. WordSum(b) = SumOfWords(a, o, d, e, l)
    BY <1>4, <1>5, WordsLaid, Zenon DEF WordsLie
  <2> QED BY <1>1, <1>2, <1>4, <2>1, <2>2, BlankWord DEF SumOfWords, Adds
<1>6. ASSUME JoinedWords(z, a, d, e, Blank, l), JoinedWords(b, a, d, e, o, l)
      PROVE  Adds(z, b, n)
  <2>1. WordSum(z) = SumOfWords(a, d, e, Blank, l)
    BY <1>6, BlankWord, WordsLaid, Zenon DEF WordsLie
  <2>2. WordSum(b) = SumOfWords(a, d, e, o, l)
    BY <1>4, <1>6, WordsLaid, Zenon DEF WordsLie
  <2> QED BY <1>1, <1>2, <1>4, <2>1, <2>2, BlankWord DEF SumOfWords, Adds
<1> QED BY <1>3, <1>5, <1>6, Zenon

\* What the upper layer of the peer asks of a UDP datagram, and of an echo request
LEMMA UDPReads ==
    ASSUME NEW src, NEW dst, NEW u, Uint16(u, 4) = Len(u),
           IF Uint16(u, 6) = 0 THEN Is4(src)
             ELSE ~Is4(src) /\ Verifies(PseudoHeader(src, dst, UDP, u) \o u)
    PROVE  UpperReads(src, dst, UDP, u)
             = {<<"udp", Uint16(u, 0), Uint16(u, 2), Slice(u, 8, Len(u))>>}
<1>1. UDP # ICMP /\ UDP # ICMPv6
  BY DEF UDP, ICMP, ICMPv6
<1> QED BY <1>1, Zenon DEF UpperReads, PseudoHeader

\* An echo request over IPv4
LEMMA EchoReadsFour ==
    ASSUME NEW src, NEW dst, NEW u, At(u, 0) = 8, Verifies(u)
    PROVE  UpperReads(src, dst, ICMP, u)
             = {<<"icmp", Uint16(u, 4), Uint16(u, 6), Slice(u, 8, Len(u))>>}
<1>1. ICMP # UDP
  BY DEF UDP, ICMP
<1> QED BY <1>1, Zenon DEF UpperReads

\* And one over IPv6, with the pseudo header in its sum
LEMMA EchoReadsSix ==
    ASSUME NEW src, NEW dst, NEW u, At(u, 0) = 128,
           Verifies(PseudoHeader(src, dst, ICMPv6, u) \o u)
    PROVE  UpperReads(src, dst, ICMPv6, u)
             = {<<"icmp", Uint16(u, 4), Uint16(u, 6), Slice(u, 8, Len(u))>>}
<1>1. ICMPv6 # UDP /\ ICMPv6 # ICMP
  BY DEF UDP, ICMP, ICMPv6
<1>2. PICK c : c = 128
  OBVIOUS
<1>3. At(u, 0) = c
  BY <1>2
<1>4. UpperReads(src, dst, ICMPv6, u) = 
        CASE Verifies(PseudoHeader(src, dst, ICMPv6, u) \o u) /\ At(u, 0) = c ->
              {<<"icmp", Uint16(u, 4), Uint16(u, 6), Slice(u, 8, Len(u))>>}
          [] OTHER -> {}
  BY <1>1, <1>2 DEF UpperReads, PseudoHeader
<1> QED BY <1>3, <1>4, Zenon

\* The pseudo header of IPv6 depends on no more of what follows than its length.
LEMMA PseudoSummed ==
    ASSUME NEW src, Part(src, 16), NEW dst, Part(dst, 16), NEW proto \in Octet,
           NEW z \in Seq(Octet), NEW u \in Seq(Octet), Len(z) = Len(u)
    PROVE  /\ PseudoHeader(src, dst, proto, z) \o z \in Seq(Octet)
           /\ \A n \in Nat : Adds(z, u, n) =>
                Adds(PseudoHeader(src, dst, proto, z) \o z,
                     PseudoHeader(src, dst, proto, u) \o u, n)
<1>1. PICK p : p = PseudoHeader(src, dst, proto, u)
  OBVIOUS
<1>2. p = PseudoHeader(src, dst, proto, z)
  BY <1>1, Zenon DEF PseudoHeader
<1>3. Part(p, 40)
  <2>1. PICK o : o = Octets(Len(u), 4)
    OBVIOUS
  <2>2. PICK w : w = <<0, 0, 0, proto>>
    OBVIOUS
  <2>3. Part(o, 4)
    <3>1. Len(u) \in Nat /\ 4 \in 1..4
      OBVIOUS
    <3> QED BY <2>1, <3>1, OctetsType, Zenon DEF Part
  <2>4. Part(w, 4)
    BY <2>2 DEF Part, Octet
  <2>5. PICK x2 : x2 = src \o dst
    OBVIOUS
  <2>6. PICK x3 : x3 = x2 \o o
    OBVIOUS
  <2>7. p = x3 \o w
    BY <1>1, <2>1, <2>2, <2>5, <2>6, Zenon DEF PseudoHeader
  <2>8. x2 \in Seq(Octet) /\ Len(x2) = Len(src) + Len(dst)
    BY <2>5, JoinedType, JoinedLen, Zenon DEF Part
  <2>9. x3 \in Seq(Octet) /\ Len(x3) = Len(x2) + Len(o)
    BY <2>3, <2>6, <2>8, JoinedType, JoinedLen, Zenon DEF Part
  <2>10. p \in Seq(Octet) /\ Len(p) = Len(x3) + Len(w)
    BY <2>4, <2>7, <2>9, JoinedType, JoinedLen, Zenon DEF Part
  <2>11. Len(src) = 16 /\ Len(dst) = 16 /\ Len(o) = 4 /\ Len(w) = 4
    BY <2>3, <2>4 DEF Part
  <2> QED BY <2>8, <2>9, <2>10, <2>11 DEF Part
<1>4. IsEven(40)
  <2>1. 40 = 2 * 20
    OBVIOUS
  <2> QED BY <2>1 DEF IsEven
<1>5. LaidTwo(p \o z, 40, p, z) /\ LaidTwo(p \o u, 40, p, u)
  <2>1. JoinedTwo(p \o z, p, z) /\ JoinedTwo(p \o u, p, u)
    BY DEF JoinedTwo
  <2> QED BY <1>3, <1>4, <2>1, TwoSummed, Zenon
<1>6. /\ p \o z \in Seq(Octet) /\ WordSum(p \o z) = WordSum(p) + WordSum(z)
      /\ WordSum(p \o u) = WordSum(p) + WordSum(u)
  BY <1>5, Zenon DEF LaidTwo
<1>7. WordSum(p) \in Nat /\ WordSum(z) \in Nat
  BY <1>3, SumType, Zenon DEF Part
<1>8. ASSUME NEW n \in Nat, Adds(z, u, n)
      PROVE  Adds(p \o z, p \o u, n)
  BY <1>6, <1>7, <1>8 DEF Adds
<1> QED BY <1>1, <1>2, <1>6, <1>8, Zenon

\* Two bytes of type and code
TypeWord(a, type) == Part(a, 2) /\ a[1] = type

\* An echo request as it is read at its offsets
EchoLies(u, type, id, seq, l) ==
    /\ u \in Seq(Octet) /\ Len(u) = 8 + Len(l) /\ At(u, 0) = type
    /\ Uint16(u, 4) = id /\ Uint16(u, 6) = seq /\ Slice(u, 8, Len(u)) = l

\* An echo request put together of its words is read as them.
LEMMA EchoLaid ==
    ASSUME NEW type, NEW a, TypeWord(a, type), NEW c, Part(c, 2),
           NEW id, Fits(id), NEW seq, Fits(seq),
           NEW l \in Seq(Octet), NEW u, JoinedWords(u, a, c, Octets(id, 2), Octets(seq, 2), l)
    PROVE  EchoLies(u, type, id, seq, l)
<1>1. Part(a, 2) /\ Part(Octets(id, 2), 2) /\ Part(Octets(seq, 2), 2)
  BY NumberWord, Zenon DEF TypeWord
<1>2. /\ u \in Seq(Octet) /\ Len(u) = 8 + Len(l) /\ Holds(u, 0, a)
      /\ Holds(u, 4, Octets(id, 2)) /\ Holds(u, 6, Octets(seq, 2)) /\ Holds(u, 8, l)
  <2>1. WordsLie(u, a, c, Octets(id, 2), Octets(seq, 2), l)
    BY <1>1, WordsLaid, Zenon
  <2> QED BY <2>1, Zenon DEF WordsLie
<1>3. Uint16(u, 4) = id /\ Uint16(u, 6) = seq
  BY <1>2, HoldsWord, Zenon
<1>4. Slice(u, 8, Len(u)) = l
  <2>1. Between(u, 8, Len(u), l)
    BY <1>2, Zenon DEF Between
  <2> QED BY <2>1, BetweenSlice, Zenon
<1>5. At(u, 0) = type
  <2>1. 0 \in Nat /\ 0 < Len(a) /\ 0 + 0 = 0 /\ At(a, 0) = type
    BY DEF TypeWord, Part, At
  <2>2. At(u, 0 + 0) = At(a, 0)
    BY <1>2, <2>1, HoldsOctet, Zenon
  <2> QED BY <2>1, <2>2, Zenon
<1> QED BY <1>2, <1>3, <1>4, <1>5, Zenon DEF EchoLies

\* A datagram
UDPLies(u, s, d, l, n) ==
    /\ u \in Seq(Octet) /\ Len(u) = 8 + Len(l)
    /\ Uint16(u, 0) = s /\ Uint16(u, 2) = d /\ Uint16(u, 4) = Len(u) /\ Uint16(u, 6) = n
    /\ Slice(u, 8, Len(u)) = l

\* And so is a datagram.
LEMMA UDPLaid ==
    ASSUME NEW s, Fits(s), NEW d, Fits(d), NEW l \in Seq(Octet), Fits(8 + Len(l)), NEW n, Fits(n),
           NEW u, JoinedWords(u, Octets(s, 2), Octets(d, 2), Octets(8 + Len(l), 2), Octets(n, 2), l)
    PROVE  UDPLies(u, s, d, l, n)
<1>0. PICK k : k = 8 + Len(l)
  OBVIOUS
<1>1. /\ Part(Octets(s, 2), 2) /\ Part(Octets(d, 2), 2)
      /\ Part(Octets(k, 2), 2) /\ Part(Octets(n, 2), 2)
  BY <1>0, NumberWord, Zenon
<1>2. JoinedWords(u, Octets(s, 2), Octets(d, 2), Octets(k, 2), Octets(n, 2), l) /\ Fits(k)
  BY <1>0, Zenon
<1>3. /\ u \in Seq(Octet) /\ Len(u) = 8 + Len(l)
      /\ Holds(u, 0, Octets(s, 2)) /\ Holds(u, 2, Octets(d, 2))
      /\ Holds(u, 4, Octets(k, 2)) /\ Holds(u, 6, Octets(n, 2)) /\ Holds(u, 8, l)
  <2>1. WordsLie(u, Octets(s, 2), Octets(d, 2), Octets(k, 2), Octets(n, 2), l)
    BY <1>1, <1>2, WordsLaid, Zenon
  <2> QED BY <2>1, Zenon DEF WordsLie
<1>4. Uint16(u, 0) = s /\ Uint16(u, 2) = d /\ Uint16(u, 4) = k /\ Uint16(u, 6) = n
  BY <1>2, <1>3, HoldsWord, Zenon
<1>5. Slice(u, 8, Len(u)) = l
  <2>1. Between(u, 8, Len(u), l)
    BY <1>3, Zenon DEF Between
  <2> QED BY <2>1, BetweenSlice, Zenon
<1> QED BY <1>0, <1>3, <1>4, <1>5, Zenon DEF UDPLies

(***************************************************************************)
(* The upper layer of an uplink                                            *)
(***************************************************************************)

\* What is sent, as the peer has to read it
EchoOf(u, src, dst, proto, id, seq, l) ==
    /\ u \in Seq(Octet) /\ Len(u) = 8 + Len(l)
    /\ UpperReads(src, dst, proto, u) = {<<"icmp", id, seq, l>>}

\* The checksum of an echo request over IPv4 verifies.
LEMMA EchoFour ==
    ASSUME NEW src, NEW dst, NEW id, Fits(id), NEW seq, Fits(seq), NEW l \in Seq(Octet),
           NEW n, n = onesComplementSum(ICMPEcho(8, <<0, 0>>, id, seq, l))
    PROVE  EchoOf(ICMPEcho(8, Octets(n, 2), id, seq, l), src, dst, ICMP, id, seq, l)
<1>1. PICK z : z = ICMPEcho(8, <<0, 0>>, id, seq, l)
  OBVIOUS
<1>2. PICK u : u = ICMPEcho(8, Octets(n, 2), id, seq, l)
  OBVIOUS
<1>3. PICK a : a = <<8, 0>>
  OBVIOUS
<1>4. /\ JoinedWords(z, a, Blank, Octets(id, 2), Octets(seq, 2), l)
      /\ JoinedWords(u, a, Octets(n, 2), Octets(id, 2), Octets(seq, 2), l)
  BY <1>1, <1>2, <1>3, Zenon DEF JoinedWords, ICMPEcho, Blank
<1>5. Part(a, 2) /\ TypeWord(a, 8)
  BY <1>3 DEF Part, TypeWord, Octet
<1>6. z \in Seq(Octet)
  <2>1. EchoLies(z, 8, id, seq, l)
    BY <1>4, <1>5, BlankWord, EchoLaid, Zenon
  <2> QED BY <2>1, Zenon DEF EchoLies
<1>7. Fits(n) /\ \A b : Adds(z, b, n) => Verifies(b)
  <2>1. n = onesComplementSum(z)
    BY <1>1, Zenon
  <2> QED BY <1>6, <2>1, ChecksumVerifies, Zenon DEF Adds
<1>8. Part(Octets(n, 2), 2) /\ Part(Octets(id, 2), 2) /\ Part(Octets(seq, 2), 2)
  BY <1>7, NumberWord, Zenon
<1>9. Adds(z, u, n)
  BY <1>4, <1>5, <1>7, <1>8, ChecksumAdds, Zenon
<1>10. EchoLies(u, 8, id, seq, l)
  BY <1>4, <1>5, <1>8, EchoLaid, Zenon
<1>11. Verifies(u)
  BY <1>7, <1>9, Zenon
<1>12. UpperReads(src, dst, ICMP, u) = {<<"icmp", id, seq, l>>}
  BY <1>10, <1>11, EchoReadsFour, Zenon DEF EchoLies
<1> QED BY <1>2, <1>10, <1>12, Zenon DEF EchoOf, EchoLies

\* And so does one over IPv6, with the pseudo header.
LEMMA EchoSix ==
    ASSUME NEW src, Part(src, 16), NEW dst, Part(dst, 16), NEW id, Fits(id), NEW seq, Fits(seq),
           NEW l \in Seq(Octet),
           NEW n, n = checksum6(src, dst, ICMPv6, ICMPEcho(128, <<0, 0>>, id, seq, l))
    PROVE  EchoOf(ICMPEcho(128, Octets(n, 2), id, seq, l), src, dst, ICMPv6, id, seq, l)
<1>1. PICK z : z = ICMPEcho(128, <<0, 0>>, id, seq, l)
  OBVIOUS
<1>2. PICK u : u = ICMPEcho(128, Octets(n, 2), id, seq, l)
  OBVIOUS
<1>0. PICK type : type = 128
  OBVIOUS
<1>3. PICK a : a = <<type, 0>>
  OBVIOUS
<1>4. /\ JoinedWords(z, a, Blank, Octets(id, 2), Octets(seq, 2), l)
      /\ JoinedWords(u, a, Octets(n, 2), Octets(id, 2), Octets(seq, 2), l)
  BY <1>0, <1>1, <1>2, <1>3 DEF JoinedWords, ICMPEcho, Blank
<1>5. Part(a, 2) /\ TypeWord(a, type)
  BY <1>0, <1>3 DEF Part, TypeWord, Octet
<1>6. z \in Seq(Octet) /\ Len(z) = 8 + Len(l)
  <2>1. EchoLies(z, type, id, seq, l)
    BY <1>4, <1>5, BlankWord, EchoLaid, Zenon
  <2> QED BY <2>1, Zenon DEF EchoLies
<1>7. PICK y : y = PseudoHeader(src, dst, ICMPv6, z) \o z
  OBVIOUS
<1>8. ICMPv6 \in Octet
  BY DEF ICMPv6, Octet
<1>9. y \in Seq(Octet)
  BY <1>6, <1>7, <1>8, PseudoSummed, Zenon
<1>10. Fits(n) /\ n \in Nat /\ \A b : Adds(y, b, n) => Verifies(b)
  <2>1. n = checksum6(src, dst, ICMPv6, z)
    BY <1>1
  <2>2. n = onesComplementSum(y)
    BY <1>7, <2>1, Zenon DEF checksum6
  <2> QED BY <1>9, <2>2, ChecksumVerifies, Zenon DEF Adds
<1>11. Part(Octets(n, 2), 2) /\ Part(Octets(id, 2), 2) /\ Part(Octets(seq, 2), 2)
  BY <1>10, NumberWord, Zenon
<1>12. Adds(z, u, n)
  BY <1>4, <1>5, <1>10, <1>11, ChecksumAdds, Zenon
<1>13. EchoLies(u, type, id, seq, l)
  BY <1>4, <1>5, <1>11, EchoLaid, Zenon
<1>14. Adds(y, PseudoHeader(src, dst, ICMPv6, u) \o u, n)
  <2>1. Len(z) = Len(u) /\ u \in Seq(Octet)
    BY <1>6, <1>13, Zenon DEF EchoLies
  <2> QED BY <1>6, <1>7, <1>8, <1>10, <1>12, <2>1, PseudoSummed, Zenon
<1>15. Verifies(PseudoHeader(src, dst, ICMPv6, u) \o u)
  BY <1>10, <1>14, Zenon
<1>16. UpperReads(src, dst, ICMPv6, u) = {<<"icmp", id, seq, l>>}
  <2>1. UpperReads(src, dst, ICMPv6, u)
          = {<<"icmp", Uint16(u, 4), Uint16(u, 6), Slice(u, 8, Len(u))>>}
    <3>1. At(u, 0) = 128
      BY <1>0, <1>13 DEF EchoLies
    <3> QED BY <1>15, <3>1, EchoReadsSix
  <2> QED BY <1>13, <2>1, Zenon DEF EchoLies
<1> QED BY <1>2, <1>13, <1>16 DEF EchoOf, EchoLies

\* A datagram, with its ports and its payload
DatagramOf(u, src, dst, s, d, l) ==
    /\ u \in Seq(Octet) /\ Len(u) = 8 + Len(l)
    /\ UpperReads(src, dst, UDP, u) = {<<"udp", s, d, l>>}

\* Over IPv4 a datagram goes without a checksum.
LEMMA UDPFour ==
    ASSUME NEW src, Is4(src), NEW dst, NEW s, Fits(s), NEW d, Fits(d), NEW l \in Seq(Octet),
           Fits(8 + Len(l))
    PROVE  DatagramOf(UDPDatagram(<<0, 0>>, s, d, l), src, dst, s, d, l)
<1>1. PICK u : u = UDPDatagram(<<0, 0>>, s, d, l)
  OBVIOUS
<1>2. Fits(0) /\ Octets(0, 2) = <<0, 0>>
  <2>1. Fits(0)
    BY SmallFits
  <2> QED BY <2>1 DEF Octets, Place
<1>3. JoinedWords(u, Octets(s, 2), Octets(d, 2), Octets(8 + Len(l), 2), Octets(0, 2), l)
  BY <1>1, <1>2, Zenon DEF JoinedWords, UDPDatagram
<1>4. UDPLies(u, s, d, l, 0)
  BY <1>2, <1>3, UDPLaid, Zenon
<1>5. UpperReads(src, dst, UDP, u) = {<<"udp", s, d, l>>}
  BY <1>4, UDPReads, Zenon DEF UDPLies
<1> QED BY <1>1, <1>4, <1>5, Zenon DEF DatagramOf, UDPLies

\* Over IPv6 it has one that verifies, and that is never zero.
LEMMA UDPSix ==
    ASSUME NEW src, Part(src, 16), NEW dst, Part(dst, 16), NEW s, Fits(s), NEW d, Fits(d),
           NEW l \in Seq(Octet), Fits(8 + Len(l)),
           NEW m, m = checksum6(src, dst, UDP, UDPDatagram(<<0, 0>>, s, d, l))
    PROVE  DatagramOf(UDPDatagram(Octets(AsComputed(m), 2), s, d, l), src, dst, s, d, l)
<1>1. PICK z : z = UDPDatagram(<<0, 0>>, s, d, l)
  OBVIOUS
<1>0. PICK n : n = AsComputed(m)
  OBVIOUS
<1>2. PICK u : u = UDPDatagram(Octets(n, 2), s, d, l)
  OBVIOUS
<1>3. Fits(0) /\ Octets(0, 2) = Blank
  <2>1. Fits(0)
    BY SmallFits
  <2> QED BY <2>1 DEF Octets, Place, Blank
<1>k. PICK k : k = 8 + Len(l)
  OBVIOUS
<1>4. /\ JoinedWords(z, Octets(s, 2), Octets(d, 2), Octets(k, 2), Blank, l)
      /\ JoinedWords(u, Octets(s, 2), Octets(d, 2), Octets(k, 2), Octets(n, 2), l)
  BY <1>1, <1>2, <1>k DEF JoinedWords, UDPDatagram, Blank
<1>5. Fits(k)
  BY <1>k, Zenon
<1>6. z \in Seq(Octet) /\ Len(z) = 8 + Len(l)
  <2>1. JoinedWords(z, Octets(s, 2), Octets(d, 2), Octets(8 + Len(l), 2), Octets(0, 2), l)
    BY <1>3, <1>4, <1>k, Zenon
  <2>2. UDPLies(z, s, d, l, 0)
    BY <1>3, <2>1, UDPLaid, Zenon
  <2> QED BY <2>2, Zenon DEF UDPLies
<1>7. PICK y : y = PseudoHeader(src, dst, UDP, z) \o z
  OBVIOUS
<1>8. UDP \in Octet
  BY DEF UDP, Octet
<1>9. y \in Seq(Octet)
  BY <1>6, <1>7, <1>8, PseudoSummed, Zenon
<1>10. Fits(n) /\ n \in Nat /\ n # 0 /\ \A b : Adds(y, b, n) => Verifies(b)
  <2>1. m = checksum6(src, dst, UDP, z)
    BY <1>1, Zenon
  <2>2. m = onesComplementSum(y)
    BY <1>7, <2>1, Zenon DEF checksum6
  <2> QED BY <1>0, <1>9, <2>2, ChecksumVerifies, Zenon DEF Adds
<1>11. /\ Part(Octets(n, 2), 2) /\ Part(Octets(s, 2), 2)
       /\ Part(Octets(d, 2), 2) /\ Part(Octets(k, 2), 2)
  BY <1>5, <1>10, NumberWord, Zenon
<1>12. Adds(z, u, n)
  BY <1>4, <1>10, <1>11, ChecksumAdds, Zenon
<1>13. UDPLies(u, s, d, l, n)
  <2>1. JoinedWords(u, Octets(s, 2), Octets(d, 2), Octets(8 + Len(l), 2), Octets(n, 2), l)
    BY <1>4, <1>k, Zenon
  <2> QED BY <1>10, <2>1, UDPLaid, Zenon
<1>14. Adds(y, PseudoHeader(src, dst, UDP, u) \o u, n)
  <2>1. Len(z) = Len(u) /\ u \in Seq(Octet)
    BY <1>6, <1>13, Zenon DEF UDPLies
  <2> QED BY <1>6, <1>7, <1>8, <1>10, <1>12, <2>1, PseudoSummed, Zenon
<1>15. Verifies(PseudoHeader(src, dst, UDP, u) \o u)
  BY <1>10, <1>14, Zenon
<1>16. ~Is4(src)
  BY DEF Is4, Part
<1>17. UpperReads(src, dst, UDP, u) = {<<"udp", s, d, l>>}
  BY <1>10, <1>13, <1>15, <1>16, UDPReads, Zenon DEF UDPLies
<1> QED BY <1>0, <1>2, <1>13, <1>17, Zenon DEF DatagramOf, UDPLies

(***************************************************************************)
(* The packet and the G-PDU of an uplink                                   *)
(***************************************************************************)

\* The parts of an IPv4 header
JoinedHeader(h, u, v, w, c, s, d) == h = u \o v \o w \o c \o s \o d

\* What they add up to, and where they lie
SumOfHeader(u, v, w, c, s, d) ==
    ((((WordSum(u) + WordSum(v)) + WordSum(w)) + WordSum(c)) + WordSum(s)) + WordSum(d)

HeaderLies(h, u, v, w, c, s, d) ==
    /\ Part(h, 20) /\ Holds(h, 0, u) /\ Holds(h, 2, v) /\ Holds(h, 4, w)
    /\ Holds(h, 12, s) /\ Holds(h, 16, d)
    /\ WordSum(h) = SumOfHeader(u, v, w, c, s, d)

\* The parts do lie there, and their sums make up its sum.
LEMMA HeaderParts ==
    ASSUME NEW u, Part(u, 2), NEW v, Part(v, 2), NEW w, Part(w, 6), NEW c, Part(c, 2),
           NEW s, Part(s, 4), NEW d, Part(d, 4), NEW h, JoinedHeader(h, u, v, w, c, s, d)
    PROVE  HeaderLies(h, u, v, w, c, s, d)
<1>0. /\ u \in Seq(Octet) /\ Len(u) = 2 /\ v \in Seq(Octet) /\ Len(v) = 2
      /\ w \in Seq(Octet) /\ Len(w) = 6 /\ c \in Seq(Octet) /\ Len(c) = 2
      /\ s \in Seq(Octet) /\ Len(s) = 4 /\ d \in Seq(Octet) /\ Len(d) = 4
  BY Zenon DEF Part
<1>1. PICK x2 : x2 = u \o v
  OBVIOUS
<1>2. PICK x3 : x3 = x2 \o w
  OBVIOUS
<1>3. PICK x4 : x4 = x3 \o c
  OBVIOUS
<1>4. PICK x5 : x5 = x4 \o s
  OBVIOUS
<1>5. /\ JoinedTwo(x2, u, v) /\ JoinedTwo(x3, x2, w) /\ JoinedTwo(x4, x3, c) /\ JoinedTwo(x5, x4, s)
      /\ JoinedTwo(h, x5, d)
  <2>1. h = x5 \o d
    BY <1>1, <1>2, <1>3, <1>4, Zenon DEF JoinedHeader
  <2> QED BY <1>1, <1>2, <1>3, <1>4, <2>1, Zenon DEF JoinedTwo
<1>6. IsEven(2) /\ IsEven(4) /\ IsEven(10) /\ IsEven(12) /\ IsEven(16)
  <2>1. 2 = 2 * 1 /\ 4 = 2 * 2 /\ 10 = 2 * 5 /\ 12 = 2 * 6 /\ 16 = 2 * 8
    OBVIOUS
  <2> QED BY <2>1 DEF IsEven
<1>7. LaidTwo(x2, 2, u, v)
  BY <1>0, <1>5, <1>6, TwoSummed, Zenon
<1>8. Part(x2, 4)
  BY <1>0, <1>7 DEF Part, LaidTwo
<1>9. LaidTwo(x3, 4, x2, w)
  BY <1>0, <1>5, <1>6, <1>8, TwoSummed, Zenon
<1>10. Part(x3, 10)
  BY <1>0, <1>9 DEF Part, LaidTwo
<1>11. LaidTwo(x4, 10, x3, c)
  BY <1>0, <1>5, <1>6, <1>10, TwoSummed, Zenon
<1>12. Part(x4, 12)
  BY <1>0, <1>11 DEF Part, LaidTwo
<1>13. LaidTwo(x5, 12, x4, s)
  BY <1>0, <1>5, <1>6, <1>12, TwoSummed, Zenon
<1>14. Part(x5, 16)
  BY <1>0, <1>13 DEF Part, LaidTwo
<1>15. LaidTwo(h, 16, x5, d)
  BY <1>0, <1>5, <1>6, <1>14, TwoSummed, Zenon
<1>16. Part(h, 20)
  BY <1>0, <1>15 DEF Part, LaidTwo
<1>17. /\ Holds(h, 0, x5) /\ Holds(x5, 0, x4) /\ Holds(x4, 0, x3)
       /\ Holds(x3, 0, x2) /\ Holds(x2, 0, u)
  BY <1>7, <1>9, <1>11, <1>13, <1>15, Zenon DEF LaidTwo
<1>18. Holds(x2, 2, v) /\ Holds(x3, 4, w) /\ Holds(x5, 12, s) /\ Holds(h, 16, d)
  BY <1>7, <1>9, <1>13, <1>15, Zenon DEF LaidTwo
<1>19. Holds(h, 0, x4) /\ Holds(h, 12, s)
  <2>1. Holds(h, 0, x4)
    BY <1>17, HoldsFirst, Zenon
  <2>2. Holds(h, 12, s)
    BY <1>17, <1>18, HoldsFirst, Zenon
  <2> QED BY <2>1, <2>2, Zenon
<1>20. Holds(h, 0, x3)
  BY <1>17, <1>19, HoldsFirst, Zenon
<1>21. Holds(h, 0, x2) /\ Holds(h, 4, w)
  <2>1. Holds(h, 0, x2)
    BY <1>17, <1>20, HoldsFirst, Zenon
  <2>2. Holds(h, 4, w)
    BY <1>18, <1>20, HoldsFirst, Zenon
  <2> QED BY <2>1, <2>2, Zenon
<1>22. Holds(h, 0, u) /\ Holds(h, 2, v)
  <2>1. Holds(h, 0, u)
    BY <1>17, <1>21, HoldsFirst, Zenon
  <2>2. Holds(h, 2, v)
    BY <1>18, <1>21, HoldsFirst, Zenon
  <2> QED BY <2>1, <2>2, Zenon
<1>23. WordSum(h) = SumOfHeader(u, v, w, c, s, d)
  BY <1>7, <1>9, <1>11, <1>13, <1>15, Zenon DEF SumOfHeader, LaidTwo
<1> QED BY <1>16, <1>18, <1>19, <1>21, <1>22, <1>23, Zenon DEF HeaderLies

\* What the peer takes for the addresses and the protocol of a packet
OfPacket(t) ==
    IF At(t, 0) = 69 THEN [src |-> Slice(t, 12, 16), dst |-> Slice(t, 16, 20), proto |-> At(t, 9)]
                     ELSE [src |-> Slice(t, 8, 24), dst |-> Slice(t, 24, 40), proto |-> At(t, 6)]

\* t is a packet of these fields, with a header of n octets.
PacketOf(t, n, src, dst, proto, l4) ==
    /\ t \in Seq(Octet) /\ Len(t) = n + Len(l4) /\ IPPayload(t) = {l4}
    /\ OfPacket(t) = [src |-> src, dst |-> dst, proto |-> proto]

\* The IPv4 header is of the peer's liking.
LEMMA PayloadFour ==
    ASSUME NEW t, NEW n, n = 69, At(t, 0) = n, Uint16(t, 2) = Len(t),
           NEW h, Slice(t, 0, 20) = h, Verifies(h), NEW l4, Slice(t, 20, Len(t)) = l4,
           NEW src, Slice(t, 12, 16) = src, NEW dst, Slice(t, 16, 20) = dst,
           NEW proto, At(t, 9) = proto
    PROVE  IPPayload(t) = {l4} /\ OfPacket(t) = [src |-> src, dst |-> dst, proto |-> proto]
<1>1. n # 96
  OBVIOUS
<1>2. IPPayload(t) = {l4}
  BY <1>1, SMT DEF IPPayload
<1>3. OfPacket(t) = [src |-> src, dst |-> dst, proto |-> proto]
  BY SMT DEF OfPacket
<1> QED BY <1>2, <1>3

\* And so is the IPv6 header.
LEMMA PayloadSix ==
    ASSUME NEW t, NEW n, n = 96, At(t, 0) = n, Uint16(t, 4) = Len(t) - 40,
           NEW l4, Slice(t, 40, Len(t)) = l4,
           NEW src, Slice(t, 8, 24) = src, NEW dst, Slice(t, 24, 40) = dst,
           NEW proto, At(t, 6) = proto
    PROVE  IPPayload(t) = {l4} /\ OfPacket(t) = [src |-> src, dst |-> dst, proto |-> proto]
<1>1. n # 69
  OBVIOUS
<1>2. IPPayload(t) = {l4}
  BY <1>1, SMT DEF IPPayload
<1>3. OfPacket(t) = [src |-> src, dst |-> dst, proto |-> proto]
  BY <1>1, SMT DEF OfPacket
<1> QED BY <1>2, <1>3

\* An IPv4 packet verifies, and carries what was put into it.
LEMMA BuiltFour ==
    ASSUME NEW proto \in Octet, NEW src, Part(src, 4), NEW dst, Part(dst, 4),
           NEW l4 \in Seq(Octet), Fits(20 + Len(l4))
    PROVE  PacketOf(buildIPv4(proto, src, dst, l4), 20, src, dst, proto, l4)
<1>0. PICK k : k = 20 + Len(l4)
  OBVIOUS
<1>1. PICK z : z = HeaderIPv4(k, proto, Blank, src, dst)
  OBVIOUS
<1>2. PICK n : n = onesComplementSum(z)
  OBVIOUS
<1>3. PICK h : h = HeaderIPv4(k, proto, Octets(n, 2), src, dst)
  OBVIOUS
<1>4. PICK t : t = h \o l4
  OBVIOUS
<1>5. buildIPv4(proto, src, dst, l4) = t
  BY <1>0, <1>1, <1>2, <1>3, <1>4, SMT DEF buildIPv4, Blank
<1>6. PICK u : u = <<69, 0>>
  OBVIOUS
<1>7. PICK w : w = <<0, 0, 0, 0, 64, proto>>
  OBVIOUS
<1>8. /\ JoinedHeader(z, u, Octets(k, 2), w, Blank, src, dst)
      /\ JoinedHeader(h, u, Octets(k, 2), w, Octets(n, 2), src, dst)
  BY <1>1, <1>3, <1>6, <1>7, SMT DEF JoinedHeader, HeaderIPv4
<1>9. Part(u, 2) /\ u[1] = 69 /\ Part(w, 6) /\ w[6] = proto
  BY <1>6, <1>7 DEF Part, Octet
<1>10. Fits(k) /\ Part(Octets(k, 2), 2) /\ WordSum(Octets(k, 2)) = k
  <2>1. Fits(k)
    BY <1>0
  <2> QED BY <2>1, NumberWord, Zenon
<1>11. HeaderLies(z, u, Octets(k, 2), w, Blank, src, dst)
  BY <1>8, <1>9, <1>10, BlankWord, HeaderParts, Zenon
<1>12. z \in Seq(Octet)
  BY <1>11, Zenon DEF HeaderLies, Part
<1>13. Fits(n) /\ n \in Nat /\ \A b : WordSum(b) = WordSum(z) + n => Verifies(b)
  BY <1>2, <1>12, ChecksumVerifies, Zenon
<1>14. Part(Octets(n, 2), 2) /\ WordSum(Octets(n, 2)) = n
  BY <1>13, NumberWord, Zenon
<1>15. HeaderLies(h, u, Octets(k, 2), w, Octets(n, 2), src, dst)
  BY <1>8, <1>9, <1>10, <1>14, HeaderParts, Zenon
<1>16. WordSum(h) = WordSum(z) + n
  <2>1. /\ WordSum(h) = SumOfHeader(u, Octets(k, 2), w, Octets(n, 2), src, dst)
        /\ WordSum(z) = SumOfHeader(u, Octets(k, 2), w, Blank, src, dst)
    BY <1>11, <1>15, Zenon DEF HeaderLies
  <2>2. /\ WordSum(u) \in Nat /\ WordSum(Octets(k, 2)) \in Nat /\ WordSum(w) \in Nat
        /\ WordSum(src) \in Nat /\ WordSum(dst) \in Nat
    BY <1>9, <1>10, SumType, Zenon DEF Part
  <2>3. PICK o : o = Octets(n, 2)
    OBVIOUS
  <2>4. PICK v : v = Octets(k, 2)
    OBVIOUS
  <2>5. WordSum(o) = n /\ WordSum(v) \in Nat /\ WordSum(Blank) = 0
    BY <1>14, <2>2, <2>3, <2>4, BlankWord, Zenon
  <2>6. /\ WordSum(h) = SumOfHeader(u, v, w, o, src, dst)
        /\ WordSum(z) = SumOfHeader(u, v, w, Blank, src, dst)
    BY <2>1, <2>3, <2>4, Zenon
  <2> QED BY <1>13, <2>2, <2>5, <2>6 DEF SumOfHeader
<1>17. Verifies(h)
  BY <1>13, <1>16, Zenon
<1>18. LaidTwo(t, 20, h, l4)
  <2>1. IsEven(20)
    <3>1. 20 = 2 * 10
      OBVIOUS
    <3> QED BY <3>1 DEF IsEven
  <2>2. JoinedTwo(t, h, l4) /\ Part(h, 20)
    BY <1>4, <1>15, Zenon DEF JoinedTwo, HeaderLies
  <2> QED BY <2>1, <2>2, TwoSummed, Zenon
<1>19. t \in Seq(Octet) /\ Len(t) = k /\ Holds(t, 0, h) /\ Holds(t, 20, l4)
  BY <1>0, <1>18, Zenon DEF LaidTwo
<1>20. /\ Holds(t, 0, u) /\ Holds(t, 2, Octets(k, 2)) /\ Holds(t, 4, w)
       /\ Holds(t, 12, src) /\ Holds(t, 16, dst)
  <2>1. /\ Holds(h, 0, u) /\ Holds(h, 2, Octets(k, 2)) /\ Holds(h, 4, w)
        /\ Holds(h, 12, src) /\ Holds(h, 16, dst)
    BY <1>15, Zenon DEF HeaderLies
  <2>2. Holds(t, 0, u)
    BY <1>19, <2>1, HoldsFirst, Zenon
  <2>3. Holds(t, 2, Octets(k, 2))
    <3>1. PICK o : o = Octets(k, 2)
      OBVIOUS
    <3>2. Holds(t, 0, h) /\ Holds(h, 2, o)
      BY <1>19, <2>1, <3>1, Zenon
    <3>3. Holds(t, 2, o)
      BY <3>2, HoldsFirst, Zenon
    <3> QED BY <3>1, <3>3, Zenon
  <2>4. Holds(t, 4, w)
    BY <1>19, <2>1, HoldsFirst, Zenon
  <2>5. Holds(t, 12, src) /\ Holds(t, 16, dst)
    BY <1>19, <2>1, HoldsFirst, Zenon
  <2> QED BY <2>2, <2>3, <2>4, <2>5, Zenon
<1>21. At(t, 0) = 69
  <2>1. 0 \in Nat /\ 0 < Len(u) /\ 0 + 0 = 0 /\ At(u, 0) = 69
    BY <1>9 DEF Part, At
  <2>2. At(t, 0 + 0) = At(u, 0)
    BY <1>20, <2>1, HoldsOctet, Zenon
  <2> QED BY <2>1, <2>2
<1>22. At(t, 9) = proto
  <2>1. 5 \in Nat /\ 5 < Len(w) /\ 4 + 5 = 9 /\ At(w, 5) = proto
    BY <1>9 DEF Part, At
  <2>2. At(t, 4 + 5) = At(w, 5)
    BY <1>20, <2>1, HoldsOctet, Zenon
  <2> QED BY <2>1, <2>2
<1>23. Uint16(t, 2) = Len(t)
  BY <1>10, <1>19, <1>20, HoldsWord, Zenon
<1>24. /\ Slice(t, 0, 20) = h /\ Slice(t, 20, Len(t)) = l4
       /\ Slice(t, 12, 16) = src /\ Slice(t, 16, 20) = dst
  <2>1. Between(t, 20, Len(t), l4)
    BY <1>0, <1>19, Zenon DEF Between
  <2>2. Between(t, 0, 20, h) /\ Between(t, 12, 16, src) /\ Between(t, 16, 20, dst)
    <3>1. Len(h) = 20 /\ Len(src) = 4 /\ Len(dst) = 4
      BY <1>15, Zenon DEF HeaderLies, Part
    <3>2. 20 = 0 + 20 /\ 16 = 12 + 4 /\ 20 = 16 + 4
      OBVIOUS
    <3> QED BY <1>19, <1>20, <3>1, <3>2 DEF Between
  <2> QED BY <2>1, <2>2, BetweenSlice, Zenon
<1>25. IPPayload(t) = {l4} /\ OfPacket(t) = [src |-> src, dst |-> dst, proto |-> proto]
  BY <1>17, <1>21, <1>22, <1>23, <1>24, PayloadFour
<1> QED BY <1>0, <1>5, <1>19, <1>25, Zenon DEF PacketOf

\* And so does an IPv6 packet.
LEMMA BuiltSix ==
    ASSUME NEW proto \in Octet, NEW src, Part(src, 16), NEW dst, Part(dst, 16),
           NEW l4 \in Seq(Octet), Fits(Len(l4))
    PROVE  PacketOf(buildIPv6(proto, src, dst, l4), 40, src, dst, proto, l4)
<1>0. PICK k : k = Len(l4)
  OBVIOUS
<1>1. PICK t : t = buildIPv6(proto, src, dst, l4)
  OBVIOUS
<1>2. PICK u : u = <<96, 0, 0, 0>>
  OBVIOUS
<1>3. PICK w : w = <<proto, 64>>
  OBVIOUS
<1>4. PICK v : v = Octets(k, 2)
  OBVIOUS
<1>5. JoinedSix(t, u, v, w, src, dst, l4)
  BY <1>0, <1>1, <1>2, <1>3, <1>4, SMT DEF JoinedSix, buildIPv6
<1>6. Part(u, 4) /\ u[1] = 96 /\ Part(w, 2) /\ w[1] = proto
  BY <1>2, <1>3 DEF Part, Octet
<1>7. Part(v, 2) /\ Fits(k) /\ k \in Nat
  <2>1. Fits(k)
    BY <1>0, Zenon
  <2>2. k \in Nat
    BY <1>0
  <2> QED BY <1>4, <2>1, <2>2, NumberWord, Zenon
<1>8. /\ t \in Seq(Octet) /\ Len(t) = 40 + k
      /\ Holds(t, 0, u) /\ Holds(t, 4, v) /\ Holds(t, 6, w) /\ Holds(t, 8, src)
      /\ Holds(t, 24, dst) /\ Holds(t, 40, l4)
  BY <1>0, <1>5, <1>6, <1>7, SixLaid, SMT
<1>9. At(t, 0) = 96
  <2>1. 0 \in Nat /\ 0 < Len(u) /\ 0 + 0 = 0 /\ At(u, 0) = 96
    BY <1>6 DEF Part, At
  <2>2. At(t, 0 + 0) = At(u, 0)
    BY <1>8, <2>1, HoldsOctet
  <2> QED BY <2>1, <2>2
<1>10. At(t, 6) = proto
  <2>1. 0 \in Nat /\ 0 < Len(w) /\ 6 + 0 = 6 /\ At(w, 0) = proto
    BY <1>6 DEF Part, At
  <2>2. At(t, 6 + 0) = At(w, 0)
    BY <1>8, <2>1, HoldsOctet
  <2> QED BY <2>1, <2>2
<1>11. Uint16(t, 4) = Len(t) - 40
  <2>1. Holds(t, 4, v)
    BY <1>8, Zenon
  <2>2. Uint16(t, 4) = k
    BY <1>4, <1>7, <2>1, HoldsWord, Zenon
  <2>3. Len(t) = 40 + k
    BY <1>8, Zenon
  <2> QED BY <1>7, <2>2, <2>3
<1>12. Slice(t, 40, Len(t)) = l4 /\ Slice(t, 8, 24) = src /\ Slice(t, 24, 40) = dst
  <2>1. Between(t, 40, Len(t), l4)
    BY <1>0, <1>8, Zenon DEF Between
  <2>2. Between(t, 8, 24, src) /\ Between(t, 24, 40, dst)
    <3>1. Len(src) = 16 /\ Len(dst) = 16
      BY Zenon DEF Part
    <3>2. 24 = 8 + 16 /\ 40 = 24 + 16
      OBVIOUS
    <3> QED BY <1>8, <3>1, <3>2 DEF Between
  <2> QED BY <2>1, <2>2, BetweenSlice, Zenon
<1>13. IPPayload(t) = {l4} /\ OfPacket(t) = [src |-> src, dst |-> dst, proto |-> proto]
  BY <1>9, <1>10, <1>11, <1>12, PayloadSix
<1> QED BY <1>0, <1>1, <1>8, <1>13, Zenon DEF PacketOf

\* The first eight octets of a G-PDU
GPDUHeader(h, o, n, teid) ==
    /\ Part(h, 8) /\ Holds(h, 0, o) /\ Holds(h, 2, Octets(n, 2)) /\ Holds(h, 4, Octets(teid, 4))

\* What GPDU and GPDUWithQFI begin with is laid out so.
LEMMA GPDUHeaderLaid ==
    ASSUME NEW flags \in Octet, NEW type \in Octet, NEW n, Fits(n), NEW teid \in Uint32s
    PROVE  GPDUHeader(Header(flags, type, n, teid), <<flags, type>>, n, teid)
<1>1. PICK u : u = <<flags, type>>
  OBVIOUS
<1>2. PICK v : v = Octets(n, 2)
  OBVIOUS
<1>3. PICK w : w = Octets(teid, 4)
  OBVIOUS
<1>4. PICK x2 : x2 = u \o v
  OBVIOUS
<1>5. PICK h : h = x2 \o w
  OBVIOUS
<1>6. h = Header(flags, type, n, teid)
  BY <1>1, <1>2, <1>3, <1>4, <1>5, Zenon DEF Header
<1>7. Part(u, 2)
  BY <1>1 DEF Part
<1>8. Part(v, 2)
  BY <1>2, NumberWord, Zenon
<1>9. Part(w, 4)
  <2>1. teid \in Nat /\ 4 \in 1..4
    BY DEF Uint32s
  <2> QED BY <1>3, <2>1, OctetsType DEF Part
<1>10. IsEven(2) /\ IsEven(4)
  <2>1. 2 = 2 * 1 /\ 4 = 2 * 2
    OBVIOUS
  <2> QED BY <2>1 DEF IsEven
<1>11. JoinedTwo(x2, u, v) /\ JoinedTwo(h, x2, w) /\ v \in Seq(Octet) /\ w \in Seq(Octet)
  BY <1>4, <1>5, <1>8, <1>9, Zenon DEF JoinedTwo, Part
<1>12. LaidTwo(x2, 2, u, v)
  BY <1>7, <1>10, <1>11, TwoSummed, Zenon
<1>13. Part(x2, 4)
  BY <1>8, <1>12 DEF Part, LaidTwo
<1>14. LaidTwo(h, 4, x2, w)
  BY <1>10, <1>11, <1>13, TwoSummed, Zenon
<1>15. Part(h, 8)
  BY <1>9, <1>14 DEF Part, LaidTwo
<1>16. Holds(h, 0, x2) /\ Holds(x2, 0, u) /\ Holds(x2, 2, v) /\ Holds(h, 4, w)
  BY <1>12, <1>14, Zenon DEF LaidTwo
<1>17. Holds(h, 0, u) /\ Holds(h, 2, v)
  BY <1>16, HoldsFirst, Zenon
<1> QED BY <1>1, <1>2, <1>3, <1>6, <1>15, <1>16, <1>17, Zenon DEF GPDUHeader

\* b carries t, behind a header that the peer accepts.
Carries(b, n3, teid, t) ==
    /\ TPDU(b, n3) = {t} /\ Uint32(b, 4) = teid /\ (n3 => At(b, 14) = QFI)

\* The T-PDU of a G-PDU that starts as it has to
LEMMA PlainTaken ==
    ASSUME NEW b, Len(b) >= 36, Uint16(b, 2) = Len(b) - 8, Slice(b, 0, 2) = PlainStart
    PROVE  TPDU(b, FALSE) = {Slice(b, 8, Len(b))}
<1>1. PICK sound : sound = (Len(b) >= 36 /\ Uint16(b, 2) = Len(b) - 8)
  OBVIOUS
<1>2. sound
  BY <1>1
<1>3. PICK start : start = (Slice(b, 0, 2) \o Slice(b, 8, 14) \o Slice(b, 15, 16) = UplinkStart)
  OBVIOUS
<1>4. TPDU(b, FALSE) = CASE sound /\ FALSE /\ start -> {Slice(b, 16, Len(b))}
                         [] sound /\ ~FALSE /\ Slice(b, 0, 2) = PlainStart -> {Slice(b, 8, Len(b))}
                         [] OTHER -> {}
  BY <1>1, <1>3, Zenon DEF TPDU
<1> QED BY <1>2, <1>4, Zenon

\* And of one that starts as an uplink on N3 has to
LEMMA UplinkTaken ==
    ASSUME NEW b, Len(b) >= 36, Uint16(b, 2) = Len(b) - 8,
           Slice(b, 0, 2) \o Slice(b, 8, 14) \o Slice(b, 15, 16) = UplinkStart
    PROVE  TPDU(b, TRUE) = {Slice(b, 16, Len(b))}
<1>1. PICK sound : sound = (Len(b) >= 36 /\ Uint16(b, 2) = Len(b) - 8)
  OBVIOUS
<1>2. sound
  BY <1>1
<1>3. PICK start : start = (Slice(b, 0, 2) \o Slice(b, 8, 14) \o Slice(b, 15, 16) = UplinkStart)
  OBVIOUS
<1>4. TPDU(b, TRUE) = CASE sound /\ TRUE /\ start -> {Slice(b, 16, Len(b))}
                        [] sound /\ ~TRUE /\ Slice(b, 0, 2) = PlainStart -> {Slice(b, 8, Len(b))}
                        [] OTHER -> {}
  BY <1>1, <1>3, Zenon DEF TPDU
<1>5. start
  BY <1>3, Zenon
<1> QED BY <1>2, <1>4, <1>5, Zenon

\* What an eNB sends
LEMMA GPDUCarries ==
    ASSUME NEW teid \in Uint32s, NEW t \in Seq(Octet), Fits(Len(t)), Len(t) >= 28
    PROVE  Carries(EncodeGPDU(teid, t), FALSE, teid, t)
<1>1. PICK n : n = Len(t)
  OBVIOUS
<1>2. PICK h : h = Header(48, MsgGPDU, n, teid)
  OBVIOUS
<1>3. PICK o : o = <<48, 255>>
  OBVIOUS
<1>4. PICK b : b = h \o t
  OBVIOUS
<1>5. b = EncodeGPDU(teid, t)
  BY <1>1, <1>2, <1>4, SMT DEF EncodeGPDU
<1>6. n \in Nat /\ Fits(n)
  BY <1>1
<1>7. GPDUHeader(h, o, n, teid)
  <2>1. 48 \in Octet /\ MsgGPDU \in Octet /\ o = <<48, MsgGPDU>>
    BY <1>3 DEF Octet, MsgGPDU
  <2> QED BY <1>2, <1>6, <2>1, GPDUHeaderLaid, Zenon
<1>8. LaidTwo(b, 8, h, t)
  <2>1. IsEven(8)
    <3>1. 8 = 2 * 4
      OBVIOUS
    <3> QED BY <3>1 DEF IsEven
  <2>2. Part(h, 8) /\ JoinedTwo(b, h, t)
    BY <1>4, <1>7, Zenon DEF GPDUHeader, JoinedTwo
  <2> QED BY <2>1, <2>2, TwoSummed, Zenon
<1>9. /\ Holds(b, 0, h) /\ Holds(b, 8, t) /\ b \in Seq(Octet) /\ Len(b) = 8 + n
      /\ Holds(h, 0, o) /\ Holds(h, 2, Octets(n, 2)) /\ Holds(h, 4, Octets(teid, 4))
  BY <1>1, <1>7, <1>8, Zenon DEF GPDUHeader, LaidTwo
<1>10. Slice(b, 0, 2) = o
  <2>1. Holds(b, 0, o)
    BY <1>9, HoldsFirst, Zenon
  <2>2. Len(o) = 2 /\ 2 = 0 + 2
    BY <1>3
  <2>3. Between(b, 0, 2, o)
    BY <2>1, <2>2 DEF Between
  <2> QED BY <2>3, BetweenSlice, Zenon
<1>11. Uint16(b, 2) = n
  <2>1. PICK v : v = Octets(n, 2)
    OBVIOUS
  <2>2. Holds(b, 0, h) /\ Holds(h, 2, v)
    BY <1>9, <2>1, Zenon
  <2>3. Holds(b, 2, v)
    BY <2>2, HoldsFirst, Zenon
  <2> QED BY <1>6, <2>1, <2>3, HoldsWord, Zenon
<1>12. Uint32(b, 4) = teid
  <2>1. PICK v : v = Octets(teid, 4)
    OBVIOUS
  <2>2. Holds(b, 0, h) /\ Holds(h, 4, v)
    BY <1>9, <2>1, Zenon
  <2>3. Holds(b, 4, v)
    BY <2>2, HoldsFirst, Zenon
  <2> QED BY <2>1, <2>3, HoldsLong, Zenon
<1>13. Slice(b, 8, Len(b)) = t
  <2>1. Between(b, 8, Len(b), t)
    BY <1>1, <1>9, Zenon DEF Between
  <2> QED BY <2>1, BetweenSlice, Zenon
<1>14. Len(b) >= 36 /\ Uint16(b, 2) = Len(b) - 8
  BY <1>1, <1>6, <1>9, <1>11
<1>15. TPDU(b, FALSE) = {t}
  <2>1. Slice(b, 0, 2) = PlainStart
    BY <1>3, <1>10 DEF PlainStart
  <2>2. TPDU(b, FALSE) = {Slice(b, 8, Len(b))}
    BY <1>14, <2>1, PlainTaken, Zenon
  <2> QED BY <1>13, <2>2, Zenon
<1> QED BY <1>5, <1>12, <1>15, Zenon DEF Carries

\* What a gNB sends, behind an uplink container
LEMMA GPDUWithQFICarries ==
    ASSUME NEW teid \in Uint32s, NEW t \in Seq(Octet), Fits(Len(t) + 8), Len(t) >= 28
    PROVE  Carries(EncodeGPDUWithQFI(teid, QFI, t), TRUE, teid, t)
<1>1. PICK n : n = Len(t) + 8
  OBVIOUS
<1>2. PICK h : h = Header(52, 255, n, teid)
  OBVIOUS
<1>3. PICK o : o = <<52, 255>>
  OBVIOUS
<1>e. PICK e : e = <<0, 0, 0, 133, 1, 16, 1, 0>>
  OBVIOUS
<1>x. PICK x : x = h \o e
  OBVIOUS
<1>4. PICK b : b = x \o t
  OBVIOUS
<1>5. b = EncodeGPDUWithQFI(teid, QFI, t)
  <2>1. e = <<0, 0, 0, ExtPDUSessionContainer, 1, PduTypeUL * 16, QFI % 64, 0>>
    BY <1>e DEF QFI, PduTypeUL, ExtPDUSessionContainer
  <2>2. h = Header(52, MsgGPDU, n, teid)
    BY <1>2 DEF MsgGPDU
  <2>3. EncodeGPDUWithQFI(teid, QFI, t)
          = Header(52, MsgGPDU, Len(t) + 8, teid)
              \o <<0, 0, 0, ExtPDUSessionContainer, 1, PduTypeUL * 16, QFI % 64, 0>> \o t
    BY DEF EncodeGPDUWithQFI
  <2> HIDE DEF QFI
  <2> QED BY <1>1, <1>x, <1>4, <2>1, <2>2, <2>3, Zenon
<1>6. n \in Nat /\ Fits(n)
  BY <1>1
<1>7. GPDUHeader(h, o, n, teid)
  <2>1. 52 \in Octet /\ 255 \in Octet
    BY DEF Octet, MsgGPDU
  <2> QED BY <1>2, <1>3, <1>6, <2>1, GPDUHeaderLaid
<1>8. LaidTwo(x, 8, h, e) /\ LaidTwo(b, 16, x, t)
  <2>1. IsEven(8) /\ IsEven(16)
    <3>1. 8 = 2 * 4 /\ 16 = 2 * 8
      OBVIOUS
    <3> QED BY <3>1 DEF IsEven
  <2>2. Part(e, 8)
    BY <1>e DEF Part, Octet
  <2>3. Part(h, 8) /\ JoinedTwo(x, h, e) /\ JoinedTwo(b, x, t) /\ e \in Seq(Octet)
    BY <1>x, <1>4, <1>7, <2>2 DEF GPDUHeader, JoinedTwo, Part
  <2>4. LaidTwo(x, 8, h, e)
    BY <2>1, <2>3, TwoSummed
  <2>5. Part(x, 16)
    BY <2>2, <2>4 DEF Part, LaidTwo
  <2>6. LaidTwo(b, 16, x, t)
    BY <2>1, <2>3, <2>5, TwoSummed
  <2> QED BY <2>4, <2>6
<1>9. /\ Holds(b, 0, x) /\ Holds(b, 16, t) /\ b \in Seq(Octet) /\ Len(b) = 16 + Len(t)
      /\ Holds(x, 0, h) /\ Holds(x, 8, e)
      /\ Holds(h, 0, o) /\ Holds(h, 2, Octets(n, 2)) /\ Holds(h, 4, Octets(teid, 4))
  BY <1>7, <1>8, SMT DEF GPDUHeader, LaidTwo
<1>h. Holds(b, 0, h) /\ Holds(b, 8, e)
  BY <1>9, HoldsFirst, SMT
<1>10. Slice(b, 0, 2) = o
  <2>1. Holds(b, 0, o)
    BY <1>9, <1>h, HoldsFirst, SMT
  <2>2. Len(o) = 2 /\ 2 = 0 + 2
    BY <1>3
  <2>3. Between(b, 0, 2, o)
    BY <2>1, <2>2 DEF Between
  <2> QED BY <2>3, BetweenSlice, SMT
<1>11. Uint16(b, 2) = n
  <2>1. PICK v : v = Octets(n, 2)
    OBVIOUS
  <2>2. Holds(b, 0, h) /\ Holds(h, 2, v)
    BY <1>9, <1>h, <2>1, SMT
  <2>3. Holds(b, 2, v)
    BY <2>2, HoldsFirst, SMT
  <2> QED BY <1>6, <2>1, <2>3, HoldsWord, SMT
<1>12. Uint32(b, 4) = teid
  <2>1. PICK v : v = Octets(teid, 4)
    OBVIOUS
  <2>2. Holds(b, 0, h) /\ Holds(h, 4, v)
    BY <1>9, <1>h, <2>1, SMT
  <2>3. Holds(b, 4, v)
    BY <2>2, HoldsFirst, SMT
  <2> QED BY <2>1, <2>3, HoldsLong, SMT
<1>13. Slice(b, 16, Len(b)) = t
  <2>1. Between(b, 16, Len(b), t)
    BY <1>9, SMT DEF Between
  <2> QED BY <2>1, BetweenSlice, SMT
<1>14. Len(b) >= 36 /\ Uint16(b, 2) = Len(b) - 8
  <2>1. Len(t) \in Nat
    OBVIOUS
  <2> QED BY <1>1, <1>9, <1>11, <2>1
<1>p. PICK p : p = <<0, 0, 0, 133, 1, 16>>
  OBVIOUS
<1>15. Slice(b, 8, 14) = p
  <2>1. Len(p) = 6 /\ Len(e) = 8 /\ p \in Seq(Octet) /\ \A i \in 1..6 : p[i] = e[i]
    BY <1>p, <1>e DEF Octet
  <2>2. Holds(b, 8, p)
    <3>1. /\ b \in Seq(Octet) /\ 8 \in Nat /\ 8 + Len(e) <= Len(b)
          /\ \A i \in 1..Len(e) : b[8 + i] = e[i]
      BY <1>h DEF Holds

    <3> QED BY <2>1, <3>1 DEF Holds
  <2>3. Between(b, 8, 14, p)
    BY <2>1, <2>2 DEF Between
  <2> QED BY <2>3, BetweenSlice, SMT
<1>16. Slice(b, 15, 16) = <<0>> /\ At(b, 14) = 1
  <2>1. Len(e) = 8 /\ e[8] = 0 /\ e[7] = 1
    BY <1>e
  <2>2. b[8 + 8] = e[8] /\ b[8 + 7] = e[7] /\ b \in Seq(Octet) /\ 16 <= Len(b)
    BY <1>h, <2>1 DEF Holds
  <2>3. b[16] = 0 /\ b[15] = 1
    BY <2>1, <2>2
  <2>4. Between(b, 15, 16, <<0>>)
    BY <2>2, <2>3 DEF Between, Holds, Octet
  <2>5. Slice(b, 15, 16) = <<0>>
    BY <2>4, BetweenSlice, SMT
  <2> QED BY <2>3, <2>5 DEF At
<1>17. (o \o p) \o <<0>> = UplinkStart
  <2>1. PICK z : z = <<0>>
    OBVIOUS
  <2>2. PICK r : r = o \o p
    OBVIOUS
  <2>3. PICK s : s = r \o z
    OBVIOUS
  <2>4. o \in Seq(Octet) /\ Len(o) = 2 /\ o[1] = 52 /\ o[2] = 255
    BY <1>3 DEF Octet
  <2>5. /\ p \in Seq(Octet) /\ Len(p) = 6 /\ p[1] = 0 /\ p[2] = 0 /\ p[3] = 0
        /\ p[4] = 133 /\ p[5] = 1 /\ p[6] = 16
    BY <1>p DEF Octet
  <2>6. z \in Seq(Octet) /\ Len(z) = 1 /\ z[1] = 0
    BY <2>1 DEF Octet
  <2>7. JoinOf(r, o, p)
    BY <2>2, <2>4, <2>5, Joined
  <2>8. r \in Seq(Octet)
    BY <2>2, <2>4, <2>5, JoinedType
  <2>9. JoinOf(s, r, z)
    BY <2>3, <2>6, <2>8, Joined
  <2>10. s \in Seq(Octet)
    BY <2>3, <2>6, <2>8, JoinedType
  <2>11. /\ Len(r) = 8 /\ r[1] = 52 /\ r[2] = 255 /\ r[3] = 0 /\ r[4] = 0 /\ r[5] = 0
         /\ r[6] = 133 /\ r[7] = 1 /\ r[8] = 16
    BY <2>4, <2>5, <2>7 DEF JoinOf
  <2>12. /\ Len(s) = 9 /\ s[1] = 52 /\ s[2] = 255 /\ s[3] = 0 /\ s[4] = 0 /\ s[5] = 0
         /\ s[6] = 133 /\ s[7] = 1 /\ s[8] = 16 /\ s[9] = 0
    BY <2>6, <2>9, <2>11 DEF JoinOf
  <2>13. s = <<52, 255, 0, 0, 0, 133, 1, 16, 0>>
    BY <2>10, <2>12
  <2> QED BY <2>1, <2>2, <2>3, <2>13 DEF UplinkStart
<1>18. TPDU(b, TRUE) = {t}
  <2>1. Slice(b, 0, 2) \o Slice(b, 8, 14) \o Slice(b, 15, 16) = UplinkStart
    BY <1>10, <1>15, <1>16, <1>17, Zenon
  <2>2. TPDU(b, TRUE) = {Slice(b, 16, Len(b))}
    BY <1>14, <2>1, UplinkTaken, Zenon
  <2> QED BY <1>13, <2>2, Zenon
<1> QED BY <1>5, <1>12, <1>16, <1>18, Zenon DEF Carries, QFI

\* The one thing that is read out of b
IsReading(b, n3, teid, src, dst, r) ==
    Reads(b, n3) = {[teid |-> teid, qfi |-> IF n3 THEN {QFI} ELSE {},
                     src |-> src, dst |-> dst, upper |-> r]}

\* One T-PDU, one payload and one reading of it make one uplink.
LEMMA ReadOnce ==
    ASSUME NEW b, NEW n3 \in BOOLEAN, NEW teid, NEW t, Carries(b, n3, teid, t),
           NEW n, NEW src, NEW dst, NEW proto, NEW l4, PacketOf(t, n, src, dst, proto, l4),
           NEW r, UpperReads(src, dst, proto, l4) = {r}
    PROVE  IsReading(b, n3, teid, src, dst, r)
<1> DEFINE read(y, u) ==
             {[teid |-> Uint32(b, 4), qfi |-> IF n3 THEN {At(b, 14)} ELSE {},
               src |-> OfPacket(y).src, dst |-> OfPacket(y).dst, upper |-> v] :
                v \in UpperReads(OfPacket(y).src, OfPacket(y).dst, OfPacket(y).proto, u)}
<1>1. Reads(b, n3) = UNION {UNION {read(y, u) : u \in IPPayload(y)} : y \in TPDU(b, n3)}
  BY Zenon DEF Reads, OfPacket
<1>2. /\ TPDU(b, n3) = {t} /\ Uint32(b, 4) = teid /\ (n3 => At(b, 14) = QFI)
      /\ IPPayload(t) = {l4} /\ OfPacket(t) = [src |-> src, dst |-> dst, proto |-> proto]
  BY Zenon DEF Carries, PacketOf
<1>3. OfPacket(t).src = src /\ OfPacket(t).dst = dst /\ OfPacket(t).proto = proto
  BY <1>2
<1>4. (IF n3 THEN {At(b, 14)} ELSE {}) = IF n3 THEN {QFI} ELSE {}
  BY <1>2, Zenon
<1>5. read(t, l4) = {[teid |-> teid, qfi |-> IF n3 THEN {QFI} ELSE {},
                      src |-> src, dst |-> dst, upper |-> v] : v \in {r}}
  BY <1>2, <1>3, <1>4, Zenon
<1> HIDE DEF read
<1>6. Reads(b, n3) = read(t, l4)
  <2>1. TPDU(b, n3) = {t} /\ IPPayload(t) = {l4}
    BY <1>2, Zenon
  <2>2. UNION {read(t, u) : u \in IPPayload(t)} = read(t, l4)
    BY <2>1
  <2> DEFINE all(y) == UNION {read(y, u) : u \in IPPayload(y)}
  <2>3. Reads(b, n3) = UNION {all(y) : y \in TPDU(b, n3)} /\ all(t) = read(t, l4)
    BY <1>1, <2>2, Zenon
  <2> HIDE DEF all
  <2> QED BY <2>1, <2>3
<1> QED BY <1>5, <1>6 DEF IsReading

(***************************************************************************)
(* What the client asked for                                               *)
(***************************************************************************)

\* The upper layer that a request asks for
UpperAsked(q) ==
    IF q.kind = "udp" THEN <<"udp", SourcePort(q), q.second, q.payload>>
                      ELSE <<"icmp", q.first, q.second, PingPayload>>

\* A packet that fits a G-PDU, and that is read as the request
PacketFits(t) == t \in Seq(Octet) /\ Len(t) >= 28 /\ Fits(Len(t)) /\ Fits(Len(t) + 8)

ReadAs(t, src, dst, r) ==
    /\ PacketFits(t)
    /\ \E n, proto, l4 : /\ PacketOf(t, n, src, dst, proto, l4)
                         /\ UpperReads(src, dst, proto, l4) = {r}

\* A number that is no larger fits too.
LEMMA FitsBelow ==
    ASSUME NEW m, Fits(m), NEW n \in Nat, n <= m
    PROVE  Fits(n)
BY DEF Fits, Uint16s

\* A packet with a header of 20 or 40 octets around what is read
LEMMA PacketMeets ==
    ASSUME NEW n \in {20, 40}, NEW t, NEW src, NEW dst, NEW proto, NEW l4,
           PacketOf(t, n, src, dst, proto, l4), NEW k \in Nat, Len(l4) = 8 + k, Fits(k + 56),
           NEW r, UpperReads(src, dst, proto, l4) = {r}
    PROVE  ReadAs(t, src, dst, r)
<1>1. t \in Seq(Octet) /\ Len(t) = n + (8 + k)
  BY Zenon DEF PacketOf
<1>2. PICK m : m = Len(t)
  OBVIOUS
<1>3. m \in Nat /\ m >= 28 /\ m + 8 \in Nat /\ m <= k + 56 /\ m + 8 <= k + 56
  BY <1>1, <1>2
<1>4. Fits(m) /\ Fits(m + 8)
  BY <1>3, FitsBelow
<1>5. PacketFits(t)
  BY <1>1, <1>2, <1>3, <1>4 DEF PacketFits
<1> QED BY <1>5, Zenon DEF ReadAs

\* A request, as the assumption has it
IsRequest(q) ==
    /\ q.src \cup {q.dst, q.payload} \subseteq Seq(Octet) /\ Len(q.dst) \in {4, 16}
    /\ Fits(q.first) /\ Fits(q.second) /\ Fits(Len(q.payload) + 56)

\* The octets that an echo request carries
LEMMA Ping == PingPayload \in Seq(Octet) /\ Len(PingPayload) = 11
BY DEF PingPayload, Octet

\* A datagram is read as the one asked for, in either family.
LEMMA UDPUplink ==
    ASSUME NEW q, IsRequest(q), q.kind = "udp", NEW src \in Seq(Octet), Len(src) = Len(q.dst)
    PROVE  ReadAs(InnerPacket(src, q), src, q.dst, UpperAsked(q))
<1>1. PICK s : s = SourcePort(q)
  OBVIOUS
<1>2. PICK l : l = q.payload
  OBVIOUS
<1>3. PICK k : k = Len(l)
  OBVIOUS
<1>4. PICK dst : dst = q.dst
  OBVIOUS
<1>5. PICK d : d = q.second
  OBVIOUS
<1>6. l \in Seq(Octet) /\ k \in Nat /\ dst \in Seq(Octet) /\ Fits(d) /\ Fits(k + 56)
  <2>1. l \in Seq(Octet) /\ dst \in Seq(Octet) /\ Fits(d) /\ Fits(k + 56)
    BY <1>2, <1>3, <1>4, <1>5 DEF IsRequest
  <2>2. k \in Nat
    BY <1>3, <2>1
  <2> QED BY <2>1, <2>2
<1>7. Fits(s)
  <2>1. s = IF q.first = 0 THEN 12345 ELSE q.first
    BY <1>1 DEF SourcePort
  <2>2. Fits(12345)
    BY DEF Fits, Uint16s
  <2> QED BY <2>1, <2>2 DEF IsRequest
<1>8. Fits(8 + Len(l)) /\ Fits(20 + (8 + Len(l)))
  <2>1. 8 + k \in Nat /\ 8 + k <= k + 56 /\ 20 + (8 + k) \in Nat /\ 20 + (8 + k) <= k + 56
    BY <1>6
  <2>2. Fits(8 + k) /\ Fits(20 + (8 + k))
    BY <1>6, <2>1, FitsBelow
  <2> QED BY <1>3, <2>2
<1>9. PICK t : t = BuildUDP(src, dst, s, d, l)
  OBVIOUS
<1>10. InnerPacket(src, q) = t /\ UpperAsked(q) = <<"udp", s, d, l>>
  BY <1>1, <1>2, <1>4, <1>5, <1>9, Zenon DEF InnerPacket, UpperAsked
<1>11. UDP \in Octet
  BY DEF UDP, Octet
<1>12. CASE Len(dst) = 4
  <2>1. Part(src, 4) /\ Part(dst, 4) /\ Is4(src)
    BY <1>4, <1>6, <1>12 DEF Part, Is4
  <2>2. PICK u : u = UDPDatagram(<<0, 0>>, s, d, l)
    OBVIOUS
  <2>3. DatagramOf(u, src, dst, s, d, l)
    BY <1>6, <1>7, <1>8, <2>1, <2>2, UDPFour, Zenon
  <2>4. t = buildIPv4(UDP, src, dst, u)
    BY <1>9, <2>1, <2>2, Zenon DEF BuildUDP
  <2>5. /\ u \in Seq(Octet) /\ Len(u) = 8 + Len(l)
        /\ UpperReads(src, dst, UDP, u) = {<<"udp", s, d, l>>}
    BY <2>3, Zenon DEF DatagramOf
  <2>6. Fits(20 + Len(u))
    BY <1>8, <2>5, Zenon
  <2>7. PacketOf(t, 20, src, dst, UDP, u)
    BY <1>11, <2>1, <2>4, <2>5, <2>6, BuiltFour, Zenon
  <2>8. Len(u) = 8 + k /\ 20 \in {20, 40}
    BY <1>3, <2>5, Zenon
  <2>9. ReadAs(t, src, dst, <<"udp", s, d, l>>)
    BY <1>6, <2>5, <2>7, <2>8, PacketMeets
  <2> QED BY <1>4, <1>10, <2>9, Zenon
<1>13. CASE Len(dst) = 16
  <2>1. Part(src, 16) /\ Part(dst, 16) /\ ~Is4(src)
    BY <1>4, <1>6, <1>13 DEF Part, Is4
  <2>2. PICK m : m = checksum6(src, dst, UDP, UDPDatagram(<<0, 0>>, s, d, l))
    OBVIOUS
  <2>u. PICK u : u = UDPDatagram(Octets(AsComputed(m), 2), s, d, l)
    OBVIOUS
  <2>3. DatagramOf(u, src, dst, s, d, l)
    BY <1>6, <1>7, <1>8, <2>1, <2>2, <2>u, UDPSix, Zenon
  <2>4. t = buildIPv6(UDP, src, dst, u)
    BY <1>9, <2>1, <2>2, <2>u, Zenon DEF BuildUDP
  <2>5. /\ u \in Seq(Octet) /\ Len(u) = 8 + Len(l)
        /\ UpperReads(src, dst, UDP, u) = {<<"udp", s, d, l>>}
    BY <2>3, Zenon DEF DatagramOf
  <2>6. Fits(Len(u))
    BY <1>8, <2>5, Zenon
  <2>7. PacketOf(t, 40, src, dst, UDP, u)
    BY <1>11, <2>1, <2>4, <2>5, <2>6, BuiltSix, Zenon
  <2>8. Len(u) = 8 + k /\ 40 \in {20, 40}
    BY <1>3, <2>5, Zenon
  <2>9. ReadAs(t, src, dst, <<"udp", s, d, l>>)
    BY <1>6, <2>5, <2>7, <2>8, PacketMeets
  <2> QED BY <1>4, <1>10, <2>9, Zenon
<1>14. Len(dst) = 4 \/ Len(dst) = 16
  BY <1>4 DEF IsRequest
<1> QED BY <1>12, <1>13, <1>14, Zenon

\* And so is an echo request.
LEMMA EchoUplink ==
    ASSUME NEW q, IsRequest(q), q.kind # "udp", NEW src \in Seq(Octet), Len(src) = Len(q.dst)
    PROVE  ReadAs(InnerPacket(src, q), src, q.dst, UpperAsked(q))
<1>1. PICK id : id = q.first
  OBVIOUS
<1>2. PICK l : l = PingPayload
  OBVIOUS
<1>3. PICK k : k = Len(l)
  OBVIOUS
<1>4. PICK dst : dst = q.dst
  OBVIOUS
<1>5. PICK d : d = q.second
  OBVIOUS
<1>6. l \in Seq(Octet) /\ k \in Nat /\ dst \in Seq(Octet) /\ Fits(id) /\ Fits(d) /\ Fits(k + 56)
  <2>1. dst \in Seq(Octet) /\ Fits(id) /\ Fits(d)
    BY <1>1, <1>4, <1>5 DEF IsRequest
  <2>2. l \in Seq(Octet) /\ k = 11
    BY <1>2, <1>3, Ping
  <2>3. Fits(k + 56)
    BY <2>2 DEF Fits, Uint16s
  <2> QED BY <2>1, <2>2, <2>3
<1>8. Fits(8 + Len(l)) /\ Fits(20 + (8 + Len(l)))
  <2>1. 8 + k \in Nat /\ 8 + k <= k + 56 /\ 20 + (8 + k) \in Nat /\ 20 + (8 + k) <= k + 56
    BY <1>6
  <2>2. Fits(8 + k) /\ Fits(20 + (8 + k))
    BY <1>6, <2>1, FitsBelow
  <2> QED BY <1>3, <2>2
<1>9. PICK t : t = BuildICMPEcho(src, dst, id, d, l)
  OBVIOUS
<1>10. InnerPacket(src, q) = t /\ UpperAsked(q) = <<"icmp", id, d, l>>
  BY <1>1, <1>2, <1>4, <1>5, <1>9, Zenon DEF InnerPacket, UpperAsked
<1>11. ICMP \in Octet /\ ICMPv6 \in Octet
  BY DEF ICMP, ICMPv6, Octet
<1>12. CASE Len(dst) = 4
  <2>1. Part(src, 4) /\ Part(dst, 4) /\ Is4(src)
    BY <1>4, <1>6, <1>12 DEF Part, Is4
  <2>2. PICK n : n = onesComplementSum(ICMPEcho(8, <<0, 0>>, id, d, l))
    OBVIOUS
  <2>u. PICK u : u = ICMPEcho(8, Octets(n, 2), id, d, l)
    OBVIOUS
  <2>3. EchoOf(u, src, dst, ICMP, id, d, l)
    BY <1>6, <2>2, <2>u, EchoFour, Zenon
  <2>4. t = buildIPv4(ICMP, src, dst, u)
    BY <1>9, <2>1, <2>2, <2>u DEF BuildICMPEcho
  <2>5. /\ u \in Seq(Octet) /\ Len(u) = 8 + Len(l)
        /\ UpperReads(src, dst, ICMP, u) = {<<"icmp", id, d, l>>}
    BY <2>3, Zenon DEF EchoOf
  <2>6. Fits(20 + Len(u))
    BY <1>8, <2>5, Zenon
  <2>7. PacketOf(t, 20, src, dst, ICMP, u)
    BY <1>11, <2>1, <2>4, <2>5, <2>6, BuiltFour, Zenon
  <2>8. Len(u) = 8 + k /\ 20 \in {20, 40}
    BY <1>3, <2>5, Zenon
  <2>9. ReadAs(t, src, dst, <<"icmp", id, d, l>>)
    BY <1>6, <2>5, <2>7, <2>8, PacketMeets
  <2> QED BY <1>4, <1>10, <2>9, Zenon
<1>13. CASE Len(dst) = 16
  <2>1. Part(src, 16) /\ Part(dst, 16) /\ ~Is4(src)
    BY <1>4, <1>6, <1>13 DEF Part, Is4
  <2>2. PICK n : n = checksum6(src, dst, ICMPv6, ICMPEcho(128, <<0, 0>>, id, d, l))
    OBVIOUS
  <2>u. PICK u : u = ICMPEcho(128, Octets(n, 2), id, d, l)
    OBVIOUS
  <2>3. EchoOf(u, src, dst, ICMPv6, id, d, l)
    BY <1>6, <2>1, <2>2, <2>u, EchoSix
  <2>4. t = buildIPv6(ICMPv6, src, dst, u)
    BY <1>9, <2>1, <2>2, <2>u DEF BuildICMPEcho
  <2>5. /\ u \in Seq(Octet) /\ Len(u) = 8 + Len(l)
        /\ UpperReads(src, dst, ICMPv6, u) = {<<"icmp", id, d, l>>}
    BY <2>3, Zenon DEF EchoOf
  <2>6. Fits(Len(u))
    BY <1>8, <2>5, Zenon
  <2>7. PacketOf(t, 40, src, dst, ICMPv6, u)
    BY <1>11, <2>1, <2>4, <2>5, <2>6, BuiltSix, Zenon
  <2>8. Len(u) = 8 + k /\ 40 \in {20, 40}
    BY <1>3, <2>5, Zenon
  <2>9. ReadAs(t, src, dst, <<"icmp", id, d, l>>)
    BY <1>6, <2>5, <2>7, <2>8, PacketMeets
  <2> QED BY <1>4, <1>10, <2>9, Zenon
<1>14. Len(dst) = 4 \/ Len(dst) = 16
  BY <1>4 DEF IsRequest
<1> QED BY <1>12, <1>13, <1>14, Zenon

(***************************************************************************)
(* Whose address it is                                                     *)
(***************************************************************************)

\* What an accept can give a UE, as the assumption has it
IsAccept(a) ==
    /\ a.type \in Octet /\ a.v4 \in Seq(Octet) /\ a.iid \in Seq(Octet)
    /\ Len(a.v4) = (IF a.type \in {IPv4, IPv4v6} THEN 4 ELSE 0)
    /\ Len(a.iid) = (IF a.type \in {IPv6, IPv4v6} THEN 8 ELSE 0)

\* A string of no octets adds nothing.
LEMMA EmptyFirst ==
    ASSUME NEW e \in Seq(Octet), Len(e) = 0, NEW s \in Seq(Octet)
    PROVE  e \o s = s
<1>1. PICK j : j = e \o s
  OBVIOUS
<1>2. JoinOf(j, e, s) /\ j \in Seq(Octet)
  BY <1>1, Joined, JoinedType, Zenon
<1>3. Len(j) = Len(s) /\ \A i \in 1..Len(s) : j[i] = s[i]
  BY <1>2 DEF JoinOf
<1>4. j = s
  BY <1>2, <1>3, SeqEqual
<1> QED BY <1>1, <1>4, Zenon

\* No octets make no address.
LEMMA AddressLen ==
    ASSUME NEW ip, IsAddress(ip)
    PROVE  (Len(ip) = 4 \/ Len(ip) = 16) /\ ip # <<>>
<1>1. Len(ip) = 4 \/ Len(ip) = 16
  BY DEF IsAddress
<1> QED BY <1>1

\* An address that a gNB keeps is the IPv4 address of the accept.
LEMMA KeptByGNB ==
    ASSUME NEW a, IsAccept(a), NEW ip, ip = PDUAddress(a.type, PDUAddressIE(a)), IsAddress(ip)
    PROVE  ip = a.v4
<1>1. PICK v : v = a.v4
  OBVIOUS
<1>2. PICK i : i = a.iid
  OBVIOUS
<1>3. PICK o : o = i \o v
  OBVIOUS
<1>4. PICK z : z = Zeros(12 - Len(o))
  OBVIOUS
<1>5. PICK info : info = o \o z
  OBVIOUS
<1>6. info = PDUAddressIE(a)
  BY <1>1, <1>2, <1>3, <1>4, <1>5, Zenon DEF PDUAddressIE
<1>7. v \in Seq(Octet) /\ i \in Seq(Octet) /\ o \in Seq(Octet) /\ Len(o) = Len(i) + Len(v)
  <2>1. v \in Seq(Octet) /\ i \in Seq(Octet)
    BY <1>1, <1>2 DEF IsAccept
  <2> QED BY <1>3, <2>1, JoinedType, JoinedLen
<1>n. PICK n : n = 12 - Len(o)
  OBVIOUS
<1>8. n \in Nat /\ Len(o) + n = 12
  <2>1. (Len(v) = 4 \/ Len(v) = 0) /\ (Len(i) = 8 \/ Len(i) = 0)
    BY <1>1, <1>2 DEF IsAccept
  <2>2. PICK k : k = Len(o)
    OBVIOUS
  <2>3. k = Len(i) + Len(v)
    BY <1>7, <2>2, Zenon
  <2>4. n = 12 - k
    BY <1>n, <2>2, Zenon
  <2>5. n \in Nat /\ k + n = 12
    <3>1. PICK x : x = Len(i)
      OBVIOUS
    <3>2. PICK y : y = Len(v)
      OBVIOUS
    <3>3. (y = 4 \/ y = 0) /\ (x = 8 \/ x = 0) /\ k = x + y
      BY <2>1, <2>3, <3>1, <3>2, Zenon
    <3>4. k = 12 \/ k = 8 \/ k = 4 \/ k = 0
      BY <3>3
    <3> QED BY <2>4, <3>4
  <2> QED BY <2>2, <2>5, Zenon
<1>9. z \in Seq(Octet) /\ Len(z) = n
  <2>1. z = Zeros(n)
    BY <1>4, <1>n, Zenon
  <2>2. z = [k \in 1..n |-> 0]
    BY <2>1, Zenon DEF Zeros
  <2>3. z \in Seq(Octet)
    BY <1>8, <2>1, ZerosType, Zenon
  <2> QED BY <1>8, <2>2, <2>3
<1>10. info \in Seq(Octet) /\ Len(info) = 12
  <2>1. info \in Seq(Octet) /\ Len(info) = Len(o) + Len(z)
    BY <1>5, <1>7, <1>9, JoinedType, JoinedLen
  <2> QED BY <1>8, <1>9, <2>1
<1>11. Holds(info, 0, o)
  <2>1. Holds(info, 0, o \o z)
    BY <1>5, <1>10, HoldsSelf
  <2> QED BY <1>7, <1>9, <2>1, PartsLie
<1>12. IPv4 # IPv6 /\ IPv4 # IPv4v6 /\ IPv6 # IPv4v6
  BY DEF IPv4, IPv6, IPv4v6
<1>13. CASE a.type = IPv4
  <2>1. Len(i) = 0 /\ Len(v) = 4
    BY <1>1, <1>2, <1>12, <1>13 DEF IsAccept
  <2>2. o = v
    BY <1>3, <1>7, <2>1, EmptyFirst
  <2>3. Between(info, 0, 4, v)
    BY <1>11, <2>1, <2>2 DEF Between
  <2>4. Slice(info, 0, 4) = v
    BY <2>3, BetweenSlice, Zenon
  <2>5. ip = Slice(info, 0, 4)
    BY <1>6, <1>12, <1>13, Zenon DEF PDUAddress
  <2> QED BY <1>1, <2>4, <2>5, Zenon
<1>14. CASE a.type = IPv4v6
  <2>1. Len(i) = 8 /\ Len(v) = 4
    BY <1>1, <1>2, <1>12, <1>14 DEF IsAccept
  <2>2. Holds(o, 8, v)
    <3>1. Holds(o, 0, i \o v)
      BY <1>3, <1>7, HoldsSelf
    <3> QED BY <1>7, <2>1, <3>1, PartsLie
  <2>3. Holds(info, 8, v)
    BY <1>11, <2>2, HoldsFirst, Zenon
  <2>4. Between(info, 8, 12, v)
    BY <2>1, <2>3 DEF Between
  <2>5. Slice(info, 8, 12) = v
    BY <2>4, BetweenSlice, Zenon
  <2>6. ip = Slice(info, 8, 12)
    BY <1>6, <1>12, <1>14, Zenon DEF PDUAddress
  <2> QED BY <1>1, <2>5, <2>6, Zenon
<1>15. CASE a.type \notin {IPv4, IPv4v6}
  <2>1. ip = info \/ ip = <<>>
    BY <1>6, <1>15, Zenon DEF PDUAddress
  <2>2. ~IsAddress(info)
    <3>1. Len(info) # 4 /\ Len(info) # 16
      BY <1>10
    <3> QED BY <3>1, AddressLen, Zenon
  <2>3. ip # <<>>
    BY AddressLen, Zenon
  <2> QED BY <2>1, <2>2, <2>3, Zenon
<1> QED BY <1>13, <1>14, <1>15, Zenon

\* And so is one that an eNB keeps.
LEMMA KeptByENB ==
    ASSUME NEW a, IsAccept(a), NEW ip, ip = ueIPFromPDNAddress(PDNAddressIE(a)), IsAddress(ip)
    PROVE  ip = a.v4
<1>1. PICK v : v = a.v4
  OBVIOUS
<1>2. PICK i : i = a.iid
  OBVIOUS
<1>3. PICK y : y = <<a.type>>
  OBVIOUS
<1>4. PICK o : o = y \o i
  OBVIOUS
<1>5. PICK b : b = o \o v
  OBVIOUS
<1>6. b = PDNAddressIE(a)
  BY <1>1, <1>2, <1>3, <1>4, <1>5, Zenon DEF PDNAddressIE
<1>7. v \in Seq(Octet) /\ i \in Seq(Octet) /\ Part(y, 1) /\ y[1] = a.type
  BY <1>1, <1>2, <1>3 DEF IsAccept, Part
<1>8. o \in Seq(Octet) /\ Len(o) = 1 + Len(i) /\ y \in Seq(Octet) /\ Len(y) = 1
  BY <1>4, <1>7, JoinedType, JoinedLen DEF Part
<1>9. b \in Seq(Octet)
  BY <1>5, <1>7, <1>8, JoinedType
<1>10. Holds(b, 0, o) /\ Holds(b, Len(o), v)
  <2>1. Holds(b, 0, o \o v)
    BY <1>5, <1>9, HoldsSelf
  <2> QED BY <1>7, <1>8, <2>1, PartsLie
<1>11. At(b, 0) = a.type
  <2>1. Holds(o, 0, y \o i)
    BY <1>4, <1>8, HoldsSelf
  <2>2. Holds(o, 0, y)
    BY <1>7, <1>8, <2>1, PartsLie
  <2>3. Holds(b, 0, y)
    BY <1>10, <2>2, HoldsFirst, Zenon
  <2>4. 0 \in Nat /\ 0 < Len(y) /\ 0 + 0 = 0 /\ At(y, 0) = a.type
    BY <1>7, <1>8 DEF At
  <2>5. At(b, 0 + 0) = At(y, 0)
    BY <2>3, <2>4, HoldsOctet
  <2> QED BY <2>4, <2>5
<1>12. ip = IF Len(b) < 5 \/ At(b, 0) # IPv4 THEN <<>> ELSE Slice(b, 1, 5)
  BY <1>6, Zenon DEF ueIPFromPDNAddress
<1>13. ip # <<>>
  BY AddressLen, Zenon
<1>14. a.type = IPv4 /\ ip = Slice(b, 1, 5)
  BY <1>11, <1>12, <1>13, Zenon
<1>15. Len(i) = 0 /\ Len(v) = 4
  <2>1. IPv4 # IPv6 /\ IPv4 # IPv4v6
    BY DEF IPv4, IPv6, IPv4v6
  <2> QED BY <1>1, <1>2, <1>14, <2>1 DEF IsAccept
<1>16. Between(b, 1, 5, v)
  BY <1>8, <1>10, <1>15 DEF Between
<1>17. Slice(b, 1, 5) = v
  BY <1>16, BetweenSlice, Zenon
<1> QED BY <1>1, <1>14, <1>17, Zenon

(***************************************************************************)
(* Every uplink is understood                                              *)
(***************************************************************************)

\* What the assumption says of a request and of an accept
LEMMA RequestsAre == \A q \in Uplinks : IsRequest(q)
BY UserPlaneAssumption, SMT DEF IsRequest, Fits

\* And of an accept
LEMMA AcceptsAre == \A a \in AllAccepts : IsAccept(a)
BY UserPlaneAssumption, SMT DEF AllAccepts, IsAccept

\* The source of a request that is sent: an address, and the UE's own if no other is named
LEMMA SourceIs ==
    ASSUME NEW kind \in Nodes, NEW a \in AllAccepts, NEW q \in Uplinks,
           NEW src, src = Source(KeptIP(kind, a), q), Sendable(src, q)
    PROVE  src \in Seq(Octet) /\ Len(src) = Len(q.dst) /\ src = Source(a.v4, q)
<1>1. IsRequest(q) /\ IsAccept(a)
  BY RequestsAre, AcceptsAre, Zenon
<1>2. Len(src) = Len(q.dst) /\ IsAddress(src)
  BY Zenon DEF Sendable, SameFamily
<1>3. CASE q.src = {}
  <2>1. src = KeptIP(kind, a) /\ Source(a.v4, q) = a.v4
    BY <1>3, Zenon DEF Source
  <2>2. src = a.v4
    <3>1. CASE kind = "gNB"
      <4>1. src = PDUAddress(a.type, PDUAddressIE(a))
        BY <2>1, <3>1, Zenon DEF KeptIP
      <4> QED BY <1>1, <1>2, <4>1, KeptByGNB, Zenon
    <3>2. CASE kind # "gNB"
      <4>1. src = ueIPFromPDNAddress(PDNAddressIE(a))
        BY <2>1, <3>2, Zenon DEF KeptIP
      <4> QED BY <1>1, <1>2, <4>1, KeptByENB, Zenon
    <3> QED BY <3>1, <3>2, Zenon
  <2> QED BY <1>1, <1>2, <2>1, <2>2, Zenon DEF IsAccept
<1>4. CASE q.src # {}
  <2>1. src = (CHOOSE x \in q.src : TRUE) /\ Source(a.v4, q) = (CHOOSE x \in q.src : TRUE)
    BY <1>4, Zenon DEF Source
  <2>2. src \in q.src
    BY <1>4, <2>1, Zenon
  <2>3. q.src \subseteq Seq(Octet)
    BY <1>1 DEF IsRequest
  <2> QED BY <1>2, <2>1, <2>2, <2>3, Zenon
<1> QED BY <1>3, <1>4, Zenon

\* The peer reads out of an uplink what was asked for.
Understood(kind, a, t, q, src) ==
    Reads(Uplink(kind, src, t, q), kind = "gNB") = {Asked(kind, a, t, q)}

\* It does so of every uplink that can be sent.
LEMMA UplinkRead ==
    ASSUME NEW kind \in Nodes, NEW a \in AllAccepts, NEW q \in Uplinks, NEW t \in ULTeids,
           NEW src, src = Source(KeptIP(kind, a), q), Sendable(src, q)
    PROVE  Understood(kind, a, t, q, src)
<1>1. src \in Seq(Octet) /\ Len(src) = Len(q.dst) /\ src = Source(a.v4, q)
  BY SourceIs, Zenon
<1>2. PICK p : p = InnerPacket(src, q)
  OBVIOUS
<1>3. PICK r : r = UpperAsked(q)
  OBVIOUS
<1>4. ReadAs(p, src, q.dst, r)
  BY <1>1, <1>2, <1>3, RequestsAre, UDPUplink, EchoUplink, Zenon
<1>5. p \in Seq(Octet) /\ Len(p) >= 28 /\ Fits(Len(p)) /\ Fits(Len(p) + 8)
  BY <1>4, Zenon DEF ReadAs, PacketFits
<1>6. PICK n, proto, l4 : /\ PacketOf(p, n, src, q.dst, proto, l4)
                          /\ UpperReads(src, q.dst, proto, l4) = {r}
  BY <1>4, Zenon DEF ReadAs
<1>7. t \in Uint32s
  BY UserPlaneAssumption
<1>8. PICK n3 : n3 = (kind = "gNB")
  OBVIOUS
<1>9. n3 \in BOOLEAN
  BY <1>8
<1>10. PICK b : b = Uplink(kind, src, t, q)
  OBVIOUS
<1>11. Carries(b, n3, t, p)
  <2>1. CASE kind = "gNB"
    <3>1. b = EncodeGPDUWithQFI(t, QFI, p)
      BY <1>2, <1>10, <2>1, Zenon DEF Uplink
    <3>2. n3 = TRUE
      BY <1>8, <2>1
    <3>3. Carries(EncodeGPDUWithQFI(t, QFI, p), TRUE, t, p)
      BY <1>5, <1>7, GPDUWithQFICarries, Zenon
    <3> QED BY <3>1, <3>2, <3>3, Zenon
  <2>2. CASE kind # "gNB"
    <3>1. b = EncodeGPDU(t, p)
      BY <1>2, <1>10, <2>2, Zenon DEF Uplink
    <3>2. n3 = FALSE
      BY <1>8, <2>2
    <3>3. Carries(EncodeGPDU(t, p), FALSE, t, p)
      BY <1>5, <1>7, GPDUCarries, Zenon
    <3> QED BY <3>1, <3>2, <3>3, Zenon
  <2> QED BY <2>1, <2>2, Zenon
<1>12. Reads(b, n3) = {[teid |-> t, qfi |-> IF n3 THEN {QFI} ELSE {},
                        src |-> src, dst |-> q.dst, upper |-> r]}
  <2>1. PICK d : d = q.dst
    OBVIOUS
  <2>2. PacketOf(p, n, src, d, proto, l4) /\ UpperReads(src, d, proto, l4) = {r}
    BY <1>6, <2>1, Zenon
  <2>3. IsReading(b, n3, t, src, d, r)
    BY <1>9, <1>11, <2>2, ReadOnce, Zenon
  <2> QED BY <2>1, <2>3, Zenon DEF IsReading
<1>13. Asked(kind, a, t, q)
         = [teid |-> t, qfi |-> IF n3 THEN {QFI} ELSE {}, src |-> src, dst |-> q.dst, upper |-> r]
  <2>1. (IF n3 THEN {QFI} ELSE {}) = (IF kind = "gNB" THEN {QFI} ELSE {})
    BY <1>8, Zenon
  <2>2. Asked(kind, a, t, q) = [teid |-> t, qfi |-> IF kind = "gNB" THEN {QFI} ELSE {},
                                src |-> Source(a.v4, q), dst |-> q.dst, upper |-> UpperAsked(q)]
    BY Zenon DEF Asked, UpperAsked
  <2> QED BY <1>1, <1>3, <2>1, <2>2, Zenon
<1> QED BY <1>8, <1>10, <1>12, <1>13, Zenon DEF Understood

\* Whatever the code sends is understood.
LEMMA SentUnderstood ==
    ASSUME NEW kind \in Nodes, NEW a \in AllAccepts, NEW u \in Sent[kind][a]
    PROVE  u.understood = TRUE
<1>1. Sent[kind][a] = SentFrom(kind, a) /\ UEIP[kind][a] = KeptIP(kind, a)
  BY Zenon DEF Sent, UEIP
<1> DEFINE src(q) == Source(UEIP[kind][a], q)
           what(t, q) ==
             [teid |-> t, request |-> q, understood |->
                Reads(Uplink(kind, src(q), t, q), kind = "gNB") = {Asked(kind, a, t, q)}]
<1>2. SentFrom(kind, a) = {what(t, q) : t \in ULTeids, q \in {q \in Uplinks : Sendable(src(q), q)}}
  BY DEF SentFrom
<1>3. PICK t \in ULTeids, q \in Uplinks : Sendable(src(q), q) /\ u = what(t, q)
  <2> HIDE DEF what, src
  <2> QED BY <1>1, <1>2
<1>4. PICK s : s = src(q)
  OBVIOUS
<1>5. s = Source(KeptIP(kind, a), q) /\ Sendable(s, q)
  BY <1>1, <1>3, <1>4, Zenon
<1>6. Understood(kind, a, t, q, s)
  BY <1>5, UplinkRead, Zenon
<1>7. u.understood = (Reads(Uplink(kind, s, t, q), kind = "gNB") = {Asked(kind, a, t, q)})
  BY <1>3, <1>4, Zenon
<1> QED BY <1>6, <1>7, Zenon DEF Understood

(***************************************************************************)
(* The inductive invariant                                                 *)
(***************************************************************************)

Message == [sent : Datagrams, number : 1..MaxArrivals]

\* The tables have an entry per session, key and request, of the right kind.
TableInv ==
    /\ tunnel \in [Sessions -> SUBSET [teid : Teids, accept : AllAccepts]]
    /\ \A s \in Sessions : \A t \in tunnel[s] : t.teid \in DLTeids[s] /\ t.accept \in Accepts[s]
    /\ queue \in [Keys -> Seq(Message)]
    /\ arrived \in [Keys -> Seq(Message)] /\ returned \in [Keys -> Seq(Message)]
    /\ call \in [Requests -> SUBSET [key : Keys, about : Sessions \cup Peers \cup {"UPF"}]]
    /\ answer = [p \in Requests |-> answer[p]]

OthersInv ==
    /\ node \in Nodes /\ closed \in BOOLEAN /\ owed \in BOOLEAN
    /\ asked \in Seq(Peers) /\ misread \subseteq Uplinks

\* What is queued was sent to the key that it is queued under.
FiledInv ==
    \A k \in Keys : \A i \in DOMAIN queue[k] :
      <<queue[k][i].sent.type, queue[k][i].sent.teid>> = k

\* A request waits once, and one that is about a session on a TEID of the session's.
CallInv ==
    \A p \in Requests : \A c \in call[p] :
      /\ call[p] = {c}
      /\ c.about \in Sessions => \E d \in DLTeids[c.about] : c.key = <<MsgGPDU, d>>

\* No key has seen more arrivals than there were.
CountInv ==
    /\ IsFiniteSet(Arrivals)
    /\ \A k \in Keys : Len(arrived[k]) <= Cardinality(Arrivals)

IInv ==
    /\ TableInv /\ OthersInv /\ FiledInv /\ CallInv /\ CountInv /\ InOrderOnce /\ OwnSessionOnly

\* What is taken from the front of a queue was next to be returned.
LEMMA TakenNext ==
    ASSUME NEW S, NEW r \in Seq(S), NEW q \in Seq(S), q # <<>>
    PROVE  Append(r, Head(q)) \o Tail(q) = r \o q
BY SMT

(***************************************************************************)
(* Every action preserves the invariant                                    *)
(***************************************************************************)

\* Steps that touch no queue keep what is said of the queues.
LEMMA QueuesKept ==
    ASSUME IInv, UNCHANGED <<queue, arrived, returned>>
    PROVE  FiledInv' /\ CountInv' /\ InOrderOnce'
<1>1. UNCHANGED Arrivals
  BY DEF Arrivals
<1> QED BY <1>1 DEF IInv, FiledInv, CountInv, InOrderOnce

\* The set-up or renewal of a session, with a TEID of its own.
LEMMA CapturePreserves ==
    ASSUME IInv, NEW s \in Sessions, Capture(s)
    PROVE  IInv'
<1>1. PICK d \in DLTeids[s], a \in Accepts[s] :
        tunnel' = [tunnel EXCEPT ![s] = {[teid |-> d, accept |-> a]}]
  BY DEF Capture
<1>2. UNCHANGED <<node, queue, closed, call, answer, asked, owed, misread, arrived, returned>>
  BY DEF Capture, outside, history
<1>3. TableInv'
  <2>1. d \in Teids /\ a \in AllAccepts
    BY DEF Teids, AllAccepts
  <2>2. tunnel' \in [Sessions -> SUBSET [teid : Teids, accept : AllAccepts]]
    BY <1>1, <2>1 DEF IInv, TableInv
  <2>3. \A r \in Sessions : \A t \in tunnel'[r] : t.teid \in DLTeids[r] /\ t.accept \in Accepts[r]
    <3> SUFFICES ASSUME NEW r \in Sessions, NEW t \in tunnel'[r]
                 PROVE  t.teid \in DLTeids[r] /\ t.accept \in Accepts[r]
      OBVIOUS
    <3>1. CASE r = s
      <4>1. t = [teid |-> d, accept |-> a]
        BY <1>1, <3>1 DEF IInv, TableInv
      <4> QED BY <3>1, <4>1
    <3>2. CASE r # s
      <4>1. tunnel'[r] = tunnel[r]
        BY <1>1, <3>2 DEF IInv, TableInv
      <4> QED BY <4>1 DEF IInv, TableInv
    <3> QED BY <3>1, <3>2
  <2> QED BY <1>2, <2>2, <2>3 DEF IInv, TableInv
<1>4. OthersInv'
  BY <1>2 DEF IInv, OthersInv
<1>5. CallInv' /\ OwnSessionOnly'
  BY <1>2 DEF IInv, CallInv, OwnSessionOnly
<1> QED BY <1>2, <1>3, <1>4, <1>5, QueuesKept DEF IInv

\* An uplink is one of the requests.
LEMMA SendUplinkPreserves ==
    ASSUME IInv, NEW s \in Sessions, SendUplink(s)
    PROVE  IInv'
<1>1. UNCHANGED <<node, tunnel, queue, closed, call, answer, asked, arrived, returned>>
  BY DEF SendUplink, local, history
<1>2. PICK t \in tunnel[s] : \E u \in Sent[node][t.accept] :
        /\ owed' = (owed \/ (u.understood /\ u.teid = Unknown))
        /\ misread' = misread \cup (IF u.understood THEN {} ELSE {u.request})
  BY DEF SendUplink
<1>3. PICK u \in Sent[node][t.accept] :
        /\ owed' = (owed \/ (u.understood /\ u.teid = Unknown))
        /\ misread' = misread \cup (IF u.understood THEN {} ELSE {u.request})
  BY <1>2
<1>4. node \in Nodes /\ t.accept \in AllAccepts
  BY DEF IInv, OthersInv, TableInv
<1>5. u \in SentFrom(node, t.accept)
  BY <1>3, <1>4 DEF Sent
<1>6. u.request \in Uplinks
  BY <1>5 DEF SentFrom
<1>7. OthersInv'
  BY <1>1, <1>3, <1>6 DEF IInv, OthersInv
<1>8. TableInv'
  BY <1>1 DEF IInv, TableInv
<1>9. CallInv' /\ OwnSessionOnly'
  BY <1>1 DEF IInv, CallInv, OwnSessionOnly
<1> QED BY <1>1, <1>7, <1>8, <1>9, QueuesKept DEF IInv

\* A request that starts to wait fixes its key.
LEMMA WaitPreserves ==
    ASSUME IInv, NEW p \in Requests, NEW k \in Keys,
           NEW about \in Sessions \cup Peers \cup {"UPF"},
           about \in Sessions => \E d \in DLTeids[about] : k = <<MsgGPDU, d>>,
           Wait(p, k, about), asked' \in Seq(Peers)
    PROVE  IInv'
<1>1. /\ call' = [call EXCEPT ![p] = {[key |-> k, about |-> about]}]
      /\ answer' = [answer EXCEPT ![p] = {}]
      /\ UNCHANGED <<node, tunnel, queue, closed, owed, misread, arrived, returned>>
  BY DEF Wait, history
<1> DEFINE c0 == [key |-> k, about |-> about]
<1>2. /\ c0 \in [key : Keys, about : Sessions \cup Peers \cup {"UPF"}]
      /\ c0.key = k /\ c0.about = about
  OBVIOUS
<1> HIDE DEF c0
<1>3. call' = [call EXCEPT ![p] = {c0}]
  BY <1>1 DEF c0
<1>4. call \in [Requests -> SUBSET [key : Keys, about : Sessions \cup Peers \cup {"UPF"}]]
      /\ answer = [q \in Requests |-> answer[q]]
  BY DEF IInv, TableInv
<1>5. /\ call'[p] = {c0} /\ \A q \in Requests \ {p} : call'[q] = call[q]
      /\ answer'[p] = {} /\ \A q \in Requests \ {p} : answer'[q] = answer[q]
  BY <1>1, <1>3, <1>4
<1>6. TableInv'
  <2>1. call' \in [Requests -> SUBSET [key : Keys, about : Sessions \cup Peers \cup {"UPF"}]]
    BY <1>2, <1>3, <1>4
  <2>2. (answer = [q \in Requests |-> answer[q]])'
    BY <1>1, <1>4
  <2> QED BY <1>1, <2>1, <2>2 DEF IInv, TableInv
<1>7. OthersInv'
  BY <1>1 DEF IInv, OthersInv
<1>8. CallInv'
  <2> SUFFICES ASSUME NEW q \in Requests, NEW c \in call'[q]
               PROVE  /\ call'[q] = {c}
                      /\ c.about \in Sessions => \E d \in DLTeids[c.about] : c.key = <<MsgGPDU, d>>
    BY DEF CallInv
  <2>1. CASE q = p
    <3>1. c = c0 /\ call'[q] = {c}
      BY <1>5, <2>1
    <3> QED BY <1>2, <3>1
  <2>2. CASE q # p
    <3>1. call'[q] = call[q]
      BY <1>5, <2>2
    <3> QED BY <3>1 DEF IInv, CallInv
  <2> QED BY <2>1, <2>2
<1>9. OwnSessionOnly'
  <2> SUFFICES ASSUME NEW q \in Requests, NEW a \in answer'[q], a.about \in Sessions
               PROVE  a.got.to = a.about
    BY DEF OwnSessionOnly
  <2>1. q # p
    BY <1>5
  <2>2. answer'[q] = answer[q]
    BY <1>5, <2>1
  <2> QED BY <2>2 DEF IInv, OwnSessionOnly
<1> QED BY <1>1, <1>6, <1>7, <1>8, <1>9, QueuesKept DEF IInv

\* An await on a session waits on the TEID that the session has now.
LEMMA AwaitDownlinkPreserves ==
    ASSUME IInv, NEW p \in Requests, NEW s \in Sessions, AwaitDownlink(p, s)
    PROVE  IInv'
<1>1. PICK t \in tunnel[s] : Wait(p, <<MsgGPDU, t.teid>>, s)
  BY DEF AwaitDownlink
<1>2. t.teid \in DLTeids[s] /\ t.teid \in Teids
  BY DEF IInv, TableInv
<1>3. <<MsgGPDU, t.teid>> \in Keys
  BY <1>2 DEF Keys
<1>4. asked' \in Seq(Peers)
  BY DEF AwaitDownlink, IInv, OthersInv
<1>5. s \in Sessions => \E d \in DLTeids[s] : <<MsgGPDU, t.teid>> = <<MsgGPDU, d>>
  BY <1>2
<1> QED BY <1>1, <1>3, <1>4, <1>5, WaitPreserves

\* An echo waits for the control type.
LEMMA SendGTPUEchoPreserves ==
    ASSUME IInv, NEW p \in Requests, NEW peer \in Peers, SendGTPUEcho(p, peer)
    PROVE  IInv'
<1>1. <<MsgEchoResponse, 0>> \in Keys
  BY DEF Keys
<1>2. peer \notin Sessions
  BY UserPlaneAssumption
<1>3. asked \in Seq(Peers) /\ (asked' = Append(asked, peer) \/ asked' = asked)
  BY DEF SendGTPUEcho, IInv, OthersInv
<1>4. asked' \in Seq(Peers)
  BY <1>3, AppendProperties
<1>5. Wait(p, <<MsgEchoResponse, 0>>, peer)
  BY DEF SendGTPUEcho
<1> QED BY <1>1, <1>2, <1>4, <1>5, WaitPreserves

\* So does an await of an error indication.
LEMMA AwaitErrorIndicationPreserves ==
    ASSUME IInv, NEW p \in Requests, AwaitErrorIndication(p)
    PROVE  IInv'
<1>1. <<MsgErrorIndication, 0>> \in Keys
  BY DEF Keys
<1>2. "UPF" \notin Sessions
  BY UserPlaneAssumption
<1>3. asked' \in Seq(Peers)
  BY DEF AwaitErrorIndication, IInv, OthersInv
<1>4. Wait(p, <<MsgErrorIndication, 0>>, "UPF")
  BY DEF AwaitErrorIndication
<1> QED BY <1>1, <1>2, <1>3, <1>4, WaitPreserves

\* A wait that times out leaves no trace.
LEMMA TimeOutPreserves ==
    ASSUME IInv, NEW p \in Requests, TimeOut(p)
    PROVE  IInv'
<1>1. /\ call' = [call EXCEPT ![p] = {}]
      /\ UNCHANGED <<node, tunnel, queue, closed, answer, asked, owed, misread, arrived, returned>>
  BY DEF TimeOut, outside, history
<1>2. call'[p] = {} /\ \A q \in Requests \ {p} : call'[q] = call[q]
  BY <1>1 DEF IInv, TableInv
<1>3. TableInv'
  BY <1>1 DEF IInv, TableInv
<1>4. CallInv'
  BY <1>2 DEF IInv, CallInv
<1>5. OthersInv' /\ OwnSessionOnly'
  BY <1>1 DEF IInv, OthersInv, OwnSessionOnly
<1> QED BY <1>1, <1>3, <1>4, <1>5, QueuesKept DEF IInv

\* The endpoint is closed.
LEMMA ClosePreserves ==
    ASSUME IInv, Close
    PROVE  IInv'
<1>1. /\ closed' = TRUE
      /\ UNCHANGED <<node, tunnel, queue, call, answer, asked, owed, misread, arrived, returned>>
  BY DEF Close, outside, history
<1>2. TableInv' /\ OthersInv'
  BY <1>1 DEF IInv, TableInv, OthersInv
<1>3. CallInv' /\ OwnSessionOnly'
  BY <1>1 DEF IInv, CallInv, OwnSessionOnly
<1> QED BY <1>1, <1>2, <1>3, QueuesKept DEF IInv

\* A request takes the first message under its key, which was sent to its session.
LEMMA FetchPreserves ==
    ASSUME IInv, NEW p \in Requests, Fetch(p)
    PROVE  IInv'
<1>1. PICK c \in call[p] :
        /\ queue[c.key] # <<>>
        /\ queue' = [queue EXCEPT ![c.key] = Tail(@)]
        /\ returned' = [returned EXCEPT ![c.key] = Append(@, Head(queue[c.key]))]
        /\ answer' = [answer EXCEPT ![p] = {[about |-> c.about, got |-> Head(queue[c.key]).sent,
                                             tells |-> Telling[node][Head(queue[c.key]).sent]]}]
  BY DEF Fetch, Taken
<1>2. /\ call' = [call EXCEPT ![p] = {}]
      /\ UNCHANGED <<node, tunnel, closed, asked, owed, misread, arrived>>
  BY DEF Fetch, outside
<1>3. /\ call \in [Requests -> SUBSET [key : Keys, about : Sessions \cup Peers \cup {"UPF"}]]
      /\ queue \in [Keys -> Seq(Message)] /\ returned \in [Keys -> Seq(Message)]
      /\ arrived \in [Keys -> Seq(Message)] /\ answer = [q \in Requests |-> answer[q]]
  BY DEF IInv, TableInv
<1>4. PICK k \in Keys : k = c.key
  BY <1>3
<1>5. PICK m \in Message : m = Head(queue[k])
  <2>1. queue[k] \in Seq(Message) /\ queue[k] # <<>>
    BY <1>1, <1>3, <1>4
  <2>2. Head(queue[k]) \in Message
    BY <2>1, HeadTailProperties
  <2> QED BY <2>2, Zenon
<1>6. PICK a0 : a0 = [about |-> c.about, got |-> m.sent, tells |-> Telling[node][m.sent]]
  OBVIOUS
<1>7. a0.about = c.about /\ a0.got = m.sent
  BY <1>6
<1>8. /\ queue' = [queue EXCEPT ![k] = Tail(queue[k])]
      /\ returned' = [returned EXCEPT ![k] = Append(returned[k], m)]
      /\ answer' = [answer EXCEPT ![p] = {a0}]
  BY <1>1, <1>3, <1>4, <1>5, <1>6
<1>9. /\ queue'[k] = Tail(queue[k]) /\ returned'[k] = Append(returned[k], m)
      /\ \A l \in Keys \ {k} : queue'[l] = queue[l] /\ returned'[l] = returned[l]
      /\ call'[p] = {} /\ \A q \in Requests \ {p} : call'[q] = call[q]
      /\ answer'[p] = {a0} /\ \A q \in Requests \ {p} : answer'[q] = answer[q]
  BY <1>2, <1>3, <1>8
<1>10. /\ queue[k] \in Seq(Message) /\ returned[k] \in Seq(Message) /\ queue[k] # <<>>
       /\ Tail(queue[k]) \in Seq(Message) /\ Append(returned[k], m) \in Seq(Message)
       /\ DOMAIN Tail(queue[k]) = 1..(Len(queue[k]) - 1) /\ Len(queue[k]) \in Nat \ {0}
       /\ DOMAIN queue[k] = 1..Len(queue[k]) /\ m = queue[k][1]
       /\ \A i \in 1..(Len(queue[k]) - 1) : Tail(queue[k])[i] = queue[k][i + 1]
  <2>1. queue[k] \in Seq(Message) /\ returned[k] \in Seq(Message) /\ queue[k] # <<>>
    BY <1>1, <1>3, <1>4
  <2>2. /\ Tail(queue[k]) \in Seq(Message) /\ Len(Tail(queue[k])) = Len(queue[k]) - 1
        /\ \A i \in 1..Len(Tail(queue[k])) : Tail(queue[k])[i] = queue[k][i + 1]
    BY <2>1, HeadTailProperties
  <2>3. Append(returned[k], m) \in Seq(Message)
    BY <2>1, AppendProperties
  <2>4. Len(queue[k]) \in Nat \ {0} /\ DOMAIN queue[k] = 1..Len(queue[k]) /\ m = queue[k][1]
    BY <1>5, <2>1, EmptySeq, LenProperties
  <2> QED BY <2>1, <2>2, <2>3, <2>4
<1>11. TableInv'
  <2>1. queue' \in [Keys -> Seq(Message)] /\ returned' \in [Keys -> Seq(Message)]
    BY <1>3, <1>8, <1>10
  <2>2. call' \in [Requests -> SUBSET [key : Keys, about : Sessions \cup Peers \cup {"UPF"}]]
    BY <1>2, <1>3
  <2>3. (answer = [q \in Requests |-> answer[q]])'
    BY <1>3, <1>8
  <2> QED BY <1>2, <2>1, <2>2, <2>3 DEF IInv, TableInv
<1>12. OthersInv'
  BY <1>2 DEF IInv, OthersInv
<1>13. FiledInv'
  <2> SUFFICES ASSUME NEW l \in Keys, NEW i \in DOMAIN queue'[l]
               PROVE  <<queue'[l][i].sent.type, queue'[l][i].sent.teid>> = l
    BY DEF FiledInv
  <2>1. CASE l = k
    <3>1. queue'[l] = Tail(queue[k])
      BY <1>9, <2>1, Zenon
    <3>2. i \in 1..(Len(queue[k]) - 1)
      BY <1>10, <3>1, Zenon
    <3>3. i + 1 \in DOMAIN queue[k] /\ queue'[l][i] = queue[k][i + 1]
      BY <1>10, <3>1, <3>2
    <3> QED BY <2>1, <3>3 DEF IInv, FiledInv
  <2>2. CASE l # k
    <3>1. queue'[l] = queue[l]
      BY <1>9, <2>2
    <3> QED BY <3>1 DEF IInv, FiledInv
  <2> QED BY <2>1, <2>2
<1>14. CallInv'
  BY <1>9 DEF IInv, CallInv
<1>15. CountInv'
  <2>1. UNCHANGED Arrivals
    BY <1>2 DEF Arrivals
  <2> QED BY <1>2, <2>1 DEF IInv, CountInv
<1>16. InOrderOnce'
  <2> SUFFICES ASSUME NEW l \in Keys PROVE arrived'[l] = returned'[l] \o queue'[l]
    BY DEF InOrderOnce
  <2>1. arrived'[l] = returned[l] \o queue[l]
    BY <1>2 DEF IInv, InOrderOnce
  <2>2. CASE l = k
    <3>1. Append(returned[k], Head(queue[k])) \o Tail(queue[k]) = returned[k] \o queue[k]
      BY <1>10, TakenNext, Zenon
    <3> QED BY <1>5, <1>9, <2>1, <2>2, <3>1, Zenon
  <2>3. CASE l # k
    BY <1>9, <2>1, <2>3, Zenon
  <2> QED BY <2>2, <2>3
<1>17. OwnSessionOnly'
  <2> SUFFICES ASSUME NEW q \in Requests, NEW a \in answer'[q], a.about \in Sessions
               PROVE  a.got.to = a.about
    BY DEF OwnSessionOnly
  <2>1. CASE q # p
    <3>1. answer'[q] = answer[q]
      BY <1>9, <2>1
    <3> QED BY <3>1 DEF IInv, OwnSessionOnly
  <2>2. CASE q = p
    <3>1. a.about = c.about /\ a.got = m.sent
      BY <1>7, <1>9, <2>2
    <3>2. PICK d \in DLTeids[c.about] : k = <<MsgGPDU, d>>
      BY <1>4, <3>1 DEF IInv, CallInv
    <3>3. <<m.sent.type, m.sent.teid>> = k
      BY <1>10 DEF IInv, FiledInv
    <3>4. m.sent.type = MsgGPDU /\ m.sent.teid = d
      BY <3>2, <3>3
    <3>5. Addressed(m.sent)
      BY DatagramsAddressed DEF Message
    <3>6. m.sent.to \in Sessions /\ d \in DLTeids[m.sent.to]
      BY <3>4, <3>5 DEF Addressed, MsgGPDU, MsgEchoResponse, MsgErrorIndication
    <3> QED BY <3>1, <3>2, <3>6, UserPlaneAssumption
  <2> QED BY <2>1, <2>2
<1> QED BY <1>11, <1>12, <1>13, <1>14, <1>15, <1>16, <1>17 DEF IInv

\* A datagram that arrives is queued once, behind all that came to its key before.
LEMMA ReceivePreserves ==
    ASSUME IInv, NEW x \in Datagrams, Receive(x), owed' \in BOOLEAN, asked' \in Seq(Peers)
    PROVE  IInv'
<1>1. PICK k \in Keys : k = <<x.type, x.teid>> /\ KeyOf(Decoded[x]) = k
  BY FiledWhereSent DEF Receive
<1>2. PICK m : m = [sent |-> x, number |-> Len(arrived[k]) + 1]
  OBVIOUS
<1>3. /\ queue' = [queue EXCEPT ![k] = Append(queue[k], m)]
      /\ arrived' = [arrived EXCEPT ![k] = Append(arrived[k], m)]
      /\ UNCHANGED <<node, tunnel, closed, call, answer, misread, returned>>
      /\ Cardinality(Arrivals) < MaxArrivals
  BY <1>1, <1>2 DEF Receive
<1>4. /\ queue \in [Keys -> Seq(Message)] /\ returned \in [Keys -> Seq(Message)]
      /\ arrived \in [Keys -> Seq(Message)]
  BY DEF IInv, TableInv
<1>5. m \in Message /\ m.sent = x
  <2>1. Len(arrived[k]) \in Nat
    BY <1>4, LenProperties
  <2>2. Len(arrived[k]) <= Cardinality(Arrivals) /\ Cardinality(Arrivals) \in Nat
    BY FS_CardinalityType DEF IInv, CountInv
  <2>3. Len(arrived[k]) + 1 \in 1..MaxArrivals
    BY <1>3, <2>1, <2>2, UserPlaneAssumption
  <2> QED BY <1>2, <2>3 DEF Message
<1>6. /\ queue'[k] = Append(queue[k], m) /\ arrived'[k] = Append(arrived[k], m)
      /\ \A l \in Keys \ {k} : queue'[l] = queue[l] /\ arrived'[l] = arrived[l]
  BY <1>3, <1>4
<1>7. /\ queue[k] \in Seq(Message) /\ returned[k] \in Seq(Message) /\ arrived[k] \in Seq(Message)
      /\ Append(queue[k], m) \in Seq(Message) /\ Append(arrived[k], m) \in Seq(Message)
      /\ DOMAIN queue[k] = 1..Len(queue[k]) /\ Len(queue[k]) \in Nat
      /\ DOMAIN arrived[k] = 1..Len(arrived[k]) /\ Len(arrived[k]) \in Nat
      /\ DOMAIN Append(queue[k], m) = 1..(Len(queue[k]) + 1)
      /\ DOMAIN Append(arrived[k], m) = 1..(Len(arrived[k]) + 1)
      /\ Len(Append(arrived[k], m)) = Len(arrived[k]) + 1
      /\ \A i \in 1..Len(queue[k]) : Append(queue[k], m)[i] = queue[k][i]
      /\ Append(queue[k], m)[Len(queue[k]) + 1] = m
  <2>1. queue[k] \in Seq(Message) /\ returned[k] \in Seq(Message) /\ arrived[k] \in Seq(Message)
    BY <1>4
  <2>2. /\ Append(queue[k], m) \in Seq(Message) /\ Len(Append(queue[k], m)) = Len(queue[k]) + 1
        /\ \A i \in 1..Len(queue[k]) : Append(queue[k], m)[i] = queue[k][i]
        /\ Append(queue[k], m)[Len(queue[k]) + 1] = m
    BY <1>5, <2>1, AppendProperties
  <2>3. /\ Append(arrived[k], m) \in Seq(Message)
        /\ Len(Append(arrived[k], m)) = Len(arrived[k]) + 1
    BY <1>5, <2>1, AppendProperties
  <2>4. /\ DOMAIN queue[k] = 1..Len(queue[k]) /\ Len(queue[k]) \in Nat
        /\ DOMAIN arrived[k] = 1..Len(arrived[k]) /\ Len(arrived[k]) \in Nat
        /\ DOMAIN Append(queue[k], m) = 1..Len(Append(queue[k], m))
        /\ DOMAIN Append(arrived[k], m) = 1..Len(Append(arrived[k], m))
    BY <2>1, <2>2, <2>3, LenProperties, Zenon
  <2> QED BY <2>1, <2>2, <2>3, <2>4
<1>8. TableInv'
  <2>1. queue' \in [Keys -> Seq(Message)] /\ arrived' \in [Keys -> Seq(Message)]
    BY <1>3, <1>4, <1>7
  <2> QED BY <1>3, <2>1 DEF IInv, TableInv
<1>9. OthersInv'
  BY <1>3 DEF IInv, OthersInv
<1>10. FiledInv'
  <2> SUFFICES ASSUME NEW l \in Keys, NEW i \in DOMAIN queue'[l]
               PROVE  <<queue'[l][i].sent.type, queue'[l][i].sent.teid>> = l
    BY DEF FiledInv
  <2>1. CASE l = k /\ i \in DOMAIN queue[k]
    <3>1. queue'[l][i] = queue[k][i]
      BY <1>6, <1>7, <2>1
    <3> QED BY <2>1, <3>1 DEF IInv, FiledInv
  <2>2. CASE l = k /\ i \notin DOMAIN queue[k]
    <3>1. i \in 1..(Len(queue[k]) + 1)
      BY <1>6, <1>7, <2>2
    <3>2. i = Len(queue[k]) + 1
      BY <1>7, <2>2, <3>1
    <3>3. queue'[l][i] = m
      BY <1>6, <1>7, <2>2, <3>2
    <3> QED BY <1>1, <1>5, <2>2, <3>3
  <2>3. CASE l # k
    <3>1. queue'[l] = queue[l]
      BY <1>6, <2>3
    <3> QED BY <3>1 DEF IInv, FiledInv
  <2> QED BY <2>1, <2>2, <2>3
<1>11. CallInv' /\ OwnSessionOnly'
  BY <1>3 DEF IInv, CallInv, OwnSessionOnly
<1>12. CountInv'
  <2> DEFINE n == Len(arrived[k]) + 1
  <2>1. Arrivals' = Arrivals \cup {<<k, n>>} /\ <<k, n>> \notin Arrivals
    <3>1. \A l \in Keys : \A i :
            i \in DOMAIN arrived'[l] <=> i \in DOMAIN arrived[l] \/ (l = k /\ i = n)
      BY <1>6, <1>7
    <3>2. \A e : e \in Arrivals <=> \E l \in Keys : \E i \in DOMAIN arrived[l] : e = <<l, i>>
      BY DEF Arrivals
    <3>3. \A e : e \in Arrivals' <=> \E l \in Keys : \E i \in DOMAIN arrived'[l] : e = <<l, i>>
      BY DEF Arrivals
    <3>4. n \notin DOMAIN arrived[k]
      BY <1>7
    <3> HIDE DEF n
    <3>5. <<k, n>> \notin Arrivals
      BY <3>2, <3>4
    <3>6. Arrivals' = Arrivals \cup {<<k, n>>}
      BY <3>1, <3>2, <3>3
    <3> QED BY <3>5, <3>6
  <2>2. IsFiniteSet(Arrivals) /\ Cardinality(Arrivals) \in Nat
    BY FS_CardinalityType DEF IInv, CountInv
  <2>3. IsFiniteSet(Arrivals') /\ Cardinality(Arrivals') = Cardinality(Arrivals) + 1
    <3> HIDE DEF n
    <3> QED BY <2>1, <2>2, FS_AddElement
  <2>4. \A l \in Keys : Len(arrived'[l]) <= Cardinality(Arrivals')
    <3> SUFFICES ASSUME NEW l \in Keys PROVE Len(arrived'[l]) <= Cardinality(Arrivals')
      OBVIOUS
    <3>1. Len(arrived[l]) <= Cardinality(Arrivals) /\ Len(arrived[l]) \in Nat
      BY <1>4, LenProperties DEF IInv, CountInv
    <3>2. CASE l = k
      <4>1. Len(arrived'[l]) = Len(arrived[l]) + 1
        BY <1>6, <1>7, <3>2, Zenon
      <4> QED BY <2>2, <2>3, <3>1, <4>1
    <3>3. CASE l # k
      <4>1. Len(arrived'[l]) = Len(arrived[l])
        BY <1>6, <3>3, Zenon
      <4> QED BY <2>2, <2>3, <3>1, <4>1
    <3> QED BY <3>2, <3>3
  <2> QED BY <2>3, <2>4 DEF CountInv
<1>13. InOrderOnce'
  <2> SUFFICES ASSUME NEW l \in Keys PROVE arrived'[l] = returned'[l] \o queue'[l]
    BY DEF InOrderOnce
  <2>1. arrived[l] = returned[l] \o queue[l] /\ returned'[l] = returned[l]
    BY <1>3 DEF IInv, InOrderOnce
  <2>2. CASE l = k
    <3>1. PICK r \in Seq(Message) : r = returned[k]
      BY <1>7, Zenon
    <3>2. PICK q \in Seq(Message) : q = queue[k]
      BY <1>7, Zenon
    <3>3. Append(r \o q, m) = r \o Append(q, m)
      BY <1>5, SMT
    <3> QED BY <1>6, <2>1, <2>2, <3>1, <3>2, <3>3, Zenon
  <2>3. CASE l # k
    BY <1>6, <2>1, <2>3, Zenon
  <2> QED BY <2>2, <2>3
<1> QED BY <1>8, <1>9, <1>10, <1>11, <1>12, <1>13 DEF IInv

\* In the beginning nothing has come.
LEMMA InitEstablishes == Init => IInv
<1> SUFFICES ASSUME Init PROVE IInv
  OBVIOUS
<1>1. /\ node \in Nodes /\ tunnel = [s \in Sessions |-> {}] /\ queue = [k \in Keys |-> <<>>]
      /\ arrived = [k \in Keys |-> <<>>] /\ returned = [k \in Keys |-> <<>>] /\ closed = FALSE
      /\ call = [p \in Requests |-> {}] /\ answer = [p \in Requests |-> {}]
      /\ asked = <<>> /\ owed = FALSE /\ misread = {}
  BY DEF Init
<1>2. <<>> \in Seq(Message) /\ <<>> \in Seq(Peers) /\ Len(<<>>) = 0
  BY EmptySeq
<1>3. TableInv
  BY <1>1, <1>2 DEF TableInv
<1>4. OthersInv
  BY <1>1, <1>2 DEF OthersInv
<1>5. FiledInv
  BY <1>1 DEF FiledInv
<1>6. CallInv /\ OwnSessionOnly
  BY <1>1 DEF CallInv, OwnSessionOnly
<1>7. CountInv
  <2>1. Arrivals = {}
    BY <1>1 DEF Arrivals
  <2>2. IsFiniteSet(Arrivals) /\ Cardinality(Arrivals) = 0
    BY <2>1, FS_EmptySet
  <2> QED BY <1>1, <1>2, <2>2 DEF CountInv
<1>8. InOrderOnce
  <2>1. <<>> \o <<>> = <<>>
    BY <1>2, ConcatEmptySeq
  <2> QED BY <1>1, <2>1 DEF InOrderOnce
<1> QED BY <1>3, <1>4, <1>5, <1>6, <1>7, <1>8 DEF IInv

\* Every step preserves the invariant: one lemma per action.
LEMMA NextPreserves == IInv /\ [Next]_vars => IInv'
<1> SUFFICES ASSUME IInv, [Next]_vars PROVE IInv'
  OBVIOUS
<1>1. ASSUME NEW s \in Sessions, Capture(s) \/ SendUplink(s) PROVE IInv'
  BY <1>1, CapturePreserves, SendUplinkPreserves
<1>2. ASSUME NEW p \in Requests, NEW s \in Sessions, AwaitDownlink(p, s) PROVE IInv'
  BY <1>2, AwaitDownlinkPreserves
<1>3. ASSUME NEW p \in Requests, NEW peer \in Peers, SendGTPUEcho(p, peer) PROVE IInv'
  BY <1>3, SendGTPUEchoPreserves
<1>4. ASSUME NEW p \in Requests, AwaitErrorIndication(p) \/ Fetch(p) \/ TimeOut(p) PROVE IInv'
  BY <1>4, AwaitErrorIndicationPreserves, FetchPreserves, TimeOutPreserves
<1>5. ASSUME NEW x \in Datagrams, UPFSends(x) \/ PeerAnswers(x) \/ UPFIndicatesError(x) PROVE IInv'
  <2>1. Receive(x)
    BY <1>5 DEF UPFSends, PeerAnswers, UPFIndicatesError
  <2>2. asked' = asked /\ (owed' = owed \/ owed' = FALSE)
    BY <1>5 DEF UPFSends, PeerAnswers, UPFIndicatesError
  <2>3. asked' \in Seq(Peers) /\ owed' \in BOOLEAN
    BY <2>2 DEF IInv, OthersInv
  <2> QED BY <2>1, <2>3, ReceivePreserves
<1>6. CASE Close
  BY <1>6, ClosePreserves
<1>7. CASE UNCHANGED vars
  <2>1. UNCHANGED <<node, tunnel, queue, closed, call, answer, asked, owed, misread, arrived,
                    returned>>
    BY <1>7 DEF vars, local, outside, history
  <2>2. TableInv' /\ OthersInv'
    BY <2>1 DEF IInv, TableInv, OthersInv
  <2>3. CallInv' /\ OwnSessionOnly'
    BY <2>1 DEF IInv, CallInv, OwnSessionOnly
  <2> QED BY <2>1, <2>2, <2>3, QueuesKept DEF IInv
<1> QED BY <1>1, <1>2, <1>3, <1>4, <1>5, <1>6, <1>7 DEF Next

\* What a request returned is told of a datagram of the instance.
ToldInv ==
    \A p \in Requests : \A a \in answer[p] : a.got \in Datagrams /\ a.tells = Telling[node][a.got]

\* Only Fetch answers, and with what it took from the queue.
LEMMA ToldKept ==
    ASSUME IInv, ToldInv, [Next]_vars
    PROVE  ToldInv'
<1>1. ASSUME UNCHANGED <<node, answer>> PROVE ToldInv'
  BY <1>1 DEF ToldInv
<1>2. ASSUME NEW p \in Requests, NEW k, NEW about, Wait(p, k, about) PROVE ToldInv'
  <2>1. node' = node /\ answer' = [answer EXCEPT ![p] = {}]
    BY <1>2 DEF Wait
  <2>2. \A q \in Requests : answer'[q] = IF q = p THEN {} ELSE answer[q]
    BY <2>1 DEF IInv, TableInv
  <2> QED BY <2>1, <2>2 DEF ToldInv
<1>3. ASSUME NEW p \in Requests, Fetch(p) PROVE ToldInv'
  <2>1. PICK c \in call[p] :
           /\ queue[c.key] # <<>> /\ node' = node
           /\ answer' = [answer EXCEPT ![p] = {[about |-> c.about, got |-> Head(queue[c.key]).sent,
                                                tells |-> Telling[node][Head(queue[c.key]).sent]]}]
    BY <1>3 DEF Fetch
  <2>2. PICK x : x = Head(queue[c.key]).sent
    OBVIOUS
  <2>3. x \in Datagrams
    <3>1. c.key \in Keys
      BY DEF IInv, TableInv
    <3>2. queue[c.key] \in Seq(Message)
      BY <3>1 DEF IInv, TableInv
    <3>3. Head(queue[c.key]) \in Message
      BY <2>1, <3>2, HeadTailProperties
    <3> QED BY <2>2, <3>3 DEF Message
  <2>4. PICK a0 : a0 = [about |-> c.about, got |-> x, tells |-> Telling[node][x]]
    OBVIOUS
  <2>5. answer' = [answer EXCEPT ![p] = {a0}]
    BY <2>1, <2>2, <2>4, Zenon
  <2>6. a0.got \in Datagrams /\ a0.tells = Telling[node][a0.got]
    BY <2>3, <2>4
  <2>7. \A q \in Requests : answer'[q] = IF q = p THEN {a0} ELSE answer[q]
    BY <2>5 DEF IInv, TableInv
  <2> QED BY <2>1, <2>6, <2>7 DEF ToldInv
<1>4. ASSUME NEW s \in Sessions, Capture(s) \/ SendUplink(s) PROVE ToldInv'
  BY <1>1, <1>4 DEF Capture, SendUplink, local, history
<1>5. ASSUME NEW p \in Requests, NEW s \in Sessions, AwaitDownlink(p, s) PROVE ToldInv'
  BY <1>2, <1>5, Zenon DEF AwaitDownlink
<1>6. ASSUME NEW p \in Requests, NEW peer \in Peers, SendGTPUEcho(p, peer) PROVE ToldInv'
  BY <1>2, <1>6, Zenon DEF SendGTPUEcho
<1>7. ASSUME NEW p \in Requests, AwaitErrorIndication(p) PROVE ToldInv'
  BY <1>2, <1>7, Zenon DEF AwaitErrorIndication
<1>8. ASSUME NEW p \in Requests, TimeOut(p) PROVE ToldInv'
  BY <1>1, <1>8 DEF TimeOut
<1>9. ASSUME NEW x \in Datagrams, UPFSends(x) \/ PeerAnswers(x) \/ UPFIndicatesError(x) PROVE ToldInv'
  <2>1. Receive(x)
    BY <1>9 DEF UPFSends, PeerAnswers, UPFIndicatesError
  <2> QED BY <1>1, <2>1 DEF Receive
<1>10. CASE Close
  BY <1>1, <1>10 DEF Close
<1>11. CASE UNCHANGED vars
  BY <1>1, <1>11 DEF vars, local
<1> QED BY <1>3, <1>4, <1>5, <1>6, <1>7, <1>8, <1>9, <1>10, <1>11 DEF Next

\* No step makes an uplink that is not.
LEMMA UnderstoodKept ==
    ASSUME IInv, UplinksUnderstood, [Next]_vars
    PROVE  UplinksUnderstood'
<1>1. misread = {}
  BY DEF UplinksUnderstood
<1>2. ASSUME NEW s \in Sessions, SendUplink(s) PROVE misread' = {}
  <2>1. PICK t \in tunnel[s] : \E u \in Sent[node][t.accept] :
          misread' = misread \cup (IF u.understood THEN {} ELSE {u.request})
    BY <1>2, Zenon DEF SendUplink
  <2>2. node \in Nodes /\ t.accept \in AllAccepts
    <3>1. t \in [teid : Teids, accept : AllAccepts]
      BY DEF IInv, TableInv
    <3>2. node \in Nodes
      BY DEF IInv, OthersInv
    <3> QED BY <3>1, <3>2
  <2>3. \A u \in Sent[node][t.accept] : u.understood = TRUE
    BY <2>2, SentUnderstood, Zenon
  <2> QED BY <1>1, <2>1, <2>3
<1>3. ASSUME ~(\E s \in Sessions : SendUplink(s)) PROVE misread' = misread
  BY <1>3, Zenon DEF Next, vars, outside, Capture, Wait, AwaitDownlink, SendGTPUEcho,
       AwaitErrorIndication, Fetch, TimeOut, UPFSends, PeerAnswers, UPFIndicatesError,
       Receive, Close
<1> QED BY <1>1, <1>2, <1>3, Zenon DEF UplinksUnderstood

(***************************************************************************)
(* Theorems                                                                *)
(***************************************************************************)

\* The inductive invariant holds in every reachable state.
THEOREM Invariance == Spec => []IInv
<1>1. Init => IInv
  BY InitEstablishes
<1>2. IInv /\ [Next]_vars => IInv'
  BY NextPreserves
<1> QED BY <1>1, <1>2, PTL DEF Spec

\* The endpoint's queues hold what was sent, numbered as it came; a request waits
\* on one key (Endpoint.gpdus, Endpoint.control).
THEOREM TypeCorrect == Spec => []TypeOK
<1>1. IInv => TypeOK
  <2> SUFFICES ASSUME IInv PROVE TypeOK
    OBVIOUS
  <2>1. \A s \in Sessions : tunnel[s] \subseteq [teid : DLTeids[s], accept : Accepts[s]]
    <3> SUFFICES ASSUME NEW s \in Sessions, NEW t \in tunnel[s]
                 PROVE  t \in [teid : DLTeids[s], accept : Accepts[s]]
      OBVIOUS
    <3>1. t \in [teid : Teids, accept : AllAccepts]
      BY DEF IInv, TableInv
    <3>2. t.teid \in DLTeids[s] /\ t.accept \in Accepts[s]
      BY DEF IInv, TableInv
    <3> QED BY <3>1, <3>2
  <2>2. \A k \in Keys : queue[k] \in Seq([sent : Datagrams, number : 1..MaxArrivals])
    BY DEF IInv, TableInv, Message
  <2>3. \A p \in Requests : \A c \in call[p] : call[p] = {c} /\ c.key \in Keys
    BY DEF IInv, TableInv, CallInv
  <2> QED BY <2>1, <2>2, <2>3 DEF IInv, OthersInv, TypeOK
<1> QED BY <1>1, Invariance, PTL

\* WaitForDownlink and WaitForControl: whatever arrives on a TEID, or of a control
\* type, is returned once and in the order it came, however many requests wait and
\* whatever extension headers and padding it came in.
THEOREM ReturnedInOrderOnce == Spec => []InOrderOnce
<1>1. IInv => InOrderOnce
  BY DEF IInv
<1> QED BY <1>1, Invariance, PTL

\* AwaitGNBDownlink, AwaitENBDownlink: a request about a session gets a packet that
\* was sent to it, through renewals of the session and late packets.
THEOREM PacketsStayApart == Spec => []OwnSessionOnly
<1>1. IInv => OwnSessionOnly
  BY DEF IInv
<1> QED BY <1>1, Invariance, PTL

\* AwaitGNBDownlink, AwaitENBDownlink, SendGTPUEcho, errorIndicationJSON: what a
\* response tells is what the sender put into the datagram, for any chain of
\* extension headers, options, padding, family of addresses and protocol.
THEOREM ToldAsSent == Spec => []ReadAsSent
<1>1. Init => ToldInv
  BY DEF Init, ToldInv
<1>2. IInv /\ ToldInv /\ [Next]_vars => ToldInv'
  BY ToldKept
<1>3. IInv /\ ToldInv => ReadAsSent
  <2> SUFFICES ASSUME IInv, ToldInv, NEW p \in Requests, NEW a \in answer[p]
               PROVE  a.tells = Meaning[node][a.got]
    BY DEF ReadAsSent
  <2>1. node \in Nodes
    BY DEF IInv, OthersInv
  <2>2. a.got \in Datagrams /\ a.tells = Telling[node][a.got]
    BY DEF ToldInv
  <2> QED BY <2>1, <2>2, TellingMeant, Zenon
<1> QED BY <1>1, <1>2, <1>3, Invariance, PTL DEF Spec

\* UplinksUnderstood: whatever an uplink request asks for, of the ranges its fields have,
\* a peer that checks lengths and checksums reads it out of the octets that SendGNBUplink
\* and SendENBUplink send, and from the address the core gave the UE.
THEOREM UplinksAreUnderstood == Spec => []UplinksUnderstood
<1>1. Init => UplinksUnderstood
  BY Zenon DEF Init, UplinksUnderstood
<1>2. IInv /\ UplinksUnderstood /\ [Next]_vars => UplinksUnderstood'
  BY UnderstoodKept, Zenon
<1> QED BY Invariance, <1>1, <1>2, PTL DEF Spec
=============================================================================
