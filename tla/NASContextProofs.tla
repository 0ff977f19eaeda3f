--------------------------- MODULE NASContextProofs ---------------------------
(***************************************************************************)
(* TLAPS proofs about the DL COUNT of NASContext, for any width of the     *)
(* octet that is on the wire.                                              *)
(***************************************************************************)
EXTENDS NASContext, Integers, TLAPS

\* Division with remainder, as the provers know it.
LEMMA Division ==
    ASSUME NEW n \in Nat
    PROVE  /\ n % Octet \in 0..(Octet - 1)
           /\ \E q \in Nat : n = Octet * q + (n % Octet)
<1>1. Octet \in Nat /\ Octet > 0
  BY OctetAssumption
<1>2. n = Octet * (n \div Octet) + (n % Octet) /\ n % Octet \in 0..(Octet - 1) /\ n \div Octet \in Nat
  BY <1>1
<1> QED BY <1>2

\* A larger quotient is a whole Octet further on.
LEMMA Strides ==
    ASSUME NEW p \in Nat, NEW q \in Nat, p < q
    PROVE  Octet * p + Octet <= Octet * q
<1>1. Octet \in Nat
  BY OctetAssumption
<1>2. PICK k \in Nat : q = p + 1 + k
  <2>1. q - p - 1 \in Nat /\ q = p + 1 + (q - p - 1)
    OBVIOUS
  <2> QED BY <2>1
<1>3. Octet * q = Octet * p + Octet + Octet * k
  BY <1>1, <1>2
<1>4. Octet * k \in Nat /\ Octet * p \in Nat
  BY <1>1
<1> QED BY <1>1, <1>3, <1>4

\* NextDL recovers the sender's COUNT from its low octet, whatever the width of
\* the octet, when at most Octet - 1 downlinks were skipped (UEContext.NextDL).
THEOREM CountRecovered ==
    ASSUME NEW d \in Nat, NEW c \in d .. d + Octet - 1
    PROVE  EstimateDL(d, c % Octet) = c
<1>1. Octet \in Nat /\ Octet > 0 /\ c \in Nat
  BY OctetAssumption
<1> DEFINE r == d % Octet
           s == c % Octet
<1>2. PICK q \in Nat : d = Octet * q + r
  BY Division
<1>3. PICK p \in Nat : c = Octet * p + s
  BY <1>1, Division
<1>4. r \in 0..(Octet - 1) /\ s \in 0..(Octet - 1)
  BY <1>1, Division
<1>5. Octet * q \in Nat /\ Octet * p \in Nat
  BY <1>1
<1>6. Base(d) = Octet * q
  BY <1>2, <1>4, <1>5 DEF Base
<1> HIDE DEF r, s
<1>7. ~(p < q)
  <2> SUFFICES ASSUME p < q PROVE FALSE
    OBVIOUS
  <2>1. Octet * p + Octet <= Octet * q
    BY Strides
  <2> QED BY <2>1, <1>1, <1>2, <1>3, <1>4, <1>5
<1>8. CASE p = q
  <2>1. r <= s
    BY <1>8, <1>1, <1>2, <1>3, <1>4, <1>5
  <2> QED BY <2>1, <1>8, <1>1, <1>3, <1>4, <1>6 DEF EstimateDL, r, s
<1>9. CASE q < p
  <2>1. Octet * q + Octet <= Octet * p
    BY <1>9, Strides
  <2>2. p = q + 1
    <3> SUFFICES ASSUME p # q + 1 PROVE FALSE
      OBVIOUS
    <3>1. q + 1 \in Nat /\ q + 1 < p
      BY <1>9
    <3>2. Octet * (q + 1) + Octet <= Octet * p
      BY <3>1, Strides
    <3>3. Octet * (q + 1) = Octet * q + Octet
      BY <1>1
    <3> QED BY <3>2, <3>3, <1>1, <1>2, <1>3, <1>4, <1>5
  <2>3. Octet * p = Octet * q + Octet
    BY <2>2, <1>1
  <2>4. r > s
    BY <2>3, <1>1, <1>2, <1>3, <1>4, <1>5
  <2> QED BY <2>3, <2>4, <1>1, <1>3, <1>4, <1>5, <1>6 DEF EstimateDL, r, s
<1> QED BY <1>7, <1>8, <1>9

\* An estimate is a COUNT.
LEMMA EstimateType ==
    ASSUME NEW d \in Nat, NEW s \in Nat
    PROVE  EstimateDL(d, s % Octet) \in Nat
<1>1. Octet \in Nat /\ d % Octet \in Nat /\ s % Octet \in Nat
  BY OctetAssumption, Division
<1>2. PICK q \in Nat : d = Octet * q + (d % Octet)
  BY Division
<1>3. Octet * q \in Nat
  BY <1>1
<1>4. Base(d) \in Nat
  BY <1>1, <1>2, <1>3 DEF Base
<1> QED BY <1>1, <1>4 DEF EstimateDL

\* An estimate is not below the COUNT it was made from.
LEMMA EstimateAhead ==
    ASSUME NEW d \in Nat, NEW s \in Nat
    PROVE  d <= EstimateDL(d, s % Octet)
<1> DEFINE r == d % Octet
           t == s % Octet
<1>1. Octet \in Nat /\ r \in 0..(Octet - 1) /\ t \in 0..(Octet - 1)
  BY OctetAssumption, Division
<1>2. PICK q \in Nat : d = Octet * q + r
  BY Division
<1>3. Base(d) = d - r
  BY DEF Base
<1>4. EstimateDL(d, t) = IF r > t THEN Base(d) + Octet + t ELSE Base(d) + t
  BY DEF EstimateDL
<1> HIDE DEF r, t
<1>5. d <= EstimateDL(d, t)
  BY <1>1, <1>3, <1>4
<1> QED BY <1>5 DEF t
=============================================================================
