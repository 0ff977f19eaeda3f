------------------------------ MODULE MCFramed ------------------------------
(* Instances of Framed for TLC. *)
EXTENDS Framed

CONSTANTS Answer, Fault, u1, u2

\* Two calls after answers of the same UE, of either type but Answer first, as
\* the handlers' waits are; frames of u2 suit neither and stay in the way.
MCRequests ==
    { [types |-> <<Answer, Fault>>, accept |-> {u1}] }
=============================================================================
