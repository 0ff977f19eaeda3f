---------------------------- MODULE MCUERegistry ----------------------------
(* UERegistry with requests, and nodes, interchangeable. *)
EXTENDS UERegistry, TLC

Alike == Permutations(Requests) \cup Permutations(Nodes)

\* Deleted for good: no map and no request has it, and the last answer said so.
Gone(o) ==
    /\ ~Busy(o) /\ home[o].at = Nowhere
    /\ \A n \in Nodes, i \in Numbers : ues[n][i] # o

\* What steps and properties look at: not the AMF ids, not whether the last answer
\* was to a migration, and nothing of the UEs that are gone but their count
Placement ==
    <<stored, last, ues, job,
      [o \in DOMAIN ue |->
         IF Gone(o) THEN <<>> ELSE <<ue[o].id, ue[o].ran, home[o].at, home[o].raced>>]>>
=============================================================================
