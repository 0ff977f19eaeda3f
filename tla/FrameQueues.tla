----------------------------- MODULE FrameQueues -----------------------------
(***************************************************************************)
(* The map of frame queues that an N2/S1 transport keeps (framed.frames)   *)
(* and the search WaitForMessageMatching makes in it.  A queue that is     *)
(* absent from the Go map is the empty sequence here: the code reads an    *)
(* absent key as an empty slice and deletes a key whose queue it emptied.  *)
(***************************************************************************)
EXTENDS Naturals, Sequences, SequencesExt

CONSTANTS
    Types,      \* keys: NGAP or S1AP message types
    Labels,     \* what a match predicate can tell apart in a frame (its AP ids)
    Requests    \* [types : sequence of keys, accept : set of labels]

ASSUME RequestsAssumption ==
    Requests \subseteq [types : Seq(Types), accept : SUBSET Labels]

\* id is the frame's place among the messages read from the association.
Frame == [id : Nat, type : Types, label : Labels]

EmptyQueues == [t \in Types |-> <<>>]

\* Mutant of File: the key function yields the same key for every frame.
FileUnderOneKey(fr, f) == [fr EXCEPT ![CHOOSE t \in Types : TRUE] = Append(@, f)]

File(fr, f) == [fr EXCEPT ![f.type] = Append(@, f)]

\* Positions <<i, j>> that qualify: the j-th frame under the i-th wanted type.
Hits(fr, r) ==
    {p \in UNION {{i} \X DOMAIN fr[r.types[i]] : i \in DOMAIN r.types} :
        fr[r.types[p[1]]][p[2]].label \in r.accept}

Before(p, q) == p[1] < q[1] \/ (p[1] = q[1] /\ p[2] <= q[2])

\* Mutant of FirstHit: the search keeps overwriting its match and ends on the last.
LastHit(fr, r) == CHOOSE p \in Hits(fr, r) : \A q \in Hits(fr, r) : Before(q, p)

\* Preferred type first, then the oldest frame of that type.
FirstHit(fr, r) == CHOOSE p \in Hits(fr, r) : \A q \in Hits(fr, r) : Before(p, q)

FrameAt(fr, r, p) == fr[r.types[p[1]]][p[2]]

\* Mutant of Without: the frame is returned but stays in its queue.
StillWith(fr, r, p) == fr

Without(fr, r, p) == [fr EXCEPT ![r.types[p[1]]] = RemoveAt(@, p[2])]

Queued(fr) == UNION {ToSet(fr[t]) : t \in Types}
=============================================================================
