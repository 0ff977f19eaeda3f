----------------------------- MODULE MCSharedUE -----------------------------
(* SharedUE with requests interchangeable. *)
EXTENDS SharedUE, TLC

Alike == Permutations(Requests)

\* Without what the core makes of a half that was raced, which no property looks
\* at and which starts over with the context
Verdicts ==
    <<system, ctx, job, inbox, raced, core.key, core.dl, core.secured,
      IF "ul" \in raced THEN <<>> ELSE <<core.ul, core.stale>>, misread /\ "dl" \notin raced>>
=============================================================================
