----------------------------- MODULE MCUserPlane -----------------------------
(* Small instances of UserPlane for TLC. *)
EXTENDS UserPlane, TLC

\* Two sessions, TEIDs as RAN id and session id; the first session may be renewed
\* under another RAN id.  The first has IPv4 traffic, the second IPv6.
TwoSessions == [s \in {"s1", "s2"} |-> IF s = "s1" THEN {257, 513} ELSE {258}]

Server4 == <<8, 8, 8, 8>>
Server6 == <<32, 1>> \o Zeros(13) \o <<8>>
Address4 == <<10, 45, 0, 2>>
Address6 == <<32, 1, 13, 184>> \o Zeros(11) \o <<2>>
Identifier == <<2, 0, 94, 255, 254, 0, 83, 1>>

\* The first session is always accepted with IPv4, the second with both families,
\* with IPv6 alone, or without an address.
Addresses ==
    LET v4 == [type |-> IPv4, v4 |-> Address4, iid |-> <<>>]
    IN [s \in {"s1", "s2"} |->
          IF s = "s1" THEN {v4}
          ELSE {[type |-> IPv4v6, v4 |-> <<10, 45, 0, 3>>, iid |-> Identifier],
                [type |-> IPv6, v4 |-> <<>>, iid |-> Identifier], NoAddress}]

\* An echo reply behind a word of IP options; a UDP datagram
Packets ==
    [s \in {"s1", "s2"} |->
       IF s = "s1" THEN [src |-> Server4, dst |-> Address4, options |-> 1, proto |-> ICMP,
                         l4 |-> <<0, 0, 0, 0, 0, 3, 0, 4, 97>>]
       ELSE [src |-> Server6, dst |-> Address6, options |-> 0, proto |-> UDP,
             l4 |-> <<0, 53, 48, 57, 0, 9, 0, 0, 97>>]]

\* Plain with padding; a sequence number and a container; a chain of an extension
\* header the code does not know, of two words, and a container; a container only
Forms == [d \in {257, 258, 513} |->
            CASE d = 257 -> <<[Plain EXCEPT !.pad = 3],
                             [Plain EXCEPT !.seq = {7}, !.exts = <<Container(5)>>]>>
              [] d = 258 -> <<[Plain EXCEPT !.exts = <<<<194, <<1, 2, 3, 4, 5, 6>>>>, Container(9)>>],
                             [Plain EXCEPT !.seq = {0}]>>
              [] d = 513 -> <<[Plain EXCEPT !.seq = {1}]>>]

\* Echoes, UDP of odd length without a source port, UDP to the other family, and a
\* datagram over IPv6 whose checksum comes out as zero
Body == [kind |-> "udp", src |-> {}, dst |-> Server4, first |-> 0, second |-> 53, payload |-> <<1>>]
Bodies ==
    {Body, [Body EXCEPT !.kind = "icmp", !.first = 1, !.second = 65535],
     [Body EXCEPT !.dst = Server6, !.src = {Server6}],
     [Body EXCEPT !.kind = "icmp", !.dst = Server6, !.src = {Address6}],
     [Body EXCEPT !.dst = Server6, !.src = {Address6}, !.first = 45283]}

Counters == [peer \in {"pa", "pb"} |-> IF peer = "pa" THEN 3 ELSE 0]

Alike == Permutations(Requests)

\* Of an accept only the address kept of it matters; of an answer, which no step
\* reads, only whether it is right; of the history, whether it agrees with the queue,
\* as what is added to it after that does not depend on what it was.
WhatMatters ==
    <<node, [s \in Sessions |-> {<<t.teid, UEIP[node][t.accept]>> : t \in tunnel[s]}],
      queue, closed, call, outside,
      [k \in Keys |-> <<Len(arrived[k]), arrived[k] = returned[k] \o queue[k]>>],
      [p \in Requests |-> {<<a.about \in Sessions /\ a.got.to # a.about,
                             a.tells # Meaning[node][a.got]>> : a \in answer[p]}]>>
=============================================================================
