---------------------------- MODULE MCDocuments ----------------------------
(* Two actors with an embedded line of three items, and a compendium.       *)
EXTENDS DocumentSnapshots

\* 1 and 2 are in the world, 4 in 1, 5 in 4, and 8 and 9 in the compendium; the batch
\* creates 3, and 6 in 1.
MCParent == [d \in Docs |-> CASE d \in {4, 6} -> 1 [] d = 5 -> 4 [] OTHER -> None]
MCName == [d \in Docs |-> IF d \in {5, 8} THEN 2 ELSE 1]
MCItems == <<3, 6>>
MCUnfit == {{}, {2}}

\* 1 and 2 refer to each other, 1 also to its child and to a packed entry.
MCFields == [d \in Docs |->
    CASE d = 1 -> <<[array |-> TRUE, refs |-> {2, 4}], [array |-> FALSE, refs |-> {8}]>>
      [] d = 2 -> <<[array |-> FALSE, refs |-> {1}], [array |-> TRUE, refs |-> {8, 9}]>>
      [] d = 4 -> <<[array |-> FALSE, refs |-> {5}]>>
      [] OTHER -> <<>>]

\* The packed entry 8 takes as much work as three others.
MCWeight == [d \in Docs |-> IF d = 8 THEN 3 ELSE 1]

CONSTANTS u1, u2
MCWork == {{"list", "create"}, {"create", u1}, {u1, u2}, {}}
=============================================================================
