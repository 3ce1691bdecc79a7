----------------------------- MODULE MCQueries -----------------------------
(* Sequence ids up to four and a gap of three; a small event that matches a   *)
(* search and a large one that matches better; an object between them.      *)
(* byteLength has two digits from 4 on and three from 8 on, so that a pack *)
(* may grow over both while it is measured.                                *)
EXTENDS ContextPack

CONSTANTS small, large

MCSeqs == 1 .. 4
MCSizes == [e \in Payloads |-> IF e = small THEN 1 ELSE 4]
MCScore == [e \in Payloads |-> IF e = small THEN 1 ELSE 2]
MCObjects == {[id |-> 0, size |-> 3, score |-> 1]}
MCPowers == {4, 8}
MCMaxBytes == {2, 6, 8, 11}
=============================================================================
