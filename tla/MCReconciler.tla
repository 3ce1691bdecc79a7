---------------------------- MODULE MCReconciler ----------------------------
(* A document a of a root type that contains a1, which contains a2; one    *)
(* more root document b, and a document p of a compendium.                 *)
EXTENDS Reconciler
CONSTANTS T, P, a, a1, a2, b, p
MCParent == [d \in Docs |-> CASE d = a1 -> a [] d = a2 -> a1 [] d = p -> P [] OTHER -> T]
MCRank == [d \in Docs |-> CASE d = a -> 1 [] d = a1 -> 2 [] d = a2 -> 3 [] d = b -> 4 [] d = p -> 5]
=============================================================================
