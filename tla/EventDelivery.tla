--------------------------- MODULE EventDelivery ---------------------------
(***************************************************************************)
(* What the event stream promises, without sockets, storage or             *)
(* acknowledgements: Foundry produces events one after the other, and the  *)
(* host records each of them at most once, under a sequence id of its own, *)
(* so that ids order the events as Foundry produced them.                  *)
(***************************************************************************)
EXTENDS Integers

VARIABLES
    produced,       \* how many events Foundry has produced; events are 1 .. produced
    recorded        \* the records [seq, ev] the host has made

InOrder(d, e) == d.ev < e.ev <=> d.seq < e.seq

Init == produced = 0 /\ recorded = {}

Produce == produced' = produced + 1 /\ UNCHANGED recorded

\* A record of a new event under a new id, placed where its event belongs.
Record ==
    /\ recorded \subseteq recorded'
    /\ \E e \in recorded' :
        /\ recorded' = recorded \cup {e}
        /\ e.ev \in 1 .. produced
        /\ \A d \in recorded : d.ev # e.ev /\ d.seq # e.seq /\ InOrder(d, e)
    /\ UNCHANGED produced

Next == Produce \/ Record

Spec == Init /\ [][Next]_<<produced, recorded>>
=============================================================================
