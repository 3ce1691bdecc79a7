-------------------------- MODULE MCHostLifecycle --------------------------
(* Two pages, an adapter and a mutation for each page, on either platform.  *)
EXTENDS HostLifecycle

CONSTANTS p1, p2, m1, m2

MCTarget == [q \in Mutations |-> IF q = m1 THEN p1 ELSE p2]
=============================================================================
