------------------------ MODULE MCCompanionRequests ------------------------
(* A mutation and a read share one page, or the mutation is called up to     *)
(* three times through several faults, or two tabs have it.                  *)
EXTENDS CompanionRequests

CONSTANT m

Once == [r \in Ids |-> 1]
Only(n) == [r \in Ids |-> IF r = m THEN n ELSE 0]
Budget(n, k, l) ==
    [calls |-> n, drops |-> k, storageFailures |-> l]

MCBudgets == {Budget(Once, 1, 1), Budget(Only(3), 3, 2)}
MCNoFaults == {Budget(Once, 0, 0)}
=============================================================================
