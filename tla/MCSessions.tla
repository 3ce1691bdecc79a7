----------------------------- MODULE MCSessions -----------------------------
(* A session that is started, retried, appended to, ended and reopened.     *)
EXTENDS SessionReaders

CONSTANTS s1, s2, s3, a1, a2, e1, e2, o1, l1, l2, t1

MCOp == [c \in Calls |-> CASE c \in {s1, s2, s3} -> "start" [] c \in {a1, a2} -> "append"
                           [] c \in {e1, e2} -> "end" [] OTHER -> "reopen"]
MCKeyOf == [c \in Calls |-> CASE c \in {s1, s2} -> "k1" [] c = s3 -> "k2"
                           [] c \in {a1, a2} -> "a" [] c \in {e1, e2} -> "e" [] OTHER -> "o"]
MCTarget == [c \in Calls |-> 1]
MCKind == [r \in Readers |-> IF r = t1 THEN 1 ELSE None]

MCScenarios == {
    [existing |-> {}, key |-> "k0", calls |-> {s1, s2, a1}, readers |-> {}],
    [existing |-> {}, key |-> "k0", calls |-> {s1, s3}, readers |-> {}],
    [existing |-> {}, key |-> "k0", calls |-> {s1, e1}, readers |-> {}],
    [existing |-> {1}, key |-> "k0", calls |-> {a1, a2, e1}, readers |-> {t1}],
    [existing |-> {1}, key |-> "k0", calls |-> {e1, e2, o1}, readers |-> {}],
    [existing |-> {1, 2}, key |-> "k0", calls |-> {a1, e1}, readers |-> {l1, l2}]}
=============================================================================
