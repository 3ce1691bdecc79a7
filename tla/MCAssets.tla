------------------------------ MODULE MCAssets ------------------------------
(* Two calls about one destination, or one call beside a listing of four    *)
(* images in three folders, two of them also public.                        *)
EXTENDS AssetListing

CONSTANTS c1, c2, d1, d2

\* Nothing tells one document from another.
MCSymmetry == Permutations(Docs)

MCNumbered == <<2, 3>>
MCFolderOf == [p \in Paths |-> IF p = 4 THEN 2 ELSE 1]
MCAbove == [f \in {1, 2} |-> f - 1]
MCOrders == {<<>>, <<"data", "public">>, <<"public", "data">>}
MCWritable == {{1, 2, 3}, {4}}

Ask(kind, policy, options) == [kind |-> kind, policy |-> policy, options |-> options]
Pair(r, s) == [c \in Callers |-> IF c = c1 THEN r ELSE s]

Alone ==
    {Pair(Ask(kind, policy, o), Ask("idle", "error", FALSE)) :
        kind \in {"upload", "attach"}, policy \in {"error", "overwrite", "rename"}, o \in BOOLEAN}
Together ==
    {Pair(Ask("attach", "error", FALSE), r) :
        r \in {Ask("attach", "overwrite", FALSE), Ask("reference", "error", FALSE)}}
    \cup {Pair(Ask("attach", "overwrite", FALSE), Ask("upload", "rename", FALSE))}

MCRequests == Alone \cup Together
MCBeside == {r \in Alone : r[c1] = Ask("attach", "rename", FALSE)}
=============================================================================
