------------------------- MODULE DocumentSnapshots -------------------------
(***************************************************************************)
(* documents.snapshot of the Foundry page                                  *)
(* (packages/foundry-module/src/documents.ts): the documents of a query,   *)
(* each with the documents its data refers to, and those they refer to,    *)
(* within a depth, a number of items and a number of bytes.  References in *)
(* an array are followed concurrently, those in different fields one after *)
(* the other.  Module Documents supplies the world and what happens to it. *)
(*                                                                         *)
(* Abstractions.  The data of a document is the sequence of its fields, a  *)
(* field the set of documents it refers to; every field costs one byte.    *)
(* An expansion is named by the documents that led to it.  The nodes and   *)
(* bytes of raw data that one request may walk over, to check and to clone *)
(* it, are one budget, work.                                               *)
(***************************************************************************)
EXTENDS Documents, SequencesExt

CONSTANTS
    Fields,        \* per document: its fields, [array, refs]
    Unbounded,     \* documents whose data is never accepted: accessors, depth, keys
    Weight,        \* per document: what walking over its data takes of the budget
    MaxWork,       \* MAX_SNAPSHOT_WORK_NODES and MAX_SNAPSHOT_SOURCE_BYTES
    SnapshotDepth, \* maxDepth of the request
    MaxItems,      \* maxItems of the request
    MaxBytes       \* maxBytes of the request

ASSUME SnapshotAssumption ==
    /\ Unbounded \subseteq Docs
    /\ {SnapshotDepth, MaxItems, MaxBytes} \subseteq Nat \ {0}
    /\ Weight \in [Docs -> Nat \ {0}] /\ MaxWork \in Nat
    /\ \A d \in Docs : Fields[d] \in Seq([array : BOOLEAN, refs : SUBSET Docs])

VARIABLES
    snap,       \* the request: its status, query, and the documents to expand
    tasks,      \* the pending calls of #expandSnapshot and expandValue
    itemCount,  \* state.itemCount
    bytes,      \* cloneBudget.bytes
    work,       \* sourceWork and cloneBudget.nodes
    reasons,    \* truncationReasons
    expanded,   \* the expansions that are part of the result
    readable,   \* history: documents that were readable all the time
    refused     \* history: expansions that met a budget of work used up

snapVars == <<snap, tasks, itemCount, bytes, work, reasons, expanded, readable, refused>>
snapshotVars == <<vars, snapVars>>

SnapshotInit ==
    /\ Init
    /\ snap \in IF listing = Idle /\ batch = Idle /\ \A u \in Updaters : update[u] = Idle
               THEN [status : {"collecting"}, uuids : {<<>>},
                     query : {q \in Queries : q.kind = "documents"}]
               ELSE {Idle}
    /\ tasks = {} /\ itemCount = 0 /\ bytes = 0 /\ work = 0 /\ reasons = {} /\ expanded = {}
    /\ readable = {d \in Docs : canRead(world, d)} /\ refused = {}

----------------------------------------------------------------------------
(* Mutated forms of the definitions below, used by the mutation runs.      *)

CutSilently(t) == reasons' = reasons
----------------------------------------------------------------------------

\* The documents of a page, in the order of the query.
InOrder(q, page) ==
    {s \in [1 .. Cardinality(page) -> page] :
        \A i, j \in DOMAIN s : i < j => Before(q, Key(world, q, s[i]), Key(world, q, s[j]))}

\* The query is listed page by page until it ends or maxItems is reached.
Collect ==
    /\ snap.status = "collecting"
    /\ LET room == MaxItems - Len(snap.uuids)
           page == Page(snap.query, room)
           more == NextCursor(snap.query, room)
       IN  \E sorted \in InOrder(snap.query, page) :
              LET last == more = None \/ Len(snap.uuids \o sorted) >= MaxItems
              IN  /\ snap' = [snap EXCEPT !.uuids = @ \o sorted, !.query.cursor = more,
                                          !.status = IF last THEN "expanding" ELSE @]
                  /\ reasons' = IF last /\ more # None THEN reasons \cup {"maxItems"} ELSE reasons
    /\ UNCHANGED <<vars, tasks, itemCount, bytes, work, expanded, readable, refused>>

Task(path, depth) == [path |-> path, depth |-> depth, stage |-> "referred", field |-> 0, kept |-> 0]
Uuid(t) == Last(t.path)
Nested(t) == Len(t.path) > 1

Dropped(t) == tasks' = tasks \ {t}
Replaced(t, u) == tasks' = (tasks \ {t}) \cup {u}

\* The next document of the query.
Begin ==
    /\ snap.status = "expanding" /\ tasks = {} /\ snap.uuids # <<>>
    /\ itemCount < MaxItems
    /\ tasks' = {Task(<<Head(snap.uuids)>>, 0)}
    /\ snap' = [snap EXCEPT !.uuids = Tail(@)]
    /\ UNCHANGED <<vars, itemCount, bytes, work, reasons, expanded, readable, refused>>

\* The checks #expandSnapshot makes before it resolves the document.
CutReasons(t) ==
    IF t.depth >= SnapshotDepth THEN {"maxDepth"}
    ELSE IF itemCount >= MaxItems THEN {"maxItems"} ELSE {}

NoteCut(t) == reasons' = reasons \cup CutReasons(t)

Enter(t) ==
    /\ t \in tasks /\ t.stage = "referred"
    /\ \/ CutReasons(t) = {} /\ Replaced(t, [t EXCEPT !.stage = "resolving"])
       \/ CutReasons(t) # {} /\ Dropped(t)
    /\ NoteCut(t)
    /\ UNCHANGED <<vars, snap, itemCount, bytes, work, expanded, readable, refused>>

\* What cloneSnapshotValue keeps of the fields; it is out of bytes as soon as
\* it has used them all.
KeptFields(d) == IF Len(Fields[d]) <= MaxBytes - bytes THEN Len(Fields[d]) ELSE MaxBytes - bytes

reserveSnapshotBytes(n) ==
    /\ bytes' = bytes + n
    /\ reasons' = IF bytes' >= MaxBytes THEN reasons \cup {"maxBytes"} ELSE reasons

\* The budget of work is one for all documents of the request.
WorkLeft(d) == work + Weight[d] <= MaxWork

ResolveFails(t) ==
    \/ ~Exists(Uuid(t))
    \/ canRead(world, Uuid(t)) /\ (Uuid(t) \in Unbounded \/ ~WorkLeft(Uuid(t)))

\* A document that cannot be read stands as a reference; ...
ResolveUnreadable(t) ==
    /\ t \in tasks /\ t.stage = "resolving"
    /\ Exists(Uuid(t)) /\ ~canRead(world, Uuid(t))
    /\ Dropped(t)
    /\ UNCHANGED <<vars, snap, itemCount, bytes, work, reasons, expanded, readable, refused>>

\* ... an error is caught where the reference was found, or fails the request.  It
\* leaves what was walked over until then counted, and what was cloned, ...
ResolveFailed(t) ==
    /\ t \in tasks /\ t.stage = "resolving"
    /\ ResolveFails(t)
    /\ IF Exists(Uuid(t))
       THEN /\ itemCount' = itemCount + 1
            /\ work' \in work .. MaxWork
            /\ \E n \in 0 .. KeptFields(Uuid(t)) : reserveSnapshotBytes(n)
            /\ refused' = IF WorkLeft(Uuid(t)) THEN refused ELSE refused \cup {t.path}
       ELSE UNCHANGED <<itemCount, bytes, work, reasons, refused>>
    /\ IF Nested(t) THEN Dropped(t) /\ UNCHANGED snap
       ELSE tasks' = {} /\ snap' = [snap EXCEPT !.status = "failed"]
    /\ UNCHANGED <<vars, expanded, readable>>

\* ... everything else is cloned and searched for references.
Resolve(t) ==
    /\ t \in tasks /\ t.stage = "resolving"
    /\ canRead(world, Uuid(t)) /\ ~ResolveFails(t)
    /\ itemCount' = itemCount + 1
    /\ work' = work + Weight[Uuid(t)]
    /\ LET kept == KeptFields(Uuid(t))
       IN  /\ reserveSnapshotBytes(kept)
           /\ Replaced(t, [t EXCEPT !.stage = "expanding", !.field = 1, !.kept = kept])
    /\ expanded' = expanded \cup {t.path}
    /\ UNCHANGED <<vars, snap, readable, refused>>

Waiting(t) == \E c \in tasks : Len(c.path) = Len(t.path) + 1 /\ Front(c.path) = t.path

Cycle(path) == Last(path) \in {path[i] : i \in 1 .. Len(path) - 1}

\* expandValue of the next field: its references, all at once.
ExpandField(t) ==
    /\ t \in tasks /\ t.stage = "expanding" /\ ~Waiting(t) /\ t.field <= t.kept
    /\ LET field == Fields[Uuid(t)][t.field]
           cut   == field.array /\ t.depth + 1 >= SnapshotDepth
           paths == {Append(t.path, d) : d \in {e \in field.refs : Exists(e)}}
           depth == t.depth + IF field.array THEN 3 ELSE 2
       IN  /\ reasons' = IF cut THEN reasons \cup {"maxDepth"} ELSE reasons
           /\ tasks' = (tasks \ {t}) \cup {[t EXCEPT !.field = @ + 1]}
                         \cup IF cut THEN {} ELSE {Task(p, depth) : p \in {q \in paths : ~Cycle(q)}}
    /\ UNCHANGED <<vars, snap, itemCount, bytes, work, expanded, readable, refused>>

Expanded(t) ==
    /\ t \in tasks /\ t.stage = "expanding" /\ ~Waiting(t) /\ t.field > t.kept
    /\ Dropped(t)
    /\ UNCHANGED <<vars, snap, itemCount, bytes, work, reasons, expanded, readable, refused>>

\* The answer, less the documents that do not fit in maxBytes as JSON.
Answer ==
    /\ snap.status = "expanding" /\ tasks = {}
    /\ snap.uuids = <<>> \/ itemCount >= MaxItems
    /\ \E fitting \in SUBSET {p \in expanded : Len(p) = 1} :
          /\ expanded' = {p \in expanded : <<Head(p)>> \in fitting}
          /\ reasons' = reasons \cup (IF expanded' = expanded THEN {} ELSE {"maxBytes"})
                           \cup (IF snap.uuids = <<>> THEN {} ELSE {"maxItems"})
    /\ snap' = [snap EXCEPT !.status = "answered"]
    /\ UNCHANGED <<vars, tasks, itemCount, bytes, work, readable, refused>>

Step(t) ==
    Enter(t) \/ ResolveUnreadable(t) \/ ResolveFailed(t) \/ Resolve(t) \/ ExpandField(t) \/ Expanded(t)

Snapshot == Collect \/ Begin \/ Answer \/ \E t \in tasks : Step(t)

SnapshotNext ==
    \/ Snapshot
    \/ /\ Next
       /\ readable' = {d \in readable : canRead(world', d)}
       /\ UNCHANGED <<snap, tasks, itemCount, bytes, work, reasons, expanded, refused>>

SnapshotSpec == SnapshotInit /\ [][SnapshotNext]_snapshotVars

----------------------------------------------------------------------------
\* A snapshot that does not say it is truncated has expanded every reference
\* of every document in it, but for cycles, for documents that were not readable all
\* the time or whose data is never accepted, and for those that met the budget of
\* work used up by the documents before them.
UntruncatedIsComplete ==
    snap.status = "answered" /\ reasons = {} =>
        \A p \in expanded : \A k \in DOMAIN Fields[Last(p)] :
            \A d \in Fields[Last(p)][k].refs :
                \/ Cycle(Append(p, d)) \/ Append(p, d) \in expanded
                \/ d \notin readable \/ d \in Unbounded
                \/ Append(p, d) \in refused

\* The same without the last exception.  The code does not keep this: the error of a
\* budget used up is caught where the reference was found, with no reason given.
UsedUpIsTold ==
    snap.status = "answered" /\ reasons = {} => refused = {}

\* The world, the calls and the listing have their types; and a snapshot that does
\* not say that it is truncated is complete.
SnapshotsInv == TypeOK /\ UntruncatedIsComplete

\* The documents of a snapshot are never more than was asked for.
ItemLimit == itemCount <= MaxItems
=============================================================================
