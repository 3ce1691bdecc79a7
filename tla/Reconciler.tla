----------------------------- MODULE Reconciler -----------------------------
(***************************************************************************)
(* The intelligence reconciler of the host (intelligence/reconciliation.ts) *)
(* for one connection: a durable, budgeted traversal of the Foundry world  *)
(* through the companion's read-only document APIs.  A pass seeds one task *)
(* per root type and compendium, lists each task page by page, stores a    *)
(* snapshot of every public document and queues a task for its children.   *)
(* Only a pass without gaps may remove the snapshots it did not see.       *)
(*                                                                         *)
(* The world changes at any time between two requests, a request may fail, *)
(* and the host may be killed between two autocommitted statements.        *)
(*                                                                         *)
(* Abstractions.  A task is named by the thing it lists, a snapshot by its *)
(* document; the rows whose last_seen_run_id is the current run are the    *)
(* set seen, so that run identifiers need no bound.  The columns gap and   *)
(* truncated are always written together and are one variable.  A task    *)
(* that is "running" is treated everywhere as "pending" and is not told    *)
(* apart from it.  Contents, counters and timestamps are left out.         *)
(***************************************************************************)
EXTENDS Integers, FiniteSets

CONSTANTS
    Types,       \* readable root document types
    Packs,       \* accessible compendiums
    Docs,        \* documents that may exist
    ParentOf,    \* the type, compendium or document each document belongs to
    Rank,        \* the order in which the companion lists documents
    Oversized,   \* documents whose snapshot is cut down (compactSnapshot)
    Deletable,   \* documents the world may lose
    None,        \* no task
    MaxDepth,    \* deepest embedded task (8 in the code)
    MaxTasks,    \* tasks of one pass (2000 in the code)
    PageSize,    \* documents per page (50 in the code)
    Budget,      \* documents per invocation (500 by default)
    MaxChanges,  \* bound: changes of the world
    MaxFaults,   \* bound: requests that fail and invocations that are aborted
    MaxCrashes   \* bound: kills of the host process

Collections == Types \cup Packs
Sources == Collections \cup Docs

ASSUME SourcesAssumption ==
    /\ Types \cap Packs = {} /\ Collections \cap Docs = {} /\ None \notin Sources
    /\ IsFiniteSet(Sources)
    /\ ParentOf \in [Docs -> Sources] /\ Rank \in [Docs -> Nat \ {0}]
    /\ \A d, e \in Docs : d # e => Rank[d] # Rank[e]

(* No document contains itself, directly or through others.                *)
ASSUME ContainmentAssumption ==
    \A S \in SUBSET Docs : S # {} => \E d \in S : ParentOf[d] \notin S

ASSUME BoundsAssumption ==
    /\ {MaxDepth, MaxTasks, PageSize, Budget} \subseteq Nat \ {0}
    /\ {MaxChanges, MaxFaults, MaxCrashes} \subseteq Nat

VARIABLES
    live,       \* documents that exist and are readable by the connected user
    hidden,     \* documents isPrivateDocument would filter
    status,     \* reconciliation_jobs.status, "never" when there is no row
    gap,        \* reconciliation_jobs.gap (and truncated)
    queued,     \* reconciliation_tasks of the run
    done,       \* the queued tasks that are complete
    cursor,     \* the cursor of each task: the rank of the last document listed
    indexed,    \* intelligence_objects
    seen,       \* the indexed rows whose last_seen_run_id is the current run
    pc,         \* where #reconcile is waiting or what it does next
    task,       \* the task in work
    page,       \* the documents of its page not yet handled
    next,       \* page.nextCursor, 0 when the page is the last
    truncated,  \* PageResult.truncated
    remaining,  \* budget left to this invocation
    changes, faults, crashes,   \* counters for the bounds
    steady,     \* history: documents visible ever since the pass began
    absent      \* history: documents never public since the pass began

world == <<live, hidden, changes>>
job == <<status, gap>>
tasks == <<queued, done, cursor>>
index == <<indexed, seen>>
memory == <<pc, task, page, next, truncated, remaining>>
history == <<steady, absent>>
reconcilerVars == <<world, job, tasks, index, memory, faults, crashes, history>>

-----------------------------------------------------------------------------
(* A document and the documents that contain it.                           *)
Line[d \in Docs] ==
    {d} \cup (IF ParentOf[d] \in Docs THEN Line[ParentOf[d]] ELSE {})

(* The depth parameter of the embedded task of a document; 0 for others.   *)
DepthOf(s) == IF s \in Docs THEN Cardinality(Line[s]) ELSE 0

Public == live \ hidden
Visible == {d \in Docs : Line[d] \subseteq Public}

(* The tasks a pass still has to work on (queueDepth).                     *)
OpenForever == queued
Open == queued \ done

(* nextTask: tasks are taken in the order of their keys, and a key begins  *)
(* with the kind: compendium, embedded, root.  The rest of it is a hash.   *)
NextTask ==
    IF Open \cap Packs # {} THEN Open \cap Packs
    ELSE IF Open \cap Docs # {} THEN Open \cap Docs
    ELSE Open

(* What a list request of the companion returns for a task: the first      *)
(* documents after the cursor, and the new cursor when there are more.     *)
ListedAll(s) == {d \in live : Rank[d] > cursor[s]}
Listed(s) == {d \in live : ParentOf[d] = s /\ Rank[d] > cursor[s]}
FirstOf(L, n) == {d \in L : Cardinality({e \in L : Rank[e] <= Rank[d]}) <= n}
LastRank(S) == CHOOSE r \in {Rank[d] : d \in S} : \A d \in S : Rank[d] <= r
IsFirst(d) == d \in page /\ \A e \in page : Rank[d] <= Rank[e]

-----------------------------------------------------------------------------
ReconcilerInit ==
    /\ live \in {L \in SUBSET Docs : \A d \in L : Line[d] \subseteq L}
    /\ hidden \in SUBSET Docs
    /\ status = "never" /\ gap = FALSE
    /\ queued = {} /\ done = {} /\ cursor = [s \in Sources |-> 0]
    /\ indexed = {} /\ seen = {}
    /\ pc = "idle" /\ task = None /\ page = {} /\ next = 0
    /\ truncated = FALSE /\ remaining = 0
    /\ changes = 0 /\ faults = 0 /\ crashes = 0
    /\ steady = {} /\ absent = {}

(* The items of a compendium page carry their data and are stored without  *)
(* another request: the world cannot be observed to change in between.     *)
Synchronous == pc = "documents" /\ task \in Packs

WorldChanges ==
    /\ ~Synchronous
    /\ changes < MaxChanges /\ changes' = changes + 1
    /\ steady' = steady \cap Visible'
    /\ absent' = absent \ Public'
    /\ UNCHANGED <<job, tasks, index, memory, faults, crashes>>

Create(d) ==
    /\ d \notin live /\ Line[d] \ {d} \subseteq live
    /\ live' = live \cup {d} /\ UNCHANGED hidden
    /\ WorldChanges

Delete(d) ==
    /\ d \in live \cap Deletable
    /\ live' = live \ {e \in Docs : d \in Line[e]} /\ UNCHANGED hidden
    /\ WorldChanges

Hide(d) ==
    /\ d \in Public
    /\ hidden' = hidden \cup {d} /\ UNCHANGED live
    /\ WorldChanges

Reveal(d) ==
    /\ d \in live \cap hidden
    /\ hidden' = hidden \ {d} /\ UNCHANGED live
    /\ WorldChanges

-----------------------------------------------------------------------------
(* #resumeOrStart: a pass that did not complete and has open tasks goes on *)
(* with the gap it has; the budget is per invocation.                      *)
Resumable == status # "complete" /\ Open # {}

Resume ==
    /\ pc = "idle" /\ Resumable
    /\ status' = "running" /\ pc' = "loop" /\ remaining' = Budget
    /\ UNCHANGED <<world, gap, tasks, index, task, page, next, truncated,
                   faults, crashes, history>>

(* #newRun up to its first request: a new run identifier makes every       *)
(* snapshot one the run has not seen.                                      *)
NewRun ==
    /\ pc = "idle" /\ ~Resumable
    /\ queued' = {} /\ done' = {} /\ cursor' = [s \in Sources |-> 0]
    /\ status' = "running" /\ gap' = FALSE
    /\ seen' = {}
    /\ pc' = "collections" /\ remaining' = Budget
    /\ steady' = Visible /\ absent' = Docs \ Public
    /\ UNCHANGED <<world, indexed, task, page, next, truncated, faults, crashes>>

(* documents.types and compendiums.list have answered.                     *)
ListCollections ==
    /\ pc = "collections" /\ pc' = "seeding"
    /\ UNCHANGED <<world, job, tasks, index, task, page, next, truncated, remaining,
                   faults, crashes, history>>

HasRoom == Cardinality(queued) < MaxTasks

(* One addTask of #newRun, types before compendiums; it commits by itself. *)
Seed(s) ==
    /\ pc = "seeding" /\ HasRoom
    /\ s \in Collections \ queued /\ (s \in Packs => Types \subseteq queued)
    /\ queued' = queued \cup {s}
    /\ UNCHANGED <<world, job, done, cursor, index, memory, faults, crashes, history>>

Seeded ==
    /\ pc = "seeding" /\ (Collections \subseteq queued \/ ~HasRoom)
    /\ gap' = ~(Collections \subseteq queued)
    /\ pc' = "loop"
    /\ UNCHANGED <<world, status, tasks, index, task, page, next, truncated, remaining,
                   faults, crashes, history>>

-----------------------------------------------------------------------------
(* The loop of #reconcile takes a task and asks for a page of it.          *)
Take ==
    /\ pc = "loop" /\ remaining > 0 /\ Open # {}
    /\ task' \in NextTask
    /\ pc' = "listing" /\ truncated' = FALSE
    /\ UNCHANGED <<world, job, tasks, index, page, next, remaining,
                   faults, crashes, history>>

(* The parent of an embedded task must still exist: the companion answers  *)
(* NOT_FOUND otherwise.                                                    *)
ParentGone == task \in Docs /\ task \notin live

ListPage ==
    /\ pc = "listing" /\ ~ParentGone
    /\ LET all == Listed(task)
           limit == IF PageSize < remaining THEN PageSize ELSE remaining
           items == FirstOf(all, limit)
       IN  /\ page' = items
           /\ next' = IF items = all THEN 0 ELSE LastRank(items)
           /\ remaining' = remaining - Cardinality(items)
    /\ pc' = "documents"
    /\ UNCHANGED <<world, job, tasks, index, task, truncated, faults, crashes, history>>

(* What storing a document says about the traversal: a snapshot was cut    *)
(* down, or its children will not be visited.                              *)
CutShortAnyDepth(d) == d \in Oversized \/ (task \in Collections /\ ~HasRoom)
CutShort(d) ==
    \/ d \in Oversized
    \/ task \in Docs /\ DepthOf(task) >= MaxDepth
    \/ task \in Collections /\ ~HasRoom

Traversed(d) == HasRoom /\ DepthOf(task) < MaxDepth

(* documents.get answered (or the compendium item carries its data): a     *)
(* private document leaves the index and its children are not visited.     *)
StorePrivate(d) ==
    /\ pc = "documents" /\ IsFirst(d) /\ d \in live \cap hidden
    /\ indexed' = indexed \ {d} /\ seen' = seen \ {d}
    /\ page' = page \ {d}
    /\ UNCHANGED <<world, job, tasks, pc, task, next, truncated, remaining,
                   faults, crashes, history>>

(* A public one is stored as seen by this run and its children are queued. *)
StorePublic(d) ==
    /\ pc = "documents" /\ IsFirst(d) /\ d \in Public
    /\ indexed' = indexed \cup {d} /\ seen' = seen \cup {d}
    /\ queued' = IF Traversed(d) THEN queued \cup {d} ELSE queued
    /\ truncated' = (truncated \/ CutShort(d))
    /\ page' = page \ {d}
    /\ UNCHANGED <<world, job, done, cursor, pc, task, next, remaining,
                   faults, crashes, history>>

(* The document could not be read or parsed; the page goes on without it.  *)
SkipDocument(d) ==
    /\ page' = page \ {d} /\ truncated' = TRUE
    /\ UNCHANGED <<world, job, tasks, index, pc, task, next, remaining,
                   crashes, history>>

DocumentGone(d) ==
    /\ pc = "documents" /\ IsFirst(d) /\ d \notin live
    /\ SkipDocument(d) /\ UNCHANGED faults

DocumentFails(d) ==
    /\ pc = "documents" /\ IsFirst(d)
    /\ faults < MaxFaults /\ faults' = faults + 1
    /\ SkipDocument(d)

(* The two statements after a page commit one after the other: first the   *)
(* task, then the flags of the job.                                        *)
UpdateTask ==
    /\ pc = "documents" /\ page = {}
    /\ done' = IF next = 0 THEN done \cup {task} ELSE done
    /\ cursor' = [cursor EXCEPT ![task] = next]
    /\ pc' = "flags"
    /\ UNCHANGED <<world, job, queued, index, task, page, next, truncated, remaining,
                   faults, crashes, history>>

UpdateJob ==
    /\ pc = "flags"
    /\ gap' = (gap \/ truncated)
    /\ pc' = "loop" /\ task' = None /\ next' = 0 /\ truncated' = FALSE
    /\ UNCHANGED <<world, status, tasks, index, page, remaining,
                   faults, crashes, history>>

-----------------------------------------------------------------------------
Stopped == /\ pc' = "idle" /\ task' = None /\ page' = {} /\ next' = 0
           /\ truncated' = FALSE /\ remaining' = 0

Suspend ==
    /\ pc = "loop" /\ remaining = 0 /\ Open # {}
    /\ status' = "incomplete"
    /\ Stopped
    /\ UNCHANGED <<world, gap, tasks, index, faults, crashes, history>>

(* What a completed pass leaves in the index.                              *)
KeptEverything == indexed
KeptSeen == indexed \cap seen
Kept == IF gap THEN indexed ELSE indexed \cap seen

Complete ==
    /\ pc = "loop" /\ Open = {}
    /\ indexed' = Kept /\ UNCHANGED seen
    /\ status' = "complete"
    /\ queued' = {} /\ done' = {} /\ cursor' = [s \in Sources |-> 0]
    /\ Stopped
    /\ UNCHANGED <<world, gap, faults, crashes, history>>

(* The catch of #reconcile.                                                *)
Fail ==
    /\ status' = "failed" /\ gap' = TRUE
    /\ Stopped
    /\ UNCHANGED <<world, tasks, index, crashes, history>>

ListParentGone == pc = "listing" /\ ParentGone /\ Fail /\ UNCHANGED faults

(* A request fails, or the invocation is aborted while it waits for one.   *)
RequestFails ==
    /\ pc \in {"collections", "listing", "documents"} /\ ~Synchronous
    /\ (pc = "documents" => page # {})
    /\ faults < MaxFaults /\ faults' = faults + 1
    /\ Fail

(* The host is killed: what is not in the database is lost.                *)
Crash ==
    /\ pc # "idle" /\ crashes < MaxCrashes /\ crashes' = crashes + 1
    /\ Stopped
    /\ UNCHANGED <<world, job, tasks, index, faults, history>>

-----------------------------------------------------------------------------
World == \E d \in Docs : Create(d) \/ Delete(d) \/ Hide(d) \/ Reveal(d)

(* What the reconciler does by itself when nothing fails; the periodic     *)
(* timer of the coordinator starts the next invocation.                    *)
Work ==
    \/ Resume \/ NewRun \/ ListCollections \/ Seeded \/ Take \/ ListPage
    \/ \E s \in Collections : Seed(s)
    \/ \E d \in Docs : StorePrivate(d) \/ StorePublic(d) \/ DocumentGone(d)
    \/ UpdateTask \/ UpdateJob \/ Suspend \/ Complete \/ ListParentGone

ReconcilerNext == World \/ Work \/ (\E d \in Docs : DocumentFails(d)) \/ RequestFails \/ Crash

ReconcilerSpec == ReconcilerInit /\ [][ReconcilerNext]_reconcilerVars
FairReconcilerSpec == ReconcilerSpec /\ WF_reconcilerVars(Work)

-----------------------------------------------------------------------------
(* Every variable has its type; a page holds children of the task in work, *)
(* and a pass never has more than MaxTasks tasks.                          *)
ReconcilerTypeOK ==
    /\ live \subseteq Docs /\ hidden \subseteq Docs /\ changes \in 0..MaxChanges
    /\ status \in {"never", "running", "incomplete", "complete", "failed"}
    /\ gap \in BOOLEAN /\ truncated \in BOOLEAN
    /\ queued \subseteq Sources /\ done \subseteq queued
    /\ Cardinality(queued) <= MaxTasks
    /\ cursor \in [Sources -> Nat] /\ next \in Nat /\ remaining \in 0..Budget
    /\ indexed \subseteq Docs /\ seen \subseteq Docs
    /\ pc \in {"idle", "collections", "seeding", "loop", "listing", "documents", "flags"}
    /\ task \in Sources \cup {None}
    /\ (pc \in {"listing", "documents", "flags"}) <=> (task # None)
    /\ page \subseteq {d \in Docs : ParentOf[d] = task}
    /\ faults \in 0..MaxFaults /\ crashes \in 0..MaxCrashes
    /\ steady \subseteq Docs /\ absent \subseteq Docs

(* A pass that reports complete without a gap has indexed every document   *)
(* that was visible from its beginning on, however the pages, the world    *)
(* and the failed requests interleaved (the status host tools report).     *)
(* That needs a host that is not killed: its statements commit one by one. *)
CompleteIsCurrent ==
    crashes = 0 /\ status = "complete" /\ ~gap => steady \subseteq indexed

IndexInv == ReconcilerTypeOK /\ CompleteIsCurrent

(* After such a pass nothing is left in the index that did not exist, or   *)
(* was private, during the whole pass; also when the pass was interrupted  *)
(* and resumed (the DELETE of unseen snapshots).                           *)
NoGhosts == status = "complete" /\ ~gap => indexed \cap absent = {}

(* No step removes the snapshot of a document that has been visible since  *)
(* the pass began: a partial traversal cannot prove that an unseen object  *)
(* was deleted (the comment on the DELETE in #reconcile).  A kill while    *)
(* the tasks of a run are seeded leaves a run that looks whole.            *)
PrunesOnlyDeleted == [][crashes = 0 => (indexed \ indexed') \cap steady' = {}]_reconcilerVars

(* Passes keep completing: what an invocation leaves open, or a kill or a  *)
(* failed request interrupts, a later invocation finishes; except that     *)
(* nobody takes back the task to list the children of a document that has  *)
(* been deleted meanwhile.                                                 *)
Orphaned == Open \cap (Docs \ live) # {}
PassesComplete == []<>(status = "complete" \/ Orphaned)
=============================================================================
