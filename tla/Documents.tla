----------------------------- MODULE Documents -----------------------------
(***************************************************************************)
(* The document service of the Foundry page                                *)
(* (packages/foundry-module/src/documents.ts) over Foundry's own           *)
(* collections (packages/foundry-module/src/runtime.ts): paginated         *)
(* listings, creation of a batch, and optimistic updates, while the other  *)
(* users of the world keep editing it.                                     *)
(*                                                                         *)
(* Abstractions.  A document is its name, whether the connected user may   *)
(* read it, and the number of the write that made it what it is: the       *)
(* source hash and the source version tell two contents apart exactly when *)
(* their numbers differ.  Every call that stays inside the browser is one  *)
(* step; a call that reaches the Foundry server is two, and everybody else *)
(* may act in between.  The connected user is the Game Master, whom canCreate *)
(* and canUpdate allow everything Foundry itself does not refuse.          *)
(***************************************************************************)
EXTENDS Integers, FiniteSets, Sequences

CONSTANTS
    Docs,        \* ids documents have or may get, in the order of compareText
    Names,       \* their names, in that order
    InitName,    \* the name each document begins with
    ParentOf,    \* the document an embedded one belongs to, or None
    Packed,      \* root documents that live in the one compendium
    Root,        \* the document whose embedded documents are listed
    Unfit,       \* which items may be of a type the user cannot create
    Items,       \* the batch: the ids Foundry gives the items, in this order
    Targets,     \* documents the updates are about
    Updaters,    \* concurrent updates of one page
    CanRestore,  \* the runtime offers snapshotState and restoreState
    Work,        \* what the clients do at the same time, see WorkAssumption
    PageSize,    \* items per page
    MaxDepth,    \* maxDepth of a recursive embedded listing
    None,        \* nothing
    MaxEdits     \* bound: edits by other users

ASSUME DocsAssumption ==
    /\ Docs \subseteq Nat \ {0} /\ Names \subseteq Nat /\ IsFiniteSet(Docs)
    /\ None \notin Docs /\ Packed \subseteq Docs /\ Root \in Docs \ Packed
    /\ ParentOf \in [Docs -> Docs \cup {None}] /\ InitName \in [Docs -> Names]
    /\ \A d \in Docs : d \in Packed => ParentOf[d] = None
    /\ None \notin Nat \X Nat                                      \* no sort key
    /\ None \notin [name : Names, shown : BOOLEAN, rev : Nat]      \* no contents

\* No document contains itself: in every set of documents there is one whose
\* parent is outside.
ASSUME ContainmentAssumption ==
    \A S \in SUBSET Docs : S # {} => \E d \in S : ParentOf[d] \notin S

ASSUME WorkAssumption ==
    /\ Items \in Seq(Docs) /\ Targets \subseteq Docs
    /\ CanRestore \in BOOLEAN /\ Unfit \subseteq SUBSET DOMAIN Items
    /\ Work \subseteq SUBSET ({"list", "create"} \cup Updaters)
    /\ {PageSize, MaxDepth} \subseteq Nat \ {0} /\ MaxEdits \in Nat

Indexes == DOMAIN Items

VARIABLES
    world,     \* the documents there are: [name, shown, rev], or None
    locked,    \* the compendium is locked
    writes,    \* writes so far: the number of the latest
    edits,     \* edits by other users so far
    listing,   \* a client that follows the cursors of one listing
    batch,     \* a client that creates a batch
    update,    \* per updater: a client that reads a document and updates it
    steady,    \* history: entries that stayed in the listing, their key unchanged
    made,      \* history: items of the batch that were created and not restored
    racing     \* history, per updater: the writes since its comparison

foundry == <<world, locked, writes>>
history == <<steady, made, racing>>
vars == <<foundry, edits, listing, batch, update, history>>

Exists(d) == world[d] # None
Missing == [d \in Docs |-> None]

Line[d \in Docs] == {d} \cup (IF ParentOf[d] \in Docs THEN Line[ParentOf[d]] ELSE {})

----------------------------------------------------------------------------
(* Mutated forms of the definitions below, used by the mutation runs.      *)

CreatableOrphan(d) == ~Exists(d)
RestoredNothing(d) == world[d]
ConflictNever(u) == FALSE

----------------------------------------------------------------------------
(* Foundry, as the adapter of the page uses it.                            *)

canRead(w, d) == w[d] # None /\ w[d].shown

\* The source hash and the version of a document.
sourceVersion(d) == world[d].rev

\* A write: the document gets the number of the write.
Written(d, name, shown) ==
    /\ writes' = writes + 1
    /\ world' = [world EXCEPT ![d] = [name |-> name, shown |-> shown, rev |-> writes']]

\* What Foundry refuses to create: a child without its parent, an entry of a
\* locked compendium.
Creatable(d) ==
    /\ ~Exists(d)
    /\ ParentOf[d] # None => Exists(ParentOf[d])
    /\ d \in Packed => ~locked

----------------------------------------------------------------------------
(* Listings: what they list, in which order, and what a page is.           *)

Below(d) == {e \in Docs : d \in Line[e] \ {e}}
DepthBelow(d, e) == Cardinality(Line[e] \ Line[d])

\* embeddedList walks the readable documents below the parent, level by level.
Reachable(w, q) ==
    {e \in Below(Root) :
        /\ \A a \in Line[e] \ Line[Root] : canRead(w, a)
        /\ DepthBelow(Root, e) <= IF q.recursive THEN MaxDepth ELSE 1}

TooDeep(q) ==
    /\ q.recursive
    /\ \E e \in Below(Root) :
          /\ canRead(world, e) /\ ParentOf[e] \in Reachable(world, q)
          /\ DepthBelow(Root, e) = MaxDepth + 1

listRootDocuments(w) == {d \in Docs : ParentOf[d] = None /\ d \notin Packed /\ canRead(w, d)}
getDocuments(w) == {d \in Packed : canRead(w, d)}
getIndex(w) == {d \in Packed : w[d] # None}    \* not filtered by permission

Entries(w, q) ==
    CASE q.kind = "documents" -> listRootDocuments(w)
      [] q.kind = "hydrated"  -> getDocuments(w)
      [] q.kind = "index"     -> getIndex(w)
      [] q.kind = "embedded"  -> IF canRead(w, Root) THEN Reachable(w, q) ELSE {}

\* #sortValue with the id as tie-break.
Key(w, q, d) == <<IF q.field = "name" THEN w[d].name ELSE d, d>>

Less(k, l) == k[1] < l[1] \/ (k[1] = l[1] /\ k[2] < l[2])

\* #compareDocuments, #compareDocumentToCursor and their two twins for the index.
Before(q, k, l) == IF q.direction = "asc" THEN Less(k, l) ELSE Less(l, k)

\* A mutated form: the cursor without its id.
AfterCursorByField(q) ==
    {d \in Entries(world, q) :
        q.cursor = None \/ (/\ Before(q, q.cursor, Key(world, q, d))
                            /\ q.cursor[1] # Key(world, q, d)[1])}

AfterCursor(q) ==
    {d \in Entries(world, q) : q.cursor = None \/ Before(q, q.cursor, Key(world, q, d))}

Page(q, size) ==
    {d \in AfterCursor(q) :
        Cardinality({e \in AfterCursor(q) : Before(q, Key(world, q, e), Key(world, q, d))}) < size}

NextCursor(q, size) ==
    IF Page(q, size) = AfterCursor(q) THEN None
    ELSE CHOOSE k \in {Key(world, q, d) : d \in Page(q, size)} :
            \A d \in Page(q, size) : ~Before(q, k, Key(world, q, d))

----------------------------------------------------------------------------
Idle == [status |-> "idle"]

Queries ==
    {[kind |-> k, field |-> f, direction |-> o, recursive |-> FALSE, cursor |-> None] :
        k \in {"documents", "hydrated", "index"}, f \in {"id", "name"}, o \in {"asc", "desc"}}
    \cup {[kind |-> "embedded", field |-> "id", direction |-> "asc", recursive |-> r,
           cursor |-> None] : r \in BOOLEAN}

Init ==
    /\ world = [d \in Docs |->
                  IF \E i \in Indexes : Items[i] \in Line[d] THEN None
                  ELSE [name |-> InitName[d], shown |-> TRUE, rev |-> 0]]
    /\ locked = FALSE /\ writes = 0 /\ edits = 0
    /\ \E work \in Work :
          /\ listing \in IF "list" \in work
                         THEN [status : {"paging"}, query : Queries, complete : {TRUE},
                               listed : {[d \in Docs |-> 0]}]
                         ELSE {Idle}
          /\ batch \in IF "create" \in work
                       THEN [status : {"called"}, atomic : BOOLEAN, dryRun : BOOLEAN,
                             unfit : Unfit]
                       ELSE {Idle}
          /\ update = [u \in Updaters |->
                         IF u \in work THEN [status |-> "called"] ELSE Idle]
    /\ steady = IF listing = Idle THEN {} ELSE Entries(world, listing.query)
    /\ made = {}
    /\ racing = [u \in Updaters |-> {}]

\* What every write means for the history.
Observe ==
    /\ steady' = {d \in steady :
                    /\ d \in Entries(world', listing.query)
                    /\ Key(world', listing.query, d) = Key(world, listing.query, d)}
    /\ racing' = [u \in Updaters |->
                    IF update[u].status = "sent" THEN racing[u] \cup (writes + 1 .. writes') ELSE racing[u]]

----------------------------------------------------------------------------
(* The other users.                                                        *)

Edit ==
    /\ edits < MaxEdits /\ edits' = edits + 1
    /\ Observe
    /\ UNCHANGED <<listing, batch, update, made>>

OtherWrites(d) ==
    /\ Exists(d)
    /\ \E name \in Names, shown \in BOOLEAN : Written(d, name, shown)
    /\ UNCHANGED locked
    /\ Edit

OtherDeletes(d) ==
    /\ Exists(d)
    /\ world' = [e \in Docs |-> IF d \in Line[e] THEN None ELSE world[e]]
    /\ writes' = writes + 1
    /\ UNCHANGED locked
    /\ Edit

OtherLocks ==
    /\ locked' = ~locked
    /\ UNCHANGED <<world, writes>>
    /\ Edit

----------------------------------------------------------------------------
(* documents.list, compendiums.documents.list, documents.embedded.list:    *)
(* one page, and the request for the next with the cursor it returned.     *)

ListPage ==
    /\ listing.status = "paging"
    /\ listing.query.kind = "embedded" => canRead(world, Root)
    /\ LET q == listing.query
       IN  listing' = [listing EXCEPT
              !.listed = [d \in Docs |-> IF d \in Page(q, PageSize) THEN @[d] + 1 ELSE @[d]],
              !.complete = @ /\ ~(q.kind = "embedded" /\ TooDeep(q)),
              !.query.cursor = NextCursor(q, PageSize),
              !.status = IF NextCursor(q, PageSize) = None THEN "done" ELSE "paging"]
    /\ UNCHANGED <<foundry, edits, batch, update, history>>

\* A parent that is gone or unreadable ends the traversal with an error.
ListRefused ==
    /\ listing.status = "paging" /\ listing.query.kind = "embedded"
    /\ ~canRead(world, Root)
    /\ listing' = [listing EXCEPT !.status = "refused"]
    /\ UNCHANGED <<foundry, edits, batch, update, history>>

----------------------------------------------------------------------------
(* documents.create, as module-entry.ts calls it: without options, so that *)
(* nothing cancels it between two items.                                   *)

AnswerBatch(answer) == batch' = [status |-> "answered", call |-> batch, answer |-> answer]

ItemFits(i) ==
    /\ i \notin batch.unfit
    /\ ParentOf[Items[i]] # None => Exists(ParentOf[Items[i]])
    /\ Items[i] \in Packed => ~locked

BatchNotSupported == batch.atomic /\ ~batch.dryRun /\ ~CanRestore

\* #validateCreate of every item; nothing is written on this way.
BatchRefused ==
    /\ batch.status = "called"
    /\ \/ BatchNotSupported /\ AnswerBatch("UNSUPPORTED_TYPE")
       \/ ~BatchNotSupported /\ batch.dryRun /\ AnswerBatch("validated")
       \/ /\ ~BatchNotSupported /\ ~batch.dryRun /\ batch.atomic
          /\ \E i \in Indexes : ~ItemFits(i)
          /\ AnswerBatch("not_attempted")
    /\ UNCHANGED <<foundry, edits, listing, update, history>>

BatchBegins ==
    /\ batch.status = "called"
    /\ ~BatchNotSupported /\ ~batch.dryRun
    /\ batch.atomic => \A i \in Indexes : ItemFits(i)
    /\ batch' = [status |-> "creating", atomic |-> batch.atomic,
                 fit |-> {i \in Indexes : ItemFits(i)}, next |-> 1, created |-> {},
                 snapshot |-> IF batch.atomic THEN world ELSE Missing]
    /\ UNCHANGED <<foundry, edits, listing, update, history>>

Advance(created) == batch' = [batch EXCEPT !.next = @ + 1, !.created = created]

ItemSkipped ==
    /\ batch.status = "creating" /\ batch.next \in Indexes \ batch.fit
    /\ Advance(batch.created)
    /\ UNCHANGED <<foundry, edits, listing, update, history>>

\* Foundry creates the item.
Created ==
    /\ Creatable(Items[batch.next])
    /\ \E name \in Names : Written(Items[batch.next], name, TRUE)
    /\ made' = made \cup {batch.next}
    /\ Observe

ItemCreated ==
    /\ batch.status = "creating" /\ batch.next \in batch.fit
    /\ Created
    /\ Advance(batch.created \cup {batch.next})
    /\ UNCHANGED <<locked, edits, listing, update>>

\* createDocument rejects, whether Foundry refused the item or created it: a hook
\* may throw afterwards, or the document may not come back.  A batch that is not
\* atomic goes on, ...
ItemFailed ==
    /\ batch.status = "creating" /\ batch.next \in batch.fit
    /\ Created \/ UNCHANGED <<world, writes, history>>
    /\ IF batch.atomic THEN batch' = [batch EXCEPT !.status = "failing"] ELSE Advance(batch.created)
    /\ UNCHANGED <<locked, edits, listing, update>>

Restored(d) ==
    IF batch.snapshot[d] \in {world[d], None} THEN batch.snapshot[d]
    ELSE [batch.snapshot[d] EXCEPT !.rev = writes + 1]

\* ... an atomic one puts back the world as it was before the batch, ...
BatchRolledBack ==
    /\ batch.status = "failing"
    /\ writes' = writes + 1
    /\ world' = [d \in Docs |-> Restored(d)]
    /\ made' = {i \in made : world'[Items[i]] # None}
    /\ Observe
    /\ AnswerBatch("rolled_back")
    /\ UNCHANGED <<locked, edits, listing, update>>

\* ... or fails to and says so (partialSideEffectsPossible).
RollbackFailed ==
    /\ batch.status = "failing"
    /\ AnswerBatch("rollback_failed")
    /\ UNCHANGED <<foundry, edits, listing, update, history>>

BatchCompleted ==
    /\ batch.status = "creating" /\ batch.next \notin Indexes
    /\ AnswerBatch(IF batch.created = Indexes THEN "committed" ELSE "partly")
    /\ UNCHANGED <<foundry, edits, listing, update, history>>

----------------------------------------------------------------------------
(* documents.get and documents.update of one client.                       *)

\* The client reads the document and notes its hash, or decides to force.
Read(u, d) ==
    /\ update[u].status = "called"
    /\ canRead(world, d)
    /\ \E mode \in {"expected", "force", "dryRun"} :
          update' = [update EXCEPT ![u] = [status |-> "calling", doc |-> d, mode |-> mode,
                                           expected |-> sourceVersion(d)]]
    /\ UNCHANGED <<foundry, edits, listing, batch, history>>

AnswerUpdate(u, answer) ==
    update' = [update EXCEPT ![u] = [status |-> "answered", call |-> @, answer |-> answer]]

Permitted(u) ==
    /\ canRead(world, update[u].doc)
    /\ update[u].doc \in Packed => ~locked

Conflict(u) == update[u].mode # "force" /\ sourceVersion(update[u].doc) # update[u].expected

\* The document is resolved, then compared: an entry of the compendium may be
\* fetched first, but the comparison and the call of Foundry's update are one.
UpdateRefused(u) ==
    /\ update[u].status = "calling"
    /\ \/ ~Permitted(u) /\ AnswerUpdate(u, "denied")
       \/ Permitted(u) /\ Conflict(u) /\ AnswerUpdate(u, "CONFLICT")
       \/ Permitted(u) /\ ~Conflict(u) /\ update[u].mode = "dryRun" /\ AnswerUpdate(u, "validated")
    /\ UNCHANGED <<foundry, edits, listing, batch, history>>

UpdateSent(u) ==
    /\ update[u].status = "calling"
    /\ Permitted(u) /\ ~Conflict(u) /\ update[u].mode # "dryRun"
    /\ update' = [update EXCEPT ![u].status = "sent"]
    /\ racing' = [racing EXCEPT ![u] = {}]
    /\ UNCHANGED <<foundry, edits, listing, batch, steady, made>>

\* The server applies it, to whatever the document has become, or refuses it.
UpdateCommitted(u) ==
    /\ update[u].status = "sent" /\ Exists(update[u].doc)
    /\ LET d == update[u].doc
       IN  /\ \E name \in Names : Written(d, name, world[d].shown)
           /\ update' = [update EXCEPT ![u] =
                            [status |-> "answered", call |-> @, answer |-> "committed",
                             replaced |-> sourceVersion(d)]]
    /\ Observe
    /\ UNCHANGED <<locked, edits, listing, batch, made>>

UpdateFailed(u) ==
    /\ update[u].status = "sent"
    /\ AnswerUpdate(u, "FOUNDRY_ERROR")
    /\ UNCHANGED <<foundry, edits, listing, batch, history>>

Next ==
    \/ \E d \in Docs : OtherWrites(d) \/ OtherDeletes(d)
    \/ OtherLocks \/ ListPage \/ ListRefused
    \/ BatchRefused \/ BatchBegins \/ BatchCompleted
    \/ ItemSkipped \/ ItemCreated \/ ItemFailed \/ BatchRolledBack \/ RollbackFailed
    \/ \E u \in Updaters : \/ \E d \in Targets : Read(u, d)
                           \/ UpdateRefused(u) \/ UpdateSent(u)
                           \/ UpdateCommitted(u) \/ UpdateFailed(u)

Spec == Init /\ [][Next]_vars

----------------------------------------------------------------------------
TypeOK ==
    /\ world \in [Docs -> [name : Names, shown : BOOLEAN, rev : 0 .. writes] \cup {None}]
    /\ \A d \in Docs : Exists(d) => \A a \in Line[d] : Exists(a)
    /\ listing.status \in {"idle", "paging", "done", "refused"}
    /\ batch.status \in {"idle", "called", "creating", "failing", "answered"}
    /\ \A u \in Updaters : update[u].status \in {"idle", "called", "calling", "sent", "answered"}
    /\ steady \subseteq Docs /\ made \subseteq Indexes
    /\ \A u \in Updaters : racing[u] \subseteq 1 .. writes

\* Whoever follows nextCursor to the end has seen every entry that was there
\* all the time under an unchanged sort key, exactly once, whatever was
\* created, renamed or deleted around it, in either direction and with names
\* that several documents share.  An embedded listing promises it unless one
\* of its pages said that it is truncated.
SteadyListedOnce ==
    listing.status = "done" /\ listing.complete =>
        \A d \in steady : listing.listed[d] = 1

\* The answer of a batch is true of what Foundry has done, although an item may be
\* there whose creation failed: "committed" means all of it; what it lists as created
\* was created, also when the rollback failed; an atomic batch is never half done
\* without saying so; and whatever else was answered, nothing is left of the batch.
BatchAnswerIsTrue ==
    batch.status = "answered" =>
        CASE batch.answer = "committed"       -> made = Indexes
          [] batch.answer = "partly"          -> ~batch.call.atomic /\ batch.call.created \subseteq made
          [] batch.answer = "rollback_failed" -> batch.call.created \subseteq made
          [] OTHER                            -> made = {}

\* The stronger promise, which the code does not keep: an item that is answered as
\* an error does not exist.
FailedItemsAreNotThere ==
    batch.status = "answered" /\ batch.answer = "partly" => made = batch.call.created

\* An update that was not forced replaces the revision its client has read,
\* or one that was written while the update was on its way to the server.
LostOnlyInFlight ==
    \A u \in Updaters :
        update[u].status = "answered" /\ update[u].answer = "committed" =>
            \/ update[u].call.mode = "force"
            \/ update[u].replaced \in racing[u] \cup {update[u].call.expected}

\* The precondition the clients are promised: nothing is overwritten unseen.
NothingOverwrittenUnseen ==
    \A u \in Updaters :
        update[u].status = "answered" /\ update[u].answer = "committed" =>
            update[u].call.mode = "force" \/ update[u].replaced = update[u].call.expected
=============================================================================
