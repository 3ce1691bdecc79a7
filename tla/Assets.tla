------------------------------- MODULE Assets -------------------------------
(***************************************************************************)
(* The asset service of the Foundry page (packages/foundry-module/src/     *)
(* assets.ts) over an asset runtime (asset-runtime.ts): uploads of an      *)
(* image, and attachments, which store an image and then write its path    *)
(* into a document, and undo the first when the second fails.  Several     *)
(* calls run in the page at once, and the other users of the world store   *)
(* files and edit documents in between.                                    *)
(*                                                                         *)
(* Abstractions.  A file is the number of the store that put its bytes     *)
(* there, a document is the image it refers to and the number of its last  *)
(* write.  The payload is resolved, inspected and decoded in one step that *)
(* may fail: nothing of it is shared.  Every request to the Foundry server *)
(* is two steps.  The server is taken to store under the path it was asked *)
(* for, looks that fail before anything is stored are left out, and so are *)
(* compendia, which a rollback does not search either.  The production     *)
(* adapter has neither delete nor restore; the service is written for      *)
(* adapters that have them, and for those of them the rollback is modelled.*)
(***************************************************************************)
EXTENDS Integers, FiniteSets, Sequences

CONSTANTS
    Paths,       \* canonical paths, numbered in the order of localeCompare
    Target,      \* the destination path of the uploads
    Numbered,    \* the names Target gets with -1, -2, ...
    Old,         \* sets of paths that may be stored before
    Docs,        \* documents of the world
    Callers,     \* calls of one page
    Requests,    \* what each of them may ask, see RequestsAssumption
    Adapters,    \* the optional methods the runtime may have
    Writable,    \* destinations getWriteCapability allows, any of these sets
    None,        \* nothing
    MaxEdits     \* bound: edits by other users

MaxCounter == Len(Numbered)

ASSUME PathsAssumption ==
    /\ Paths \subseteq Nat /\ Target \in Paths /\ Old \subseteq SUBSET Paths
    /\ Numbered \in Seq(Paths \ {Target}) /\ Len(Numbered) > 0
    /\ None \notin Paths \cup Nat \cup Docs \cup {"delete", "restore", "CANCELLED"}
    /\ IsFiniteSet(Docs)

ASSUME RequestsAssumption ==
    /\ Adapters \subseteq SUBSET {"delete", "restore"} /\ Writable \subseteq SUBSET Paths
    /\ MaxEdits \in Nat
    /\ Requests \subseteq [Callers -> [kind : {"idle", "upload", "attach", "reference"},
                                       policy : {"error", "overwrite", "rename"},
                                       options : BOOLEAN]]

VARIABLES
    files,     \* per path, the number of the store that wrote it
    stores,    \* stores so far
    docs,      \* per document: [image, rev]
    writes,    \* document writes so far
    edits,     \* edits by other users so far
    runtime,   \* the adapter: its methods, and whether it refuses to replace
    request,   \* per caller: what it asks
    pc,        \* per caller: what it waits for
    call,      \* per caller: [doc, hash, path, counter, overwrite, undo, snapshot, todo]
    answer,    \* per caller: its answer
    seen       \* history, per caller: see Unseen

world == <<files, stores, docs, writes>>
fixed == <<runtime, request>>
calls == <<pc, call, answer>>
vars == <<world, edits, fixed, calls, seen>>

Exists(p) == files[p] # None
Uses(d, p) == docs[d].image = p
IsUpload(c) == request[c].kind = "upload"
Attaches(c) == request[c].kind = "attach"

----------------------------------------------------------------------------
(* Mutated forms of the definitions below, used by the mutation runs.      *)

NothingUploaded(c) == ~seen[c].stored
LastDocumentSkipped(c) == Cardinality(call[c].todo) <= 1
ReadAgain(c) == docs[call[c].doc].rev
UncheckedName(c) == FALSE
MarkNever(c, marked) ==
    seen' = [seen EXCEPT ![c].stored = marked, ![c].own = stores', ![c].over = files[call[c].path]]
PathForgotten(c, p, overwrite) ==
    /\ call' = [call EXCEPT ![c].overwrite = overwrite]
    /\ pc' = [pc EXCEPT ![c] = "payload"] /\ UNCHANGED answer

----------------------------------------------------------------------------
Unasked == [doc |-> None, hash |-> 0, path |-> None, counter |-> 0, overwrite |-> FALSE,
            undo |-> None, snapshot |-> None, todo |-> {}]

\* What the history remembers of a call: the number of stores when it looked
\* whether its path is free; what it stored over what; whether it called
\* markCommitted; the writes while its own was on the way to the server, and
\* what that replaced; the documents that have referred to its path ever
\* since its rollback began to look for them.
Unseen == [looked |-> 0, stored |-> FALSE, over |-> None, own |-> None, marked |-> FALSE,
           racing |-> {}, replaced |-> None, users |-> {}]

Init ==
    /\ \E old \in Old : files = [p \in Paths |-> IF p \in old THEN 0 ELSE None]
    /\ docs = [d \in Docs |-> [image |-> None, rev |-> 0]]
    /\ stores = 0 /\ writes = 0 /\ edits = 0
    /\ runtime \in [methods : Adapters, strict : BOOLEAN, legible : BOOLEAN, writable : Writable]
    /\ request \in Requests
    /\ pc = [c \in Callers |-> CASE request[c].kind = "idle" -> "answered"
                                 [] IsUpload(c) -> "target"
                                 [] OTHER -> "document"]
    /\ call = [c \in Callers |-> Unasked]
    /\ answer = [c \in Callers |-> None]
    /\ seen = [c \in Callers |-> Unseen]

\* A document is written: with it goes what the history says of it.
DocWritten(d, image) ==
    /\ writes' = writes + 1
    /\ docs' = [docs EXCEPT ![d] = [image |-> image, rev |-> writes']]

Witnessed(c, d, image) ==
    [seen[c] EXCEPT !.racing = IF pc[c] = "updating" /\ call[c].doc = d THEN @ \cup {writes + 1} ELSE @,
                    !.users = IF image = call[c].path THEN @ ELSE @ \ {d}]

Stored(p) ==
    /\ stores' = stores + 1
    /\ files' = [files EXCEPT ![p] = stores']

----------------------------------------------------------------------------
(* The other users of the world.                                           *)

OtherStores(p) ==
    /\ edits < MaxEdits /\ edits' = edits + 1
    /\ Stored(p)
    /\ UNCHANGED <<docs, writes, fixed, calls, seen>>

OtherEdits(d) ==
    /\ edits < MaxEdits /\ edits' = edits + 1
    /\ \E image \in {p \in Paths : Exists(p)} \cup {None} :
          /\ DocWritten(d, image)
          /\ seen' = [c \in Callers |-> Witnessed(c, d, image)]
    /\ UNCHANGED <<files, stores, fixed, calls>>

----------------------------------------------------------------------------
(* Answers, and the catch clause of attach.                                *)

Goes(c, where) == pc' = [pc EXCEPT ![c] = where]

Answers(c, a) ==
    /\ answer' = [answer EXCEPT ![c] = a]
    /\ Goes(c, "answered")

\* attach undoes its upload when the document was not written.
Fails(c, code) ==
    IF call[c].undo = None
    THEN Answers(c, code)
    ELSE /\ answer' = [answer EXCEPT ![c] = code]
         /\ Goes(c, "rollback")

\* #guard: the caller has cancelled, or the deadline is over.
Guarded == {"document", "target", "store", "update"}

Cancelled(c) ==
    /\ pc[c] \in Guarded /\ request[c].options
    /\ Fails(c, "CANCELLED")
    /\ UNCHANGED <<world, edits, fixed, call, seen>>

----------------------------------------------------------------------------
(* attach: the document, and the asset it already has.                     *)

ReadDocument(c, d) ==
    /\ pc[c] = "document"
    /\ call' = [call EXCEPT ![c].doc = d, ![c].hash = docs[d].rev]
    /\ Goes(c, IF Attaches(c) THEN "target" ELSE "reference")
    /\ UNCHANGED <<world, edits, fixed, answer, seen>>

\* An unknown document, one the user may not update, or another expected hash.
DocumentRefused(c) ==
    /\ pc[c] = "document"
    /\ Answers(c, "document_refused")
    /\ UNCHANGED <<world, edits, fixed, call, seen>>

ReferenceLooked(c, p) ==
    /\ pc[c] = "reference"
    /\ IF Exists(p)
       THEN /\ call' = [call EXCEPT ![c].path = p]
            /\ Goes(c, "audit") /\ UNCHANGED answer
       ELSE Answers(c, "NOT_FOUND") /\ UNCHANGED call
    /\ UNCHANGED <<world, edits, fixed, seen>>

----------------------------------------------------------------------------
(* #prepareUpload.                                                         *)

Looks(c) == seen' = [seen EXCEPT ![c].looked = stores]

Takes(c, p, overwrite) ==
    /\ call' = [call EXCEPT ![c].path = p, ![c].overwrite = overwrite]
    /\ Goes(c, "payload") /\ UNCHANGED answer

DestinationRefused(c) ==
    /\ pc[c] = "target" /\ Target \notin runtime.writable
    /\ Answers(c, "PERMISSION_DENIED")
    /\ UNCHANGED <<world, edits, fixed, call, seen>>

TargetLooked(c) ==
    /\ pc[c] = "target" /\ Target \in runtime.writable
    /\ Looks(c)
    /\ CASE ~Exists(Target) -> Takes(c, Target, FALSE)
         [] Exists(Target) /\ request[c].policy = "overwrite" -> Takes(c, Target, TRUE)
         [] Exists(Target) /\ request[c].policy = "error" ->
               Answers(c, "CONFLICT") /\ UNCHANGED call
         [] Exists(Target) /\ request[c].policy = "rename" ->
               /\ call' = [call EXCEPT ![c].counter = 1]
               /\ Goes(c, "name") /\ UNCHANGED answer
    /\ UNCHANGED <<world, edits, fixed>>

NameTaken(c) == Exists(Numbered[call[c].counter])

\* The counter is one ahead when the limit is tested: the last name of all is
\* looked at and never used.
NameLooked(c) ==
    /\ pc[c] = "name"
    /\ Looks(c)
    /\ IF call[c].counter = MaxCounter
       THEN Answers(c, "CONFLICT") /\ UNCHANGED call
       ELSE IF NameTaken(c)
            THEN call' = [call EXCEPT ![c].counter = @ + 1] /\ UNCHANGED <<pc, answer>>
            ELSE Takes(c, Numbered[call[c].counter], FALSE)
    /\ UNCHANGED <<world, edits, fixed>>

\* #resolvePayload, inspectImageBytes, decodeImage.
PayloadResolved(c) ==
    /\ pc[c] = "payload"
    /\ Goes(c, IF Attaches(c) THEN "compensation" ELSE "store")
    /\ UNCHANGED <<world, edits, fixed, call, answer, seen>>

PayloadRefused(c) ==
    /\ pc[c] = "payload"
    /\ \E code \in {"INVALID_DATA"} \cup (IF request[c].options THEN {"CANCELLED"} ELSE {}) :
          Answers(c, code)
    /\ UNCHANGED <<world, edits, fixed, call, seen>>

----------------------------------------------------------------------------
(* #prepareCompensation, and #assetIsReferenced, which reads the documents *)
(* one after the other.                                                    *)

CannotCompensate(c) ==
    /\ pc[c] = "compensation"
    /\ (IF call[c].overwrite THEN "restore" ELSE "delete") \notin runtime.methods
    /\ Answers(c, "upload_first")
    /\ UNCHANGED <<world, edits, fixed, call, seen>>

SnapshotTaken(c) ==
    /\ pc[c] = "compensation" /\ call[c].overwrite /\ "restore" \in runtime.methods
    /\ call' = [call EXCEPT ![c].undo = "restore", ![c].snapshot = files]
    /\ Goes(c, "audit")
    /\ UNCHANGED <<world, edits, fixed, answer, seen>>

ScanBegins(c) ==
    /\ pc[c] = "compensation" /\ ~call[c].overwrite /\ "delete" \in runtime.methods
    /\ call' = [call EXCEPT ![c].todo = Docs]
    /\ Goes(c, "scan")
    /\ UNCHANGED <<world, edits, fixed, answer, seen>>

ScanOver(c) == call[c].todo = {}

\* A document type that cannot be read counts as a reference.
Found(c) == ~runtime.legible \/ \E d \in call[c].todo : Uses(d, call[c].path)

ScanGoesOn(c) ==
    /\ pc[c] \in {"scan", "rescan"} /\ runtime.legible /\ ~ScanOver(c)
    /\ \E d \in call[c].todo :
          /\ ~Uses(d, call[c].path)
          /\ call' = [call EXCEPT ![c].todo = @ \ {d}]
    /\ UNCHANGED <<world, edits, fixed, pc, answer, seen>>

ScanClean(c) ==
    /\ runtime.legible /\ ScanOver(c)
    /\ \/ /\ pc[c] = "scan"
          /\ call' = [call EXCEPT ![c].undo = "delete"]
          /\ Goes(c, "audit")
       \/ /\ pc[c] = "rescan"
          /\ Goes(c, "deleting") /\ UNCHANGED call
    /\ UNCHANGED <<world, edits, fixed, answer, seen>>

\* An upload is refused, a rollback leaves the file.
ScanFound(c) ==
    /\ Found(c)
    /\ \/ pc[c] = "scan" /\ Answers(c, "CONFLICT")
       \/ pc[c] = "rescan" /\ Answers(c, "kept")
    /\ UNCHANGED <<world, edits, fixed, call, seen>>

ScanFailed(c) ==
    /\ pc[c] \in {"scan", "rescan"}
    /\ Answers(c, IF pc[c] = "scan" THEN "FOUNDRY_ERROR" ELSE "both_failed")
    /\ UNCHANGED <<world, edits, fixed, call, seen>>

----------------------------------------------------------------------------
(* The audit record, #commitUpload and the update of the document.         *)

Audited(c) ==
    /\ pc[c] = "audit"
    /\ Goes(c, IF Attaches(c) THEN "store" ELSE "update")
    /\ UNCHANGED <<world, edits, fixed, call, answer, seen>>

AuditFailed(c) ==
    /\ pc[c] = "audit"
    /\ Fails(c, "FOUNDRY_ERROR")
    /\ UNCHANGED <<world, edits, fixed, call, seen>>

StoreSent(c) ==
    /\ pc[c] = "store"
    /\ Goes(c, "storing")
    /\ UNCHANGED <<world, edits, fixed, call, answer, seen>>

\* A strict server refuses to replace what it was not told to replace.
Accepted(c) == ~runtime.strict \/ call[c].overwrite \/ ~Exists(call[c].path)

StoreSeen(c, marked) ==
    seen' = [seen EXCEPT ![c].stored = marked, ![c].own = stores', ![c].over = files[call[c].path],
                         ![c].marked = marked /\ request[c].options]

FileStored(c) ==
    /\ pc[c] = "storing" /\ Accepted(c)
    /\ Stored(call[c].path) /\ StoreSeen(c, TRUE)
    /\ IF IsUpload(c) THEN Answers(c, "ok") ELSE Goes(c, "update") /\ UNCHANGED answer
    /\ UNCHANGED <<docs, writes, edits, fixed, call>>

\* The store fails, or it succeeds and its answer is lost.
StoreFailed(c) ==
    /\ pc[c] = "storing"
    /\ \/ UNCHANGED <<files, stores, seen>>
       \/ Accepted(c) /\ Stored(call[c].path) /\ StoreSeen(c, FALSE)
    /\ Fails(c, "FOUNDRY_ERROR")
    /\ UNCHANGED <<docs, writes, edits, fixed, call>>

ExpectedHash(c) == call[c].hash
Conflict(c) == docs[call[c].doc].rev # ExpectedHash(c)

UpdateRefused(c) ==
    /\ pc[c] = "update"
    /\ Fails(c, IF Conflict(c) THEN "CONFLICT" ELSE "document_refused")
    /\ UNCHANGED <<world, edits, fixed, call, seen>>

UpdateSent(c) ==
    /\ pc[c] = "update" /\ ~Conflict(c)
    /\ Goes(c, "updating")
    /\ seen' = [seen EXCEPT ![c].racing = {}]
    /\ UNCHANGED <<world, edits, fixed, call, answer>>

UpdateCommits(c) ==
    LET d == call[c].doc
        p == call[c].path
    IN  /\ DocWritten(d, p)
        /\ seen' = [o \in Callers |->
                      IF o = c THEN [Witnessed(c, d, p) EXCEPT !.replaced = docs[d].rev]
                      ELSE Witnessed(o, d, p)]

DocumentUpdated(c) ==
    /\ pc[c] = "updating"
    /\ UpdateCommits(c)
    /\ Answers(c, "ok")
    /\ UNCHANGED <<files, stores, edits, fixed, call>>

\* The update fails, or it succeeds and its answer is lost.
UpdateFailed(c) ==
    /\ pc[c] = "updating"
    /\ UpdateCommits(c) \/ UNCHANGED <<docs, writes, seen>>
    /\ Fails(c, "FOUNDRY_ERROR")
    /\ UNCHANGED <<files, stores, edits, fixed, call>>

----------------------------------------------------------------------------
(* #compensateUpload.                                                      *)

Restored(c) ==
    /\ pc[c] = "rollback" /\ call[c].undo = "restore"
    /\ files' = call[c].snapshot
    /\ Answers(c, answer[c])
    /\ UNCHANGED <<stores, docs, writes, edits, fixed, call, seen>>

NothingToDelete(c) == ~Exists(call[c].path)

RollbackLooks(c) ==
    /\ pc[c] = "rollback" /\ call[c].undo = "delete"
    /\ IF NothingToDelete(c)
       THEN Answers(c, answer[c]) /\ UNCHANGED <<call, seen>>
       ELSE /\ call' = [call EXCEPT ![c].todo = Docs]
            /\ seen' = [seen EXCEPT ![c].users = {d \in Docs : Uses(d, call[c].path)}]
            /\ Goes(c, "rescan") /\ UNCHANGED answer
    /\ UNCHANGED <<world, edits, fixed>>

Deleted(c) ==
    /\ pc[c] = "deleting"
    /\ files' = [files EXCEPT ![call[c].path] = None]
    /\ Answers(c, answer[c])
    /\ UNCHANGED <<stores, docs, writes, edits, fixed, call, seen>>

RollbackFailed(c) ==
    /\ pc[c] \in {"rollback", "deleting"}
    /\ Answers(c, "both_failed")
    /\ UNCHANGED <<world, edits, fixed, call, seen>>

----------------------------------------------------------------------------
Call(c) ==
    \/ Cancelled(c) \/ DocumentRefused(c) \/ DestinationRefused(c) \/ TargetLooked(c)
    \/ \E d \in Docs : ReadDocument(c, d)
    \/ \E p \in Paths : ReferenceLooked(c, p)
    \/ NameLooked(c) \/ PayloadResolved(c) \/ PayloadRefused(c)
    \/ CannotCompensate(c) \/ SnapshotTaken(c)
    \/ ScanBegins(c) \/ ScanGoesOn(c) \/ ScanClean(c) \/ ScanFound(c) \/ ScanFailed(c)
    \/ Audited(c) \/ AuditFailed(c) \/ StoreSent(c) \/ FileStored(c) \/ StoreFailed(c)
    \/ UpdateRefused(c) \/ UpdateSent(c) \/ DocumentUpdated(c) \/ UpdateFailed(c)
    \/ Restored(c) \/ RollbackLooks(c) \/ Deleted(c) \/ RollbackFailed(c)

Others == \/ \E p \in Paths : OtherStores(p)
          \/ \E d \in Docs : OtherEdits(d)

Next == Others \/ \E c \in Callers : Call(c)

Spec == Init /\ [][Next]_vars

----------------------------------------------------------------------------
AssetsTypeOK ==
    /\ files \in [Paths -> (0 .. stores) \cup {None}]
    /\ \A d \in Docs : docs[d].image \in Paths \cup {None} /\ docs[d].rev \in 0 .. writes
    /\ \A c \in Callers :
          /\ pc[c] \in {"document", "reference", "target", "name", "payload", "compensation",
                        "scan", "audit", "store", "storing", "update", "updating", "rollback",
                        "rescan", "deleting", "answered"}
          /\ pc[c] \in {"store", "storing", "update", "updating"} => call[c].path \in Paths
          /\ call[c].counter \in 0 .. MaxCounter /\ call[c].todo \subseteq Docs

Answered(c) == pc[c] = "answered" /\ request[c].kind # "idle"

\* A failed attachment deletes the file it stored only when no document has
\* referred to that file all the time since the rollback began to look:
\* reading the documents one after the other, while they change, is enough
\* for the references that stay.
RollbackSparesReferences == \A c \in Callers : pc[c] = "deleting" => seen[c].users = {}

\* The other rollback restores a snapshot of all files: it removes what
\* others have stored since, and brings back what they have removed.
Restores(c) ==
    Answered(c) /\ call[c].undo = "restore" /\ answer[c] \notin {"ok", "both_failed"}
OthersRestore(c) == \E o \in Callers \ {c} : Restores(o)

\* An attachment that failed, and whose rollback neither failed nor found a
\* reference to the file, has left no file behind, even when the answer to its
\* store was lost; unless another rollback put back what that one had stored.
NothingLeftBehind ==
    \A c \in Callers :
        Answered(c) /\ Attaches(c) /\ answer[c] \notin {"ok", "both_failed", "kept"} /\ seen[c].own # None =>
            files[call[c].path] # seen[c].own \/ OthersRestore(c)

\* The file a rollback is about to delete was not there when the call found
\* its path free: it has come since, or was put back by another rollback.
RollbackSparesOlder ==
    \A c \in Callers :
        pc[c] = "deleting" /\ Exists(call[c].path) =>
            files[call[c].path] > seen[c].looked \/ OthersRestore(c)

\* A rollback deletes no file that was there before the call, none that a
\* document has referred to while the rollback looked, and leaves none of the
\* failed call behind.  Whose the file is, it does not ask: see
\* DeletesOnlyItsOwn.
RollbackIsRight == RollbackSparesReferences /\ RollbackSparesOlder /\ NothingLeftBehind

\* What one would like to add, and the code does not promise: the rollback
\* tests only that a file is at its path, so a call whose own store wrote
\* nothing deletes what another has stored there since, unless a document
\* refers to it already.
DeletesOnlyItsOwn ==
    \A c \in Callers :
        pc[c] = "deleting" /\ Exists(call[c].path) => files[call[c].path] = seen[c].own

\* An upload that was not told to overwrite replaces a file only if that was
\* stored after it had looked whether the path is free, or was put back by
\* another rollback.
OnlyUnseenReplaced ==
    \A c \in Callers :
        seen[c].over # None /\ ~call[c].overwrite =>
            seen[c].over > seen[c].looked \/ OthersRestore(c)

\* An attachment replaces the document as it was read before the image was
\* resolved and stored, or a write that arrived while its own was on the way.
AttachLosesNothing ==
    \A c \in Callers :
        seen[c].replaced # None => seen[c].replaced \in seen[c].racing \cup {call[c].hash}

\* No call replaces a file or a document that it could have seen to be another's.
NothingReplacedUnseen == OnlyUnseenReplaced /\ AttachLosesNothing

\* A call that is answered CANCELLED either has stored nothing or has told
\* its caller of the store (markCommitted) before.
CancelledIsHonest ==
    \A c \in Callers :
        answer[c] = "CANCELLED" /\ seen[c].own # None => seen[c].marked

\* What the comment on #compensateUpload hopes for; it holds for references
\* that were there when the rollback began to look, not for later ones, nor
\* when a snapshot is restored.
NoBrokenReference ==
    \A d \in Docs : docs[d].image # None => Exists(docs[d].image)
=============================================================================
