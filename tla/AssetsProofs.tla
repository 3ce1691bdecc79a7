---------------------------- MODULE AssetsProofs ----------------------------
(***************************************************************************)
(* What uploads, attachments and listings of images promise for every      *)
(* number of calls, every folder tree and every page size, while the other *)
(* users of the world store files and edit documents.                      *)
(***************************************************************************)
EXTENDS AssetListing, FiniteSetTheorems, WellFoundedInduction, TLAPS

Stores == Nat \cup {None}

Stages ==
    {"document", "reference", "target", "name", "payload", "compensation", "scan", "audit",
     "store", "storing", "update", "updating", "rollback", "rescan", "deleting", "answered"}

CallRecords ==
    [doc : Docs \cup {None}, hash : Nat, path : Paths \cup {None}, counter : 0 .. MaxCounter,
     overwrite : BOOLEAN, undo : {None, "delete", "restore"},
     snapshot : [Paths -> Stores] \cup {None}, todo : SUBSET Docs]

SeenRecords ==
    [looked : Nat, stored : BOOLEAN, over : Stores, own : Stores, marked : BOOLEAN,
     racing : SUBSET Nat, replaced : Stores, users : SUBSET Docs]

WorldPart ==
    /\ stores \in Nat /\ files \in [Paths -> (0 .. stores) \cup {None}]
    /\ writes \in Nat /\ docs \in [Docs -> [image : Paths \cup {None}, rev : 0 .. writes]]
    /\ runtime \in [methods : Adapters, strict : BOOLEAN, legible : BOOLEAN, writable : Writable]
    /\ request \in Requests

CallsPart ==
    /\ pc \in [Callers -> Stages]
    /\ call \in [Callers -> CallRecords]
    /\ answer = [c \in Callers |-> answer[c]]
    /\ seen \in [Callers -> SeenRecords]

(* Where a call may be, what it knows there, and what it can undo.         *)
IsReference(c) == request[c].kind = "reference"
Early == {"document", "reference", "target", "name", "payload", "compensation", "scan"}
Preparing == {"payload", "compensation", "scan", "audit", "store", "storing"}
Undoing == {"rollback", "rescan", "deleting"}
Placed == Preparing \cup {"update", "updating"} \cup Undoing
Codes == {"CANCELLED", "FOUNDRY_ERROR", "CONFLICT", "document_refused"}

StageFits(c) ==
    /\ IsUpload(c) =>
          /\ pc[c] \in {"target", "name", "payload", "store", "storing", "answered"}
          /\ call[c].undo = None
    /\ IsReference(c) =>
          /\ pc[c] \in {"document", "reference", "audit", "update", "updating", "answered"}
          /\ call[c].undo = None
    /\ Attaches(c) =>
          /\ pc[c] # "reference"
          /\ pc[c] \in {"audit", "store", "storing", "update", "updating"} => call[c].undo # None
    /\ request[c].kind = "idle" => pc[c] = "answered"
    /\ pc[c] \in Early => call[c].undo = None
    /\ pc[c] \in Undoing => call[c].undo # None /\ answer[c] \in Codes
    /\ pc[c] \in {"rescan", "deleting"} => call[c].undo = "delete"
    /\ pc[c] = "scan" \/ call[c].undo = "delete" => ~call[c].overwrite

Addressed(c) ==
    /\ pc[c] \in Preparing \cup {"update", "updating"} => call[c].path \in Paths
    /\ call[c].undo # None => call[c].path \in Paths
    /\ pc[c] \in {"update", "updating"} => call[c].doc \in Docs
    /\ ~IsUpload(c) /\ pc[c] \notin {"document", "answered"} => call[c].doc \in Docs
    /\ pc[c] = "name" => call[c].counter > 0

(* A call that has not been under way to the server has changed nothing,   *)
(* and one that changed a document is over, but for its rollback.          *)
Untouched(c) ==
    /\ pc[c] \notin {"update", "updating", "answered"} \cup Undoing =>
          seen[c].own = None /\ seen[c].over = None
    /\ pc[c] \notin {"answered"} \cup Undoing =>
          seen[c].replaced = None /\ answer[c] # "CANCELLED"
    /\ IsReference(c) => seen[c].own = None /\ seen[c].over = None
    /\ Attaches(c) /\ call[c].undo = None => seen[c].own = None

(* What was stored and then cancelled was announced before.                *)
Announced(c) ==
    /\ pc[c] \in {"update", "updating"} /\ seen[c].own # None /\ request[c].options => seen[c].marked
    /\ answer[c] = "CANCELLED" /\ seen[c].own # None => seen[c].marked

(* A snapshot was taken before the call stored its file.                   *)
SnapshotIsOlder(c) ==
    /\ seen[c].own # None => seen[c].own <= stores
    /\ call[c].undo = "restore" =>
          /\ call[c].snapshot \in [Paths -> (0 .. stores) \cup {None}]
          /\ seen[c].own # None => \A p \in Paths : call[c].snapshot[p] # seen[c].own

LeavesNothing(c) ==
    Answered(c) /\ Attaches(c) /\ answer[c] \notin {"ok", "both_failed", "kept"} /\ seen[c].own # None =>
        files[call[c].path] # seen[c].own \/ OthersRestore(c)

(* The path a call is to store at, or to clear, was free when the call     *)
(* looked: what is there now is younger, or was put back.                  *)
FreeWhenLooked(c) ==
    /\ seen[c].looked <= stores
    /\ pc[c] \in Placed /\ ~IsReference(c) /\ ~call[c].overwrite /\ Exists(call[c].path) =>
          files[call[c].path] > seen[c].looked \/ OthersRestore(c)
    /\ seen[c].over # None /\ ~call[c].overwrite =>
          seen[c].over > seen[c].looked \/ OthersRestore(c)

(* The document an update on its way will replace.                         *)
ReplacesKnown(c) ==
    /\ pc[c] = "updating" => docs[call[c].doc].rev \in seen[c].racing \cup {call[c].hash}
    /\ seen[c].replaced # None => seen[c].replaced \in seen[c].racing \cup {call[c].hash}

(* Who has referred to the path since the rollback began to look is still  *)
(* to be looked at.                                                        *)
UsersAreLookedAt(c) ==
    /\ pc[c] \in {"rescan", "deleting"} => \A d \in seen[c].users : Uses(d, call[c].path)
    /\ pc[c] = "rescan" => seen[c].users \subseteq call[c].todo
    /\ pc[c] = "deleting" => seen[c].users = {}

CallInv(c) ==
    /\ StageFits(c) /\ Addressed(c) /\ Untouched(c) /\ Announced(c) /\ SnapshotIsOlder(c)
    /\ LeavesNothing(c) /\ FreeWhenLooked(c) /\ ReplacesKnown(c) /\ UsersAreLookedAt(c)

ServiceInv == WorldPart /\ CallsPart /\ \A c \in Callers : CallInv(c)

----------------------------------------------------------------------------
(* The listing.                                                            *)
SourceNames == {"data", "public"}

Listed == [from : SourceNames, writable : BOOLEAN]

Scans ==
    [queue : Seq(Folders), sources : Seq(SourceNames), from : [Paths -> SourceNames \cup {None}],
     writable : [Paths -> BOOLEAN], cut : BOOLEAN]

Listings ==
    [status : {"idle", "browsing", "done", "failed"}, order : Orders \cup {<<>>}, scan : Scans,
     cursor : Paths \cup {None}, cut : BOOLEAN, listed : [Paths -> Seq(Listed)]]

ListingTypes ==
    /\ listing \in Listings
    /\ steady \in [SourceNames -> SUBSET Paths]
    /\ \A s \in SourceNames : steady[s] \subseteq Exposed(s)
    /\ listing.order = <<>> => \A p \in Paths : listing.listed[p] = <<>>

order == listing.order
scan == listing.scan

(* The scan is at the k-th source of the order.                            *)
AtSource(k) ==
    /\ k \in DOMAIN order /\ Len(scan.sources) = Len(order) - k + 1
    /\ \A i \in DOMAIN scan.sources : scan.sources[i] = order[k + i - 1]

HasScanned(s) == \A p \in steady[s] : InReach(p) => scan.from[p] # None

(* V is the set of folders browsed in this source: what is below them has  *)
(* been browsed, will be, or is known to be too deep.                      *)
Visited(s, V) ==
    /\ \A f \in V \cup ToSet(scan.queue) : Depth[f] <= MaxDepth
    /\ Top \in V \cup ToSet(scan.queue)
    /\ \A f \in V : \A g \in Subfolders(f) :
          IF Depth[f] < MaxDepth THEN g \in V \cup ToSet(scan.queue) ELSE scan.cut
    /\ \A p \in steady[s] : FolderOf[p] \in V => scan.from[p] # None

ScanProgress ==
    \E k \in DOMAIN order :
        /\ AtSource(k)
        /\ \A j \in 1 .. k - 1 : HasScanned(order[j])
        /\ \E V \in SUBSET Folders : Visited(order[k], V)

ScanFacts ==
    \A p \in Paths :
        /\ scan.from[p] # None => InReach(p)
        /\ scan.from[p] # None /\ p \in steady[order[1]] => scan.from[p] = order[1]
        /\ scan.from[p] # None /\ scan.writable[p] =>
              scan.from[p] = "data" /\ (PrefixesAreFolders => p \in runtime.writable)

Ordered == {order[i] : i \in DOMAIN order}

PagesListed ==
    \A s \in Ordered : \A p \in steady[s] :
        InReach(p) => Len(listing.listed[p]) = IF After(p, listing.cursor) THEN 0 ELSE 1

BrowsingPart == listing.status = "browsing" => ScanProgress /\ ScanFacts /\ PagesListed

ListingInv ==
    /\ ListingTypes /\ BrowsingPart
    /\ SteadyImageListedOnce /\ FirstSourceWins /\ WritableIsTrue

AssetServiceInv == ServiceInv /\ ListingInv

----------------------------------------------------------------------------
(* What a step of a call may do to another one: files keep their number,   *)
(* go, come with a new number, or are put back by a rollback.              *)
FilesFor(c) ==
    /\ stores' \in Nat /\ stores <= stores'
    /\ \/ \A p \in Paths : files'[p] \in {files[p], None} \cup (stores + 1 .. stores')
       \/ OthersRestore(c)'

DocsFor(c) ==
    \/ UNCHANGED docs /\ seen'[c] = seen[c]
    \/ \E d \in Docs, image \in Paths \cup {None} :
          DocWritten(d, image) /\ seen'[c] = Witnessed(c, d, image)

(* The call itself has not moved.                                          *)
Waits(c) == pc'[c] = pc[c] /\ call'[c] = call[c] /\ answer'[c] = answer[c] /\ UNCHANGED fixed

RestoresStay == \A o \in Callers : Restores(o) => Restores(o)'

LEMMA CallTypes ==
    ASSUME ServiceInv, NEW c \in Callers
    PROVE  /\ CallInv(c) /\ WorldPart
           /\ pc[c] \in Stages /\ call[c] \in CallRecords /\ seen[c] \in SeenRecords
           /\ request[c] \in [kind : {"idle", "upload", "attach", "reference"},
                              policy : {"error", "overwrite", "rename"}, options : BOOLEAN]
           /\ None \notin Nat /\ None \notin Paths /\ None \notin Docs
           /\ None \notin {"delete", "restore", "CANCELLED"}
<1>1. /\ CallInv(c) /\ WorldPart
      /\ pc[c] \in Stages /\ call[c] \in CallRecords /\ seen[c] \in SeenRecords
  BY DEF ServiceInv, CallsPart
<1>2. request \in [Callers -> [kind : {"idle", "upload", "attach", "reference"},
                              policy : {"error", "overwrite", "rename"}, options : BOOLEAN]]
  BY <1>1, RequestsAssumption DEF WorldPart
<1>3. /\ None \notin Nat /\ None \notin Paths /\ None \notin Docs
      /\ None \notin {"delete", "restore", "CANCELLED"}
  BY PathsAssumption
<1> QED
  BY <1>1, <1>2, <1>3

(* What a write adds to the history of a call.                             *)
KeepsPast(s, t) ==
    /\ s.looked = t.looked /\ s.stored = t.stored /\ s.over = t.over
    /\ s.own = t.own /\ s.marked = t.marked /\ s.replaced = t.replaced

RacingWith(c, d) ==
    IF pc[c] = "updating" /\ call[c].doc = d THEN seen[c].racing \cup {writes + 1} ELSE seen[c].racing

UsersAfter(c, d, image) ==
    IF image = call[c].path THEN seen[c].users ELSE seen[c].users \ {d}

LEMMA WitnessedCall ==
    ASSUME ServiceInv, NEW c \in Callers, NEW d \in Docs, NEW image, NEW s,
           s = Witnessed(c, d, image)
    PROVE  /\ s \in SeenRecords /\ KeepsPast(s, seen[c])
           /\ s.racing = RacingWith(c, d) /\ s.users = UsersAfter(c, d, image)
<1>1. seen[c] \in SeenRecords /\ writes \in Nat
  BY CallTypes DEF WorldPart
<1>2. seen[c].racing \in SUBSET Nat /\ seen[c].users \in SUBSET Docs
  BY <1>1 DEF SeenRecords
<1>3. RacingWith(c, d) \in SUBSET Nat /\ UsersAfter(c, d, image) \in SUBSET Docs
  BY <1>1, <1>2 DEF RacingWith, UsersAfter
<1>4. s = [seen[c] EXCEPT !.racing = RacingWith(c, d), !.users = UsersAfter(c, d, image)]
  BY DEF Witnessed, RacingWith, UsersAfter
<1> QED
  BY <1>1, <1>3, <1>4 DEF SeenRecords, KeepsPast

(* Whatever others write, the history of a call is only told of it.        *)
LEMMA DocsForKeeps ==
    ASSUME ServiceInv, NEW c \in Callers, DocsFor(c)
    PROVE  /\ KeepsPast(seen'[c], seen[c])
           /\ seen[c].racing \subseteq seen'[c].racing /\ seen'[c].users \subseteq seen[c].users
<1>1. CASE seen'[c] = seen[c]
  BY <1>1 DEF KeepsPast
<1>2. ASSUME NEW d \in Docs, NEW image \in Paths \cup {None}, seen'[c] = Witnessed(c, d, image)
      PROVE  /\ KeepsPast(seen'[c], seen[c])
             /\ seen[c].racing \subseteq seen'[c].racing /\ seen'[c].users \subseteq seen[c].users
  <2>1. /\ KeepsPast(seen'[c], seen[c])
        /\ seen'[c].racing = RacingWith(c, d) /\ seen'[c].users = UsersAfter(c, d, image)
    BY <1>2, WitnessedCall
  <2> QED
    BY <2>1 DEF RacingWith, UsersAfter
<1> QED
  BY <1>1, <1>2 DEF DocsFor

(* The steps of others leave a call what it relies on.                     *)
LEMMA OtherCallKeeps ==
    ASSUME ServiceInv, NEW c \in Callers, FilesFor(c), DocsFor(c), Waits(c), RestoresStay
    PROVE  CallInv(c)'
<1>0. /\ CallInv(c) /\ WorldPart /\ call[c] \in CallRecords /\ seen[c] \in SeenRecords
      /\ None \notin Nat /\ None \notin Paths /\ Waits(c)
  BY CallTypes
<1>1. OthersRestore(c) => OthersRestore(c)'
  BY DEF OthersRestore, RestoresStay
<1>1a. FilesFor(c) /\ stores \in Nat
  BY <1>0 DEF WorldPart
<1>2. /\ seen'[c].looked = seen[c].looked /\ seen'[c].over = seen[c].over
      /\ seen'[c].own = seen[c].own /\ seen'[c].marked = seen[c].marked
      /\ seen'[c].replaced = seen[c].replaced
  BY DocsForKeeps DEF KeepsPast
<1>3. StageFits(c)' /\ Addressed(c)' /\ Untouched(c)' /\ Announced(c)'
  BY <1>0, <1>2
  DEF Waits, fixed, CallInv, StageFits, Addressed, Untouched, Announced,
      IsUpload, IsReference, Attaches
<1>4. SnapshotIsOlder(c)'
  <2>1. stores' \in Nat /\ stores <= stores' /\ stores \in Nat
    BY <1>0 DEF FilesFor, WorldPart
  <2>2. SnapshotIsOlder(c) /\ call'[c] = call[c]
    BY <1>0 DEF CallInv, Waits
  <2>3. seen[c].own \in Nat \cup {None}
    BY <1>0 DEF SeenRecords, Stores
  <2> QED
    BY <1>0, <1>2, <2>1, <2>2, <2>3 DEF SnapshotIsOlder
<1>5. LeavesNothing(c)'
  <2>1. LeavesNothing(c) /\ SnapshotIsOlder(c) /\ Addressed(c) /\ Untouched(c)
    BY <1>0 DEF CallInv
  <2>2. SUFFICES ASSUME ~OthersRestore(c)', LeavesNothing(c)!1
                 PROVE  files'[call[c].path] # seen[c].own
    BY <1>0, <1>2 DEF LeavesNothing, Waits, fixed, Answered, Attaches
  <2>3. call[c].path \in Paths
    BY <2>1, <2>2 DEF Addressed, Untouched
  <2>4. seen[c].own \in Nat /\ seen[c].own <= stores /\ files[call[c].path] # seen[c].own
    BY <1>0, <1>1, <2>1, <2>2 DEF SnapshotIsOlder, SeenRecords, Stores, LeavesNothing
  <2>5. files'[call[c].path] \in {files[call[c].path], None} \cup (stores + 1 .. stores')
    BY <1>1a, <2>2, <2>3 DEF FilesFor
  <2> QED
    BY <1>0, <1>1a, <2>4, <2>5
<1>6. FreeWhenLooked(c)'
  <2>1. FreeWhenLooked(c) /\ Addressed(c) /\ StageFits(c)
    BY <1>0 DEF CallInv
  <2>2. CASE OthersRestore(c)'
    BY <1>0, <1>1a, <1>2, <2>1, <2>2 DEF FilesFor, FreeWhenLooked, Waits, SeenRecords
  <2>3. CASE ~OthersRestore(c)'
    <3>1. \A p \in Paths : files'[p] \in {files[p], None} \cup (stores + 1 .. stores')
      BY <2>3, <1>1a DEF FilesFor
    <3>2. seen[c].looked \in Nat /\ stores' \in Nat /\ stores <= stores'
      BY <1>0, <1>1a DEF FilesFor, SeenRecords
    <3>3. ~OthersRestore(c) /\ UNCHANGED request
      BY <2>3, <1>0, <1>1 DEF Waits, fixed
    <3>4. ASSUME pc[c] \in Placed, ~IsReference(c), ~call[c].overwrite, files'[call[c].path] # None
          PROVE  files'[call[c].path] > seen[c].looked
      <4>1. call[c].path \in Paths
        BY <3>4, <2>1 DEF Addressed, StageFits, Placed, Undoing
      <4>2. files[call[c].path] # None => files[call[c].path] > seen[c].looked
        BY <2>1, <3>3, <3>4 DEF FreeWhenLooked, Exists
      <4> QED
        BY <1>0, <1>1a, <2>1, <3>1, <3>2, <3>4, <4>1, <4>2 DEF FreeWhenLooked
    <3> QED
      BY <1>0, <1>1a, <1>2, <2>1, <3>2, <3>3, <3>4 DEF FreeWhenLooked, Waits, Exists, IsReference
  <2> QED
    BY <2>2, <2>3
<1>7. ReplacesKnown(c)'
  <2>1. ReplacesKnown(c) /\ Addressed(c) /\ Untouched(c)
    BY <1>0 DEF CallInv
  <2>2. seen[c].racing \subseteq seen'[c].racing
    BY DocsForKeeps DEF KeepsPast
  <2>3. ASSUME pc[c] = "updating"
        PROVE  docs'[call[c].doc].rev \in seen'[c].racing \cup {call[c].hash}
    <3>1. CASE UNCHANGED docs
      BY <2>1, <2>2, <2>3, <3>1 DEF ReplacesKnown
    <3>2. ASSUME NEW d \in Docs, NEW image \in Paths \cup {None},
                 DocWritten(d, image), seen'[c] = Witnessed(c, d, image)
          PROVE  docs'[call[c].doc].rev \in seen'[c].racing \cup {call[c].hash}
      <4>1. docs' = [docs EXCEPT ![d] = [image |-> image, rev |-> writes']] /\ writes' = writes + 1
        BY <3>2 DEF DocWritten
      <4>2. docs \in [Docs -> [image : Paths \cup {None}, rev : 0 .. writes]]
        BY <1>0 DEF WorldPart
      <4>3. CASE call[c].doc = d
        <5>1. docs'[d].rev = writes + 1
          BY <4>1, <4>2
        <5>2. seen'[c].racing = RacingWith(c, d)
          BY <3>2, WitnessedCall
        <5> QED
          BY <5>1, <5>2, <4>3, <2>3 DEF RacingWith
      <4>4. CASE call[c].doc # d
        BY <2>1, <2>2, <2>3, <4>1, <4>2, <4>4 DEF ReplacesKnown, Addressed
      <4> QED
        BY <4>3, <4>4
    <3> QED
      BY <3>1, <3>2 DEF DocsFor
  <2> QED
    BY <1>0, <1>2, <2>1, <2>2, <2>3 DEF ReplacesKnown, Waits
<1>8. UsersAreLookedAt(c)'
  <2>1. UsersAreLookedAt(c) /\ seen[c].users \in SUBSET Docs
    BY <1>0 DEF CallInv, SeenRecords
  <2>2. CASE UNCHANGED docs /\ seen'[c] = seen[c]
    BY <1>0, <2>1, <2>2 DEF UsersAreLookedAt, Waits, Uses
  <2>3. ASSUME NEW d \in Docs, NEW image \in Paths \cup {None},
               DocWritten(d, image), seen'[c] = Witnessed(c, d, image)
        PROVE  UsersAreLookedAt(c)'
    <3>1. docs' = [docs EXCEPT ![d] = [image |-> image, rev |-> writes']]
      BY <2>3 DEF DocWritten
    <3>2. docs \in [Docs -> [image : Paths \cup {None}, rev : 0 .. writes]]
      BY <1>0 DEF WorldPart
    <3>3. docs'[d].image = image /\ \A e \in Docs \ {d} : docs'[e] = docs[e]
      BY <3>1, <3>2
    <3>4. seen'[c].users = UsersAfter(c, d, image)
      BY <2>3, WitnessedCall
    <3> QED
      BY <1>0, <2>1, <3>3, <3>4 DEF UsersAreLookedAt, UsersAfter, Waits, Uses
  <2> QED
    BY <2>2, <2>3 DEF DocsFor
<1> QED
  BY <1>3, <1>4, <1>5, <1>6, <1>7, <1>8 DEF CallInv

----------------------------------------------------------------------------
(* Steps of the other users.                                               *)
LEMMA WorldStepKeeps ==
    ASSUME ServiceInv, WorldPart', UNCHANGED <<fixed, calls>>, seen' \in [Callers -> SeenRecords],
           \A c \in Callers : FilesFor(c) /\ DocsFor(c)
    PROVE  ServiceInv'
<1>1. pc' = pc /\ call' = call /\ answer' = answer /\ UNCHANGED fixed
  BY DEF calls
<1>2. CallsPart'
  BY <1>1 DEF ServiceInv, CallsPart
<1>3. RestoresStay
  BY <1>1 DEF RestoresStay, Restores, Answered, fixed
<1>4. \A c \in Callers : Waits(c)
  BY <1>1 DEF Waits
<1> QED
  BY <1>2, <1>3, <1>4, OtherCallKeeps DEF ServiceInv

LEMMA StoredWorld ==
    ASSUME WorldPart, NEW p \in Paths, Stored(p), UNCHANGED <<docs, writes, fixed>>
    PROVE  /\ WorldPart' /\ stores' = stores + 1 /\ files'[p] = stores'
           /\ \A q \in Paths \ {p} : files'[q] = files[q]
           /\ \A c : FilesFor(c)
<1>1. /\ stores' = stores + 1 /\ stores \in Nat /\ files' = [files EXCEPT ![p] = stores']
      /\ files \in [Paths -> (0 .. stores) \cup {None}]
  BY DEF WorldPart, Stored
<1>2. files' \in [Paths -> (0 .. stores') \cup {None}]
  BY <1>1
<1>3. files'[p] = stores' /\ \A q \in Paths \ {p} : files'[q] = files[q]
  BY <1>1
<1>4. \A c : FilesFor(c)
  BY <1>1, <1>3 DEF FilesFor
<1> QED
  BY <1>1, <1>2, <1>3, <1>4 DEF WorldPart, fixed

LEMMA WrittenDocument ==
    ASSUME WorldPart, NEW d \in Docs, NEW image \in Paths \cup {None}, DocWritten(d, image),
           UNCHANGED <<files, stores, fixed>>
    PROVE  WorldPart' /\ \A c : FilesFor(c)
<1>1. /\ writes' = writes + 1 /\ writes \in Nat
      /\ docs' = [docs EXCEPT ![d] = [image |-> image, rev |-> writes']]
      /\ docs \in [Docs -> [image : Paths \cup {None}, rev : 0 .. writes]]
  BY DEF WorldPart, DocWritten
<1>2. docs' \in [Docs -> [image : Paths \cup {None}, rev : 0 .. writes']]
  BY <1>1
<1>3. \A c : FilesFor(c)
  BY DEF FilesFor, WorldPart
<1> QED
  BY <1>1, <1>2, <1>3 DEF WorldPart, fixed

LEMMA OtherStoresKeeps ==
    ASSUME ServiceInv, NEW p \in Paths, OtherStores(p)
    PROVE  ServiceInv'
<1>1. Stored(p) /\ UNCHANGED <<docs, writes, fixed, calls, seen>>
  BY DEF OtherStores
<1>2. WorldPart' /\ \A c \in Callers : FilesFor(c) /\ DocsFor(c)
  BY <1>1, StoredWorld DEF ServiceInv, DocsFor
<1> QED
  BY <1>1, <1>2, WorldStepKeeps DEF ServiceInv, CallsPart

LEMMA OtherEditsKeeps ==
    ASSUME ServiceInv, NEW d \in Docs, OtherEdits(d)
    PROVE  ServiceInv'
<1>1. PICK image \in Paths \cup {None} :
          DocWritten(d, image) /\ seen' = [c \in Callers |-> Witnessed(c, d, image)]
  BY DEF OtherEdits
<1>2. UNCHANGED <<files, stores, fixed, calls>>
  BY DEF OtherEdits
<1>3. WorldPart' /\ \A c \in Callers : FilesFor(c)
  BY <1>1, <1>2, WrittenDocument DEF ServiceInv
<1>4. \A c \in Callers : seen'[c] = Witnessed(c, d, image)
  BY <1>1
<1>5. \A c \in Callers : Witnessed(c, d, image) \in SeenRecords
  BY WitnessedCall
<1>6. \A c \in Callers : DocsFor(c)
  BY <1>1, <1>4 DEF DocsFor
<1> QED
  BY <1>1, <1>2, <1>3, <1>5, <1>6, WorldStepKeeps

----------------------------------------------------------------------------
(* Steps of a call: only its own state moves.                              *)
Moves(c, where, k, a) ==
    /\ pc' = [pc EXCEPT ![c] = where] /\ where \in Stages
    /\ call' = [call EXCEPT ![c] = k] /\ k \in CallRecords
    /\ answer' = [answer EXCEPT ![c] = a]
    /\ UNCHANGED fixed

LEMMA CallStepKeeps ==
    ASSUME ServiceInv, NEW c \in Callers, NEW where, NEW k, NEW a, Moves(c, where, k, a),
           pc[c] # "answered", WorldPart', seen' \in [Callers -> SeenRecords],
           \A o \in Callers \ {c} : FilesFor(o) /\ DocsFor(o),
           RestoresStay => CallInv(c)'
    PROVE  ServiceInv'
<1>1. CallsPart
  BY DEF ServiceInv
<1>2. CallsPart'
  <2>1. pc' \in [Callers -> Stages] /\ call' \in [Callers -> CallRecords]
    BY <1>1 DEF CallsPart, Moves
  <2>2. answer' = [o \in Callers |-> answer'[o]]
    BY <1>1 DEF CallsPart, Moves
  <2> QED
    BY <2>1, <2>2 DEF CallsPart
<1>3. \A o \in Callers \ {c} : Waits(o)
  BY <1>1 DEF CallsPart, Moves, Waits
<1>4. RestoresStay
  BY <1>3 DEF RestoresStay, Restores, Answered, Waits, fixed
<1> QED
  BY <1>2, <1>3, <1>4, OtherCallKeeps DEF ServiceInv

(* Most steps leave the world alone.                                       *)
LEMMA QuietStepKeeps ==
    ASSUME ServiceInv, NEW c \in Callers, NEW where, NEW k, NEW a, Moves(c, where, k, a),
           pc[c] # "answered", UNCHANGED <<files, stores, docs, writes>>,
           NEW s \in SeenRecords, seen' = [seen EXCEPT ![c] = s],
           RestoresStay => CallInv(c)'
    PROVE  ServiceInv'
<1>1. WorldPart' /\ \A o : FilesFor(o)
  BY DEF ServiceInv, WorldPart, FilesFor, Moves, fixed
<1>2. seen' \in [Callers -> SeenRecords] /\ \A o \in Callers \ {c} : DocsFor(o)
  BY DEF ServiceInv, CallsPart, DocsFor
<1> QED
  BY <1>1, <1>2, CallStepKeeps

LEMMA MovedCall ==
    ASSUME ServiceInv, NEW c \in Callers, NEW where, NEW k, NEW a, Moves(c, where, k, a)
    PROVE  /\ pc'[c] = where /\ call'[c] = k /\ answer'[c] = a /\ UNCHANGED request
           /\ RestoresStay => (OthersRestore(c) => OthersRestore(c)')
<1>1. pc'[c] = where /\ call'[c] = k /\ answer'[c] = a /\ UNCHANGED request
  BY DEF ServiceInv, CallsPart, Moves, fixed
<1>2. RestoresStay => (OthersRestore(c) => OthersRestore(c)')
  BY DEF RestoresStay, OthersRestore
<1> QED
  BY <1>1, <1>2


(* A call that is answered relies on nothing but what it has stored.       *)
LEMMA AnswerKeeps ==
    ASSUME ServiceInv, NEW c \in Callers, NEW a, Answers(c, a), pc[c] # "answered",
           UNCHANGED <<world, fixed, call, seen>>,
           a = "CANCELLED" /\ seen[c].own # None => seen[c].marked,
           Attaches(c) /\ a \notin {"ok", "both_failed", "kept"} /\ seen[c].own # None =>
              files[call[c].path] # seen[c].own \/ OthersRestore(c)
    PROVE  ServiceInv'
<1>1. /\ CallInv(c) /\ call[c] \in CallRecords /\ seen[c] \in SeenRecords /\ CallsPart
  BY CallTypes DEF ServiceInv
<1>2. Moves(c, "answered", call[c], a)
  BY <1>1 DEF Moves, Answers, Goes, Stages, CallsPart
<1>3. /\ pc'[c] = "answered" /\ call'[c] = call[c] /\ answer'[c] = a /\ UNCHANGED request
      /\ RestoresStay => (OthersRestore(c) => OthersRestore(c)')
  BY <1>2, MovedCall
<1>4. files' = files /\ stores' = stores /\ docs' = docs /\ seen' = seen
  BY DEF world
<1>5. ASSUME RestoresStay PROVE CallInv(c)'
  <2>1. StageFits(c)' /\ Addressed(c)' /\ Untouched(c)' /\ UsersAreLookedAt(c)'
    BY <1>1, <1>3, <1>4
    DEF CallInv, StageFits, Addressed, Untouched, IsUpload, IsReference, Attaches, Preparing,
        Early, Undoing, UsersAreLookedAt
  <2>2. Announced(c)' /\ SnapshotIsOlder(c)'
    BY <1>1, <1>3, <1>4 DEF CallInv, Announced, SnapshotIsOlder
  <2>3. LeavesNothing(c)'
    BY <1>3, <1>4, <1>5 DEF LeavesNothing, Attaches, Answered
  <2>4. FreeWhenLooked(c)' /\ ReplacesKnown(c)'
    BY <1>1, <1>3, <1>4, <1>5 DEF CallInv, FreeWhenLooked, ReplacesKnown, Placed, Preparing, Undoing
  <2> QED
    BY <2>1, <2>2, <2>3, <2>4 DEF CallInv
<1>6. seen' = [seen EXCEPT ![c] = seen[c]]
  BY <1>1, <1>4 DEF CallsPart
<1> QED
  BY <1>1, <1>2, <1>5, <1>6, QuietStepKeeps DEF world

(* A call that fails is answered, or an attachment undoes its upload.      *)
LEMMA FailKeeps ==
    ASSUME ServiceInv, NEW c \in Callers, NEW code \in Codes, Fails(c, code),
           pc[c] \notin Undoing \cup {"answered"},
           UNCHANGED <<world, fixed, call, seen>>,
           code = "CANCELLED" => pc[c] \in Guarded /\ request[c].options
    PROVE  ServiceInv'
<1>1. /\ CallInv(c) /\ call[c] \in CallRecords /\ seen[c] \in SeenRecords /\ CallsPart
      /\ StageFits(c) /\ Untouched(c) /\ Announced(c)
      /\ request[c].kind \in {"idle", "upload", "attach", "reference"}
  BY CallTypes DEF ServiceInv, CallInv
<1>2. code = "CANCELLED" /\ seen[c].own # None => seen[c].marked
  BY <1>1 DEF Untouched, Announced, Guarded, Undoing
<1>3. CASE call[c].undo = None
  <2>1. Answers(c, code)
    BY <1>3 DEF Fails
  <2>2. Attaches(c) => seen[c].own = None
    BY <1>1, <1>3 DEF Untouched
  <2> QED
    BY <1>2, <2>1, <2>2, AnswerKeeps DEF Undoing
<1>4. CASE call[c].undo # None
  <2>1. Moves(c, "rollback", call[c], code)
    BY <1>1, <1>4 DEF Moves, Fails, Goes, Stages, CallsPart
  <2>2. /\ pc'[c] = "rollback" /\ call'[c] = call[c] /\ answer'[c] = code /\ UNCHANGED request
        /\ RestoresStay => (OthersRestore(c) => OthersRestore(c)')
    BY <2>1, MovedCall
  <2>3. files' = files /\ stores' = stores /\ docs' = docs /\ seen' = seen
    BY DEF world
  <2>4. Attaches(c)
    BY <1>1, <1>4 DEF StageFits, IsUpload, IsReference, Attaches, Undoing
  <2>5. ASSUME RestoresStay PROVE CallInv(c)'
    <3>1. StageFits(c)' /\ Untouched(c)' /\ UsersAreLookedAt(c)'
      BY <1>1, <1>4, <2>2, <2>3, <2>4
      DEF StageFits, Untouched, IsUpload, IsReference, Attaches,
          Early, Undoing, UsersAreLookedAt
    <3>2. Addressed(c)'
      BY <1>1, <1>4, <2>2, <2>4
      DEF CallInv, StageFits, Addressed, Attaches, IsUpload, Early, Preparing, Undoing
    <3>3. Announced(c)' /\ SnapshotIsOlder(c)'
      BY <1>1, <1>2, <2>2, <2>3 DEF CallInv, Announced, SnapshotIsOlder
    <3>4. LeavesNothing(c)'
      BY <2>2 DEF LeavesNothing, Answered
    <3>5. FreeWhenLooked(c)' /\ ReplacesKnown(c)'
      <4>1. pc[c] \in Placed
        BY <1>1, <1>4, CallTypes DEF StageFits, Stages, Early, Placed, Preparing, Undoing
      <4> QED
        BY <1>1, <2>2, <2>3, <2>5, <4>1 DEF CallInv, FreeWhenLooked, ReplacesKnown, IsReference, Exists
    <3> QED
      BY <3>1, <3>2, <3>3, <3>4, <3>5 DEF CallInv
  <2>6. seen' = [seen EXCEPT ![c] = seen[c]]
    BY <1>1, <2>3 DEF CallsPart
  <2> QED
    BY <1>1, <2>1, <2>5, <2>6, QuietStepKeeps DEF world, Undoing
<1> QED
  BY <1>3, <1>4

----------------------------------------------------------------------------
(* The answers of a call, before it has stored anything or afterwards.     *)
LEMMA EarlyAnswerKeeps ==
    ASSUME ServiceInv, NEW c \in Callers, NEW a, Answers(c, a), pc[c] \in Early,
           UNCHANGED <<world, fixed, call, seen>>
    PROVE  ServiceInv'
<1>1. Untouched(c)
  BY CallTypes DEF CallInv
<1>2. seen[c].own = None
  BY <1>1 DEF Untouched, Early, Undoing
<1> QED
  BY <1>2, AnswerKeeps DEF Early

LEMMA AnsweringKeeps ==
    ASSUME ServiceInv, NEW c \in Callers,
           \/ DocumentRefused(c) \/ DestinationRefused(c) \/ PayloadRefused(c)
           \/ CannotCompensate(c) \/ ScanFound(c) \/ ScanFailed(c) \/ RollbackFailed(c)
    PROVE  ServiceInv'
<1>1. CASE \/ DocumentRefused(c) \/ DestinationRefused(c) \/ PayloadRefused(c)
           \/ CannotCompensate(c)
  BY <1>1, EarlyAnswerKeeps
  DEF DocumentRefused, DestinationRefused, PayloadRefused, CannotCompensate, Early
<1>2. CASE ScanFound(c)
  <2>1. CASE pc[c] = "scan" /\ Answers(c, "CONFLICT")
    BY <1>2, <2>1, EarlyAnswerKeeps DEF ScanFound, Early
  <2>2. CASE pc[c] = "rescan" /\ Answers(c, "kept")
    BY <1>2, <2>2, AnswerKeeps DEF ScanFound
  <2> QED
    BY <1>2, <2>1, <2>2 DEF ScanFound
<1>3. CASE ScanFailed(c)
  <2>1. CASE pc[c] = "scan"
    BY <1>3, <2>1, EarlyAnswerKeeps DEF ScanFailed, Early
  <2>2. CASE pc[c] = "rescan"
    <3>1. Answers(c, "both_failed")
      BY <1>3, <2>2 DEF ScanFailed
    <3> QED
      BY <1>3, <2>2, <3>1, AnswerKeeps DEF ScanFailed
  <2> QED
    BY <1>3, <2>1, <2>2 DEF ScanFailed
<1>4. CASE RollbackFailed(c)
  BY <1>4, AnswerKeeps DEF RollbackFailed
<1> QED
  BY <1>1, <1>2, <1>3, <1>4

LEMMA FailingKeeps ==
    ASSUME ServiceInv, NEW c \in Callers,
           Cancelled(c) \/ AuditFailed(c) \/ UpdateRefused(c)
    PROVE  ServiceInv'
<1>1. CASE Cancelled(c)
  BY <1>1, FailKeeps DEF Cancelled, Guarded, Codes, Undoing
<1>2. CASE AuditFailed(c)
  BY <1>2, FailKeeps DEF AuditFailed, Codes, Undoing
<1>3. CASE UpdateRefused(c)
  <2>1. PICK code \in {"CONFLICT", "document_refused"} : Fails(c, code)
    BY <1>3 DEF UpdateRefused
  <2>2. code \in Codes /\ code # "CANCELLED"
    BY DEF Codes
  <2> QED
    BY <1>3, <2>1, <2>2, FailKeeps DEF UpdateRefused, Undoing
<1> QED
  BY <1>1, <1>2, <1>3

----------------------------------------------------------------------------
(* The steps between.                                                      *)
LEMMA PayloadResolvedKeeps ==
    ASSUME ServiceInv, NEW c \in Callers, PayloadResolved(c)
    PROVE  ServiceInv'
<1>1. /\ CallInv(c) /\ call[c] \in CallRecords /\ seen[c] \in SeenRecords /\ CallsPart
      /\ request[c].kind \in {"idle", "upload", "attach", "reference"}
  BY CallTypes DEF ServiceInv
<1>2. PICK where \in {"compensation", "store"} : 
        /\ Moves(c, where, call[c], answer[c])
        /\ where = IF Attaches(c) THEN "compensation" ELSE "store"
  BY <1>1 DEF PayloadResolved, Moves, Goes, Stages, CallsPart
<1>3. /\ pc[c] = "payload" /\ UNCHANGED <<files, stores, docs, writes>>
      /\ seen' = seen /\ seen' = [seen EXCEPT ![c] = seen[c]]
  BY <1>1 DEF PayloadResolved, world, CallsPart
<1>4. /\ pc'[c] = where /\ call'[c] = call[c] /\ answer'[c] = answer[c] /\ UNCHANGED request
      /\ RestoresStay => (OthersRestore(c) => OthersRestore(c)')
  BY <1>2, MovedCall
<1>5. ASSUME RestoresStay PROVE CallInv(c)'
  BY <1>1, <1>2, <1>3, <1>4, <1>5
  DEF CallInv, StageFits, Addressed, Untouched, Announced, SnapshotIsOlder, LeavesNothing,
      FreeWhenLooked, ReplacesKnown, UsersAreLookedAt, IsUpload, IsReference, Attaches,
      Early, Preparing, Undoing, Answered, Exists, Uses, Placed
<1> QED
  BY <1>1, <1>2, <1>3, <1>5, QuietStepKeeps

LEMMA ReadDocumentKeeps ==
    ASSUME ServiceInv, NEW c \in Callers, NEW d \in Docs, ReadDocument(c, d)
    PROVE  ServiceInv'
<1>1. /\ CallInv(c) /\ call[c] \in CallRecords /\ seen[c] \in SeenRecords /\ CallsPart
      /\ request[c].kind \in {"idle", "upload", "attach", "reference"}
  BY CallTypes DEF ServiceInv
<1>1a. docs[d].rev \in Nat
  BY DEF ServiceInv, WorldPart
<1>1b. [call[c] EXCEPT !.doc = d, !.hash = docs[d].rev] \in CallRecords
  BY <1>1, <1>1a DEF CallRecords
<1>1c. call' = [call EXCEPT ![c] = [call[c] EXCEPT !.doc = d, !.hash = docs[d].rev]]
  BY <1>1 DEF ReadDocument, CallsPart
<1>2. PICK where \in {"target", "reference"}, k \in CallRecords :
        /\ Moves(c, where, k, answer[c]) /\ k = [call[c] EXCEPT !.doc = d, !.hash = docs[d].rev]
        /\ where = IF Attaches(c) THEN "target" ELSE "reference"
  BY <1>1, <1>1b, <1>1c DEF ReadDocument, Moves, Goes, Stages, CallsPart
<1>3. /\ pc[c] = "document" /\ UNCHANGED <<files, stores, docs, writes>>
      /\ seen' = seen /\ seen' = [seen EXCEPT ![c] = seen[c]]
  BY <1>1, <1>1a DEF ReadDocument, world, CallsPart
<1>4. /\ pc'[c] = where /\ call'[c] = k /\ answer'[c] = answer[c] /\ UNCHANGED request
      /\ RestoresStay => (OthersRestore(c) => OthersRestore(c)')
  BY <1>2, MovedCall
<1>5. ASSUME RestoresStay PROVE CallInv(c)'
  BY <1>1, <1>1a, <1>2, <1>3, <1>4, <1>5
  DEF CallInv, StageFits, Addressed, Untouched, Announced, SnapshotIsOlder, LeavesNothing,
      FreeWhenLooked, ReplacesKnown, UsersAreLookedAt, IsUpload, IsReference, Attaches,
      Early, Preparing, Undoing, Answered, Exists, Uses, CallRecords, Placed
<1> QED
  BY <1>1, <1>1a, <1>2, <1>3, <1>5, QuietStepKeeps

LEMMA AuditedKeeps ==
    ASSUME ServiceInv, NEW c \in Callers, Audited(c)
    PROVE  ServiceInv'
<1>1. /\ CallInv(c) /\ call[c] \in CallRecords /\ seen[c] \in SeenRecords /\ CallsPart
      /\ request[c].kind \in {"idle", "upload", "attach", "reference"}
  BY CallTypes DEF ServiceInv
<1>2. PICK where \in {"store", "update"} :
        /\ Moves(c, where, call[c], answer[c])
        /\ where = IF Attaches(c) THEN "store" ELSE "update"
  BY <1>1 DEF Audited, Moves, Goes, Stages, CallsPart
<1>3. /\ pc[c] = "audit" /\ UNCHANGED <<files, stores, docs, writes>>
      /\ seen' = seen /\ seen' = [seen EXCEPT ![c] = seen[c]]
  BY <1>1 DEF Audited, world, CallsPart
<1>4. /\ pc'[c] = where /\ call'[c] = call[c] /\ answer'[c] = answer[c] /\ UNCHANGED request
      /\ RestoresStay => (OthersRestore(c) => OthersRestore(c)')
  BY <1>2, MovedCall
<1>5. ASSUME RestoresStay PROVE CallInv(c)'
  BY <1>1, <1>2, <1>3, <1>4, <1>5
  DEF CallInv, StageFits, Addressed, Untouched, Announced, SnapshotIsOlder, LeavesNothing,
      FreeWhenLooked, ReplacesKnown, UsersAreLookedAt, IsUpload, IsReference, Attaches,
      Early, Preparing, Undoing, Answered, Exists, Uses, Placed
<1> QED
  BY <1>1, <1>2, <1>3, <1>5, QuietStepKeeps

LEMMA StoreSentKeeps ==
    ASSUME ServiceInv, NEW c \in Callers, StoreSent(c)
    PROVE  ServiceInv'
<1>1. /\ CallInv(c) /\ call[c] \in CallRecords /\ seen[c] \in SeenRecords /\ CallsPart
      /\ request[c].kind \in {"idle", "upload", "attach", "reference"}
  BY CallTypes DEF ServiceInv
<1>2. Moves(c, "storing", call[c], answer[c])
  BY <1>1 DEF StoreSent, Moves, Goes, Stages, CallsPart
<1>3. /\ pc[c] = "store" /\ UNCHANGED <<files, stores, docs, writes>>
      /\ seen' = seen /\ seen' = [seen EXCEPT ![c] = seen[c]]
  BY <1>1 DEF StoreSent, world, CallsPart
<1>4. /\ pc'[c] = "storing" /\ call'[c] = call[c] /\ answer'[c] = answer[c] /\ UNCHANGED request
      /\ RestoresStay => (OthersRestore(c) => OthersRestore(c)')
  BY <1>2, MovedCall
<1>5. ASSUME RestoresStay PROVE CallInv(c)'
  BY <1>1, <1>2, <1>3, <1>4, <1>5
  DEF CallInv, StageFits, Addressed, Untouched, Announced, SnapshotIsOlder, LeavesNothing,
      FreeWhenLooked, ReplacesKnown, UsersAreLookedAt, IsUpload, IsReference, Attaches,
      Early, Preparing, Undoing, Answered, Exists, Uses, Placed
<1> QED
  BY <1>1, <1>2, <1>3, <1>5, QuietStepKeeps

LEMMA ScanBeginsKeeps ==
    ASSUME ServiceInv, NEW c \in Callers, ScanBegins(c)
    PROVE  ServiceInv'
<1>1. /\ CallInv(c) /\ call[c] \in CallRecords /\ seen[c] \in SeenRecords /\ CallsPart
      /\ request[c].kind \in {"idle", "upload", "attach", "reference"}
  BY CallTypes DEF ServiceInv
<1>2. PICK k \in CallRecords :
        Moves(c, "scan", k, answer[c]) /\ k = [call[c] EXCEPT !.todo = Docs]
  BY <1>1 DEF ScanBegins, Moves, Goes, Stages, CallsPart, CallRecords
<1>3. /\ pc[c] = "compensation" /\ UNCHANGED <<files, stores, docs, writes>> /\ ~call[c].overwrite
      /\ seen' = seen /\ seen' = [seen EXCEPT ![c] = seen[c]]
  BY <1>1 DEF ScanBegins, world, CallsPart
<1>4. /\ pc'[c] = "scan" /\ call'[c] = k /\ answer'[c] = answer[c] /\ UNCHANGED request
      /\ RestoresStay => (OthersRestore(c) => OthersRestore(c)')
  BY <1>2, MovedCall
<1>5. ASSUME RestoresStay PROVE CallInv(c)'
  BY <1>1, <1>2, <1>3, <1>4, <1>5
  DEF CallInv, StageFits, Addressed, Untouched, Announced, SnapshotIsOlder, LeavesNothing,
      FreeWhenLooked, ReplacesKnown, UsersAreLookedAt, IsUpload, IsReference, Attaches,
      Early, Preparing, Undoing, Answered, Exists, Uses, CallRecords, Placed
<1> QED
  BY <1>1, <1>2, <1>3, <1>5, QuietStepKeeps

LEMMA SnapshotTakenKeeps ==
    ASSUME ServiceInv, NEW c \in Callers, SnapshotTaken(c)
    PROVE  ServiceInv'
<1>1. /\ CallInv(c) /\ call[c] \in CallRecords /\ seen[c] \in SeenRecords /\ CallsPart
      /\ request[c].kind \in {"idle", "upload", "attach", "reference"}
  BY CallTypes DEF ServiceInv
<1>1a. files \in [Paths -> Stores] /\ files \in [Paths -> (0 .. stores) \cup {None}]
  BY DEF ServiceInv, WorldPart, Stores
<1>1b. None # "restore"
  BY PathsAssumption
<1>2. PICK k \in CallRecords :
        /\ Moves(c, "audit", k, answer[c])
        /\ k = [call[c] EXCEPT !.undo = "restore", !.snapshot = files]
  BY <1>1, <1>1a, <1>1b DEF SnapshotTaken, Moves, Goes, Stages, CallsPart, CallRecords
<1>3. /\ pc[c] = "compensation" /\ UNCHANGED <<files, stores, docs, writes>>
      /\ seen' = seen /\ seen' = [seen EXCEPT ![c] = seen[c]]
  BY <1>1, <1>1a, <1>1b DEF SnapshotTaken, world, CallsPart
<1>4. /\ pc'[c] = "audit" /\ call'[c] = k /\ answer'[c] = answer[c] /\ UNCHANGED request
      /\ RestoresStay => (OthersRestore(c) => OthersRestore(c)')
  BY <1>2, MovedCall
<1>5. ASSUME RestoresStay PROVE CallInv(c)'
  BY <1>1, <1>1a, <1>1b, <1>2, <1>3, <1>4, <1>5
  DEF CallInv, StageFits, Addressed, Untouched, Announced, SnapshotIsOlder, LeavesNothing,
      FreeWhenLooked, ReplacesKnown, UsersAreLookedAt, IsUpload, IsReference, Attaches,
      Early, Preparing, Undoing, Answered, Exists, Uses, CallRecords, Placed
<1> QED
  BY <1>1, <1>1a, <1>1b, <1>2, <1>3, <1>5, QuietStepKeeps

LEMMA UpdateSentKeeps ==
    ASSUME ServiceInv, NEW c \in Callers, UpdateSent(c)
    PROVE  ServiceInv'
<1>1. /\ CallInv(c) /\ call[c] \in CallRecords /\ seen[c] \in SeenRecords /\ CallsPart
      /\ request[c].kind \in {"idle", "upload", "attach", "reference"}
  BY CallTypes DEF ServiceInv
<1>2. Moves(c, "updating", call[c], answer[c])
  BY <1>1 DEF UpdateSent, Moves, Goes, Stages, CallsPart
<1>3. PICK s \in SeenRecords :
        /\ pc[c] = "update" /\ UNCHANGED <<files, stores, docs, writes>>
        /\ seen' = [seen EXCEPT ![c] = s] /\ seen'[c] = s /\ s = [seen[c] EXCEPT !.racing = {}]
        /\ docs[call[c].doc].rev = call[c].hash
  BY <1>1 DEF UpdateSent, world, CallsPart, SeenRecords, Conflict, ExpectedHash
<1>4. /\ pc'[c] = "updating" /\ call'[c] = call[c] /\ answer'[c] = answer[c] /\ UNCHANGED request
      /\ RestoresStay => (OthersRestore(c) => OthersRestore(c)')
  BY <1>2, MovedCall
<1>5. ASSUME RestoresStay PROVE CallInv(c)'
  BY <1>1, <1>2, <1>3, <1>4, <1>5
  DEF CallInv, StageFits, Addressed, Untouched, Announced, SnapshotIsOlder, LeavesNothing,
      FreeWhenLooked, ReplacesKnown, UsersAreLookedAt, IsUpload, IsReference, Attaches,
      Early, Preparing, Undoing, Answered, Exists, Uses, SeenRecords, Placed
<1> QED
  BY <1>1, <1>2, <1>3, <1>5, QuietStepKeeps

LEMMA ReferenceLookedKeeps ==
    ASSUME ServiceInv, NEW c \in Callers, NEW p \in Paths, ReferenceLooked(c, p)
    PROVE  ServiceInv'
<1>1. /\ CallInv(c) /\ call[c] \in CallRecords /\ seen[c] \in SeenRecords /\ CallsPart
      /\ request[c].kind \in {"idle", "upload", "attach", "reference"}
  BY CallTypes DEF ServiceInv
<1>2. CASE ~Exists(p)
  BY <1>2, EarlyAnswerKeeps DEF ReferenceLooked, Early
<1>3. CASE Exists(p)
  <2>1. [call[c] EXCEPT !.path = p] \in CallRecords
    BY <1>1 DEF CallRecords
  <2>2. PICK k \in CallRecords :
          Moves(c, "audit", k, answer[c]) /\ k = [call[c] EXCEPT !.path = p]
    BY <1>1, <1>3, <2>1 DEF ReferenceLooked, Moves, Goes, Stages, CallsPart
  <2>3. /\ pc[c] = "reference" /\ UNCHANGED <<files, stores, docs, writes>>
        /\ seen' = seen /\ seen' = [seen EXCEPT ![c] = seen[c]]
    BY <1>1 DEF ReferenceLooked, world, CallsPart
  <2>4. /\ pc'[c] = "audit" /\ call'[c] = k /\ answer'[c] = answer[c] /\ UNCHANGED request
        /\ RestoresStay => (OthersRestore(c) => OthersRestore(c)')
    BY <2>2, MovedCall
  <2>5. ASSUME RestoresStay PROVE CallInv(c)'
    BY <1>1, <2>2, <2>3, <2>4, <2>5
    DEF CallInv, StageFits, Addressed, Untouched, Announced, SnapshotIsOlder, LeavesNothing,
        FreeWhenLooked, ReplacesKnown, UsersAreLookedAt, IsUpload, IsReference, Attaches,
        Early, Preparing, Undoing, Answered, Exists, Uses, CallRecords, Placed
  <2> QED
    BY <1>1, <2>2, <2>3, <2>5, QuietStepKeeps
<1> QED
  BY <1>2, <1>3

(* A call looks whether its path is free, and gives up, ...                *)
LEMMA LookKeeps ==
    ASSUME ServiceInv, NEW c \in Callers, Looks(c)
    PROVE  \E s \in SeenRecords :
              /\ s = [seen[c] EXCEPT !.looked = stores] /\ seen' = [seen EXCEPT ![c] = s]
              /\ seen'[c] = s
<1>1. seen[c] \in SeenRecords /\ seen \in [Callers -> SeenRecords] /\ stores \in Nat
  BY CallTypes DEF ServiceInv, CallsPart, WorldPart
<1>2. [seen[c] EXCEPT !.looked = stores] \in SeenRecords
  BY <1>1 DEF SeenRecords
<1>3. seen' = [seen EXCEPT ![c] = [seen[c] EXCEPT !.looked = stores]]
  BY <1>1 DEF Looks
<1> QED
  BY <1>1, <1>2, <1>3

LEMMA LookAndGiveUpKeeps ==
    ASSUME ServiceInv, NEW c \in Callers, pc[c] \in {"target", "name"}, Looks(c),
           Answers(c, "CONFLICT"), UNCHANGED <<world, fixed, call>>
    PROVE  ServiceInv'
<1>1. /\ CallInv(c) /\ call[c] \in CallRecords /\ seen[c] \in SeenRecords /\ CallsPart
      /\ request[c].kind \in {"idle", "upload", "attach", "reference"}
  BY CallTypes DEF ServiceInv
<1>2. Moves(c, "answered", call[c], "CONFLICT")
  BY <1>1 DEF Answers, Moves, Goes, Stages, CallsPart
<1>3. PICK s \in SeenRecords :
        /\ s = [seen[c] EXCEPT !.looked = stores] /\ seen' = [seen EXCEPT ![c] = s]
        /\ seen'[c] = s
  BY LookKeeps
<1>4. UNCHANGED <<files, stores, docs, writes>> /\ stores \in Nat
  BY DEF world, ServiceInv, WorldPart
<1>5. /\ pc'[c] = "answered" /\ call'[c] = call[c] /\ answer'[c] = "CONFLICT" /\ UNCHANGED request
      /\ RestoresStay => (OthersRestore(c) => OthersRestore(c)')
  BY <1>2, MovedCall
<1>6. ASSUME RestoresStay PROVE CallInv(c)'
  BY <1>1, <1>3, <1>4, <1>5, <1>6
  DEF CallInv, StageFits, Addressed, Untouched, Announced, SnapshotIsOlder, LeavesNothing,
      FreeWhenLooked, ReplacesKnown, UsersAreLookedAt, IsUpload, IsReference, Attaches,
      Early, Preparing, Undoing, Answered, Exists, Uses, SeenRecords, Placed
<1> QED
  BY <1>1, <1>2, <1>3, <1>4, <1>6, QuietStepKeeps

(* ... or takes the path, ...                                              *)
LEMMA LookAndTakeKeeps ==
    ASSUME ServiceInv, NEW c \in Callers, pc[c] \in {"target", "name"}, Looks(c),
           NEW p \in Paths, NEW overwrite \in BOOLEAN, Takes(c, p, overwrite),
           overwrite \/ ~Exists(p), UNCHANGED <<world, fixed>>
    PROVE  ServiceInv'
<1>1. /\ CallInv(c) /\ call[c] \in CallRecords /\ seen[c] \in SeenRecords /\ CallsPart
      /\ request[c].kind \in {"idle", "upload", "attach", "reference"}
  BY CallTypes DEF ServiceInv
<1>1a. [call[c] EXCEPT !.path = p, !.overwrite = overwrite] \in CallRecords
  BY <1>1 DEF CallRecords
<1>1b. call' = [call EXCEPT ![c] = [call[c] EXCEPT !.path = p, !.overwrite = overwrite]]
  BY <1>1 DEF Takes, CallsPart
<1>2. PICK k \in CallRecords :
        /\ Moves(c, "payload", k, answer[c])
        /\ k = [call[c] EXCEPT !.path = p, !.overwrite = overwrite]
  BY <1>1, <1>1a, <1>1b DEF Takes, Moves, Goes, Stages, CallsPart
<1>3. PICK s \in SeenRecords :
        /\ s = [seen[c] EXCEPT !.looked = stores] /\ seen' = [seen EXCEPT ![c] = s]
        /\ seen'[c] = s
  BY LookKeeps
<1>4. UNCHANGED <<files, stores, docs, writes>> /\ stores \in Nat
  BY DEF world, ServiceInv, WorldPart
<1>4a. None # "delete"
  BY PathsAssumption
<1>5. /\ pc'[c] = "payload" /\ call'[c] = k /\ answer'[c] = answer[c] /\ UNCHANGED request
      /\ RestoresStay => (OthersRestore(c) => OthersRestore(c)')
  BY <1>2, MovedCall
<1>6. ASSUME RestoresStay PROVE CallInv(c)'
  BY <1>1, <1>2, <1>3, <1>4, <1>4a, <1>5, <1>6
  DEF CallInv, StageFits, Addressed, Untouched, Announced, SnapshotIsOlder, LeavesNothing,
      FreeWhenLooked, ReplacesKnown, UsersAreLookedAt, IsUpload, IsReference, Attaches,
      Early, Preparing, Undoing, Answered, Exists, Uses, SeenRecords, CallRecords, Placed
<1> QED
  BY <1>1, <1>2, <1>3, <1>4, <1>6, QuietStepKeeps

(* ... or tries the next name.                                             *)
LEMMA LookOnKeeps ==
    ASSUME ServiceInv, NEW c \in Callers, pc[c] \in {"target", "name"}, Looks(c),
           NEW n \in 1 .. MaxCounter, call' = [call EXCEPT ![c].counter = n],
           Goes(c, "name"), UNCHANGED <<world, fixed, answer>>
    PROVE  ServiceInv'
<1>1. /\ CallInv(c) /\ call[c] \in CallRecords /\ seen[c] \in SeenRecords /\ CallsPart
      /\ request[c].kind \in {"idle", "upload", "attach", "reference"}
  BY CallTypes DEF ServiceInv
<1>1a. MaxCounter \in Nat
  BY PathsAssumption DEF MaxCounter
<1>1b. [call[c] EXCEPT !.counter = n] \in CallRecords
  BY <1>1, <1>1a DEF CallRecords
<1>2. PICK k \in CallRecords :
        Moves(c, "name", k, answer[c]) /\ k = [call[c] EXCEPT !.counter = n]
  BY <1>1, <1>1b DEF Moves, Goes, Stages, CallsPart
<1>3. PICK s \in SeenRecords :
        /\ s = [seen[c] EXCEPT !.looked = stores] /\ seen' = [seen EXCEPT ![c] = s]
        /\ seen'[c] = s
  BY LookKeeps
<1>4. UNCHANGED <<files, stores, docs, writes>> /\ stores \in Nat
  BY DEF world, ServiceInv, WorldPart
<1>5. /\ pc'[c] = "name" /\ call'[c] = k /\ answer'[c] = answer[c] /\ UNCHANGED request
      /\ RestoresStay => (OthersRestore(c) => OthersRestore(c)')
  BY <1>2, MovedCall
<1>6. ASSUME RestoresStay PROVE CallInv(c)'
  BY <1>1, <1>1a, <1>2, <1>3, <1>4, <1>5, <1>6
  DEF CallInv, StageFits, Addressed, Untouched, Announced, SnapshotIsOlder, LeavesNothing,
      FreeWhenLooked, ReplacesKnown, UsersAreLookedAt, IsUpload, IsReference, Attaches,
      Early, Preparing, Undoing, Answered, Exists, Uses, SeenRecords, CallRecords, Placed
<1> QED
  BY <1>1, <1>2, <1>3, <1>4, <1>6, QuietStepKeeps

LEMMA TargetLookedKeeps ==
    ASSUME ServiceInv, NEW c \in Callers, TargetLooked(c)
    PROVE  ServiceInv'
<1>1. pc[c] = "target" /\ Looks(c) /\ UNCHANGED <<world, fixed>>
  BY DEF TargetLooked
<1>2. /\ Target \in Paths /\ MaxCounter \in Nat /\ MaxCounter > 0
      /\ request[c].policy \in {"error", "overwrite", "rename"}
  BY PathsAssumption, CallTypes DEF MaxCounter
<1>3. CASE ~Exists(Target)
  <2>1. Takes(c, Target, FALSE)
    BY <1>3 DEF TargetLooked
  <2> QED
    BY <1>1, <1>2, <1>3, <2>1, LookAndTakeKeeps
<1>4. CASE Exists(Target) /\ request[c].policy = "overwrite"
  <2>1. Takes(c, Target, TRUE)
    BY <1>4 DEF TargetLooked
  <2> QED
    BY <1>1, <1>2, <2>1, LookAndTakeKeeps
<1>5. CASE Exists(Target) /\ request[c].policy = "error"
  <2>1. Answers(c, "CONFLICT") /\ UNCHANGED call
    BY <1>5 DEF TargetLooked
  <2> QED
    BY <1>1, <2>1, LookAndGiveUpKeeps
<1>6. CASE Exists(Target) /\ request[c].policy = "rename"
  <2>1. call' = [call EXCEPT ![c].counter = 1] /\ Goes(c, "name") /\ UNCHANGED answer
    BY <1>6 DEF TargetLooked
  <2>2. 1 \in 1 .. MaxCounter
    BY <1>2
  <2> QED
    BY <1>1, <2>1, <2>2, LookOnKeeps
<1> QED
  BY <1>2, <1>3, <1>4, <1>5, <1>6

LEMMA NameLookedKeeps ==
    ASSUME ServiceInv, NEW c \in Callers, NameLooked(c)
    PROVE  ServiceInv'
<1>1. pc[c] = "name" /\ Looks(c) /\ UNCHANGED <<world, fixed>>
  BY DEF NameLooked
<1>2. /\ MaxCounter \in Nat /\ Numbered \in Seq(Paths) /\ MaxCounter = Len(Numbered)
      /\ call[c] \in CallRecords /\ CallsPart /\ Addressed(c)
  BY PathsAssumption, CallTypes DEF MaxCounter, ServiceInv, CallInv
<1>3. call[c].counter \in 1 .. MaxCounter
  BY <1>1, <1>2 DEF CallRecords, Addressed
<1>4. CASE call[c].counter = MaxCounter
  BY <1>1, <1>4, LookAndGiveUpKeeps DEF NameLooked
<1>5. CASE call[c].counter # MaxCounter /\ NameTaken(c)
  <2>1. call' = [call EXCEPT ![c].counter = call[c].counter + 1] /\ UNCHANGED <<pc, answer>>
    BY <1>2, <1>5 DEF NameLooked, CallsPart
  <2>2. call[c].counter + 1 \in 1 .. MaxCounter
    BY <1>2, <1>3, <1>5
  <2>3. Goes(c, "name")
    BY <1>1, <1>2, <2>1 DEF Goes, CallsPart
  <2> QED
    BY <1>1, <2>1, <2>2, <2>3, LookOnKeeps
<1>6. CASE call[c].counter # MaxCounter /\ ~NameTaken(c)
  <2>1. Takes(c, Numbered[call[c].counter], FALSE)
    BY <1>6 DEF NameLooked
  <2>2. Numbered[call[c].counter] \in Paths /\ ~Exists(Numbered[call[c].counter])
    BY <1>2, <1>3, <1>6 DEF NameTaken
  <2> QED
    BY <1>1, <2>1, <2>2, LookAndTakeKeeps
<1> QED
  BY <1>4, <1>5, <1>6

LEMMA ScanGoesOnKeeps ==
    ASSUME ServiceInv, NEW c \in Callers, ScanGoesOn(c)
    PROVE  ServiceInv'
<1>1. /\ CallInv(c) /\ call[c] \in CallRecords /\ seen[c] \in SeenRecords /\ CallsPart
      /\ request[c].kind \in {"idle", "upload", "attach", "reference"}
  BY CallTypes DEF ServiceInv
<1>2. PICK k \in CallRecords, d \in call[c].todo :
        /\ Moves(c, pc[c], k, answer[c])
        /\ ~Uses(d, call[c].path) /\ k = [call[c] EXCEPT !.todo = call[c].todo \ {d}]
  BY <1>1 DEF ScanGoesOn, Moves, Stages, CallsPart, CallRecords
<1>3. /\ pc[c] \in {"scan", "rescan"} /\ UNCHANGED <<files, stores, docs, writes>>
      /\ seen' = seen /\ seen' = [seen EXCEPT ![c] = seen[c]]
  BY <1>1 DEF ScanGoesOn, world, CallsPart
<1>4. /\ pc'[c] = pc[c] /\ call'[c] = k /\ answer'[c] = answer[c] /\ UNCHANGED request
      /\ RestoresStay => (OthersRestore(c) => OthersRestore(c)')
  BY <1>2, MovedCall
<1>5. ASSUME RestoresStay PROVE CallInv(c)'
  BY <1>1, <1>2, <1>3, <1>4, <1>5
  DEF CallInv, StageFits, Addressed, Untouched, Announced, SnapshotIsOlder, LeavesNothing,
      FreeWhenLooked, ReplacesKnown, UsersAreLookedAt, IsUpload, IsReference, Attaches,
      Early, Preparing, Undoing, Answered, Exists, Uses, CallRecords, Placed
<1> QED
  BY <1>1, <1>2, <1>3, <1>5, QuietStepKeeps

LEMMA ScanCleanKeeps ==
    ASSUME ServiceInv, NEW c \in Callers, ScanClean(c)
    PROVE  ServiceInv'
<1>1. /\ CallInv(c) /\ call[c] \in CallRecords /\ seen[c] \in SeenRecords /\ CallsPart
      /\ request[c].kind \in {"idle", "upload", "attach", "reference"}
  BY CallTypes DEF ServiceInv
<1>1a. None # "delete"
  BY PathsAssumption
<1>1b. [call[c] EXCEPT !.undo = "delete"] \in CallRecords
  BY <1>1 DEF CallRecords
<1>2. PICK k \in CallRecords, where \in {"audit", "deleting"} :
        /\ Moves(c, where, k, answer[c])
        /\ IF where = "audit"
           THEN pc[c] = "scan" /\ k = [call[c] EXCEPT !.undo = "delete"]
           ELSE pc[c] = "rescan" /\ k = call[c]
  <2>1. CASE pc[c] = "scan"
    BY <1>1, <1>1b, <2>1 DEF ScanClean, Moves, Goes, Stages, CallsPart
  <2>2. CASE pc[c] = "rescan"
    BY <1>1, <2>2 DEF ScanClean, Moves, Goes, Stages, CallsPart
  <2> QED
    BY <2>1, <2>2 DEF ScanClean
<1>3. /\ call[c].todo = {} /\ UNCHANGED <<files, stores, docs, writes>>
      /\ seen' = seen /\ seen' = [seen EXCEPT ![c] = seen[c]]
  BY <1>1 DEF ScanClean, ScanOver, world, CallsPart
<1>4. /\ pc'[c] = where /\ call'[c] = k /\ answer'[c] = answer[c] /\ UNCHANGED request
      /\ RestoresStay => (OthersRestore(c) => OthersRestore(c)')
  BY <1>2, MovedCall
<1>5. ASSUME RestoresStay PROVE CallInv(c)'
  BY <1>1, <1>1a, <1>2, <1>3, <1>4, <1>5
  DEF CallInv, StageFits, Addressed, Untouched, Announced, SnapshotIsOlder, LeavesNothing,
      FreeWhenLooked, ReplacesKnown, UsersAreLookedAt, IsUpload, IsReference, Attaches,
      Early, Preparing, Undoing, Answered, Exists, Uses, CallRecords, Placed
<1> QED
  BY <1>1, <1>2, <1>3, <1>5, QuietStepKeeps

LEMMA RollbackLooksKeeps ==
    ASSUME ServiceInv, NEW c \in Callers, RollbackLooks(c)
    PROVE  ServiceInv'
<1>1. /\ CallInv(c) /\ call[c] \in CallRecords /\ seen[c] \in SeenRecords /\ CallsPart
      /\ request[c].kind \in {"idle", "upload", "attach", "reference"}
  BY CallTypes DEF ServiceInv
<1>2. /\ pc[c] = "rollback" /\ call[c].undo = "delete"
      /\ UNCHANGED <<world, fixed>> /\ UNCHANGED <<files, stores, docs, writes>>
  BY DEF RollbackLooks, world
<1>3. CASE NothingToDelete(c)
  <2>1. Answers(c, answer[c]) /\ UNCHANGED <<call, seen>>
    BY <1>3 DEF RollbackLooks
  <2>2. Announced(c) /\ SnapshotIsOlder(c)
    BY <1>1 DEF CallInv
  <2>3. seen[c].own # None => files[call[c].path] # seen[c].own
    BY <1>3 DEF NothingToDelete, Exists
  <2> QED
    BY <1>2, <2>1, <2>2, <2>3, AnswerKeeps DEF Announced
<1>4. CASE ~NothingToDelete(c)
  <2> DEFINE now == {d \in Docs : Uses(d, call[c].path)}
  <2>1. [call[c] EXCEPT !.todo = Docs] \in CallRecords /\ [seen[c] EXCEPT !.users = now] \in SeenRecords
    BY <1>1 DEF CallRecords, SeenRecords
  <2>2. /\ call' = [call EXCEPT ![c] = [call[c] EXCEPT !.todo = Docs]]
        /\ seen' = [seen EXCEPT ![c] = [seen[c] EXCEPT !.users = now]]
        /\ Goes(c, "rescan") /\ UNCHANGED answer
    BY <1>1, <1>4 DEF RollbackLooks, CallsPart
  <2>3. PICK k \in CallRecords :
          Moves(c, "rescan", k, answer[c]) /\ k = [call[c] EXCEPT !.todo = Docs]
    BY <1>1, <1>2, <2>1, <2>2 DEF Moves, Goes, Stages, CallsPart
  <2>4. PICK s \in SeenRecords :
          /\ s = [seen[c] EXCEPT !.users = now] /\ seen' = [seen EXCEPT ![c] = s]
          /\ seen'[c] = s
    BY <1>1, <2>1, <2>2 DEF CallsPart
  <2>5. /\ pc'[c] = "rescan" /\ call'[c] = k /\ answer'[c] = answer[c] /\ UNCHANGED request
        /\ RestoresStay => (OthersRestore(c) => OthersRestore(c)')
    BY <2>3, MovedCall
  <2>6. ASSUME RestoresStay PROVE CallInv(c)'
    BY <1>1, <1>2, <2>3, <2>4, <2>5, <2>6
    DEF CallInv, StageFits, Addressed, Untouched, Announced, SnapshotIsOlder, LeavesNothing,
        FreeWhenLooked, ReplacesKnown, UsersAreLookedAt, IsUpload, IsReference, Attaches,
        Early, Preparing, Undoing, Answered, Exists, Uses, SeenRecords, CallRecords, Placed
  <2> QED
    BY <1>1, <1>2, <2>3, <2>4, <2>6, QuietStepKeeps
<1> QED
  BY <1>3, <1>4

----------------------------------------------------------------------------
(* The file is stored, whatever the call learns of it.                     *)
LEMMA StoreKeeps ==
    ASSUME ServiceInv, NEW c \in Callers, pc[c] = "storing",
           Stored(call[c].path), NEW m \in BOOLEAN, StoreSeen(c, m),
           UNCHANGED <<docs, writes, fixed>>,
           NEW where, NEW a, Moves(c, where, call[c], a),
           \/ where = "answered" /\ call[c].undo = None /\ a # "CANCELLED"
           \/ where = "update" /\ Attaches(c) /\ m /\ a = answer[c]
           \/ where = "rollback" /\ Attaches(c) /\ a = "FOUNDRY_ERROR"
    PROVE  ServiceInv'
<1>1. /\ CallInv(c) /\ call[c] \in CallRecords /\ seen[c] \in SeenRecords /\ CallsPart
      /\ request[c].kind \in {"idle", "upload", "attach", "reference"}
  BY CallTypes DEF ServiceInv
<1>2. /\ WorldPart /\ stores \in Nat /\ call[c].path \in Paths
      /\ files[call[c].path] \in (0 .. stores) \cup {None} /\ None \notin Nat
  BY CallTypes DEF CallInv, Addressed, WorldPart, Preparing, Placed
<1>3. /\ WorldPart' /\ stores' = stores + 1 /\ files'[call[c].path] = stores'
      /\ \A o : FilesFor(o)
  BY <1>2, StoredWorld
<1>4. PICK marked \in BOOLEAN : marked = (m /\ request[c].options)
  BY CallTypes
<1>5. PICK s \in SeenRecords :
        /\ s = [seen[c] EXCEPT !.stored = m, !.own = stores', !.over = files[call[c].path],
                               !.marked = marked]
        /\ seen' = [seen EXCEPT ![c] = s] /\ seen'[c] = s
  <2>1. [seen[c] EXCEPT !.stored = m, !.own = stores', !.over = files[call[c].path],
                        !.marked = marked] \in SeenRecords
    <3>1. stores' \in Stores /\ files[call[c].path] \in Stores
      BY <1>2, <1>3 DEF Stores
    <3> QED
      BY <1>1, <3>1 DEF SeenRecords
  <2>2. seen' = [seen EXCEPT ![c] = [seen[c] EXCEPT !.stored = m, !.own = stores',
                        !.over = files[call[c].path], !.marked = marked]]
    BY <1>1, <1>4 DEF StoreSeen, CallsPart
  <2> QED
    BY <1>1, <2>1, <2>2 DEF CallsPart
<1>6. /\ pc'[c] = where /\ call'[c] = call[c] /\ answer'[c] = a /\ UNCHANGED request
      /\ RestoresStay => (OthersRestore(c) => OthersRestore(c)')
  BY MovedCall
<1>7. ASSUME RestoresStay PROVE CallInv(c)'
  <2>1. /\ s.looked = seen[c].looked /\ s.own = stores + 1 /\ s.over = files[call[c].path]
        /\ s.marked = marked /\ s.replaced = seen[c].replaced /\ s.users = seen[c].users
        /\ s.racing = seen[c].racing /\ s.looked \in Nat
    BY <1>1, <1>3, <1>5 DEF SeenRecords
  <2>2. StageFits(c)' /\ Addressed(c)'
    BY <1>1, <1>6 DEF CallInv, StageFits, Addressed, IsUpload, IsReference, Attaches,
                     Early, Preparing, Undoing, Codes
  <2>3. Untouched(c)' /\ Announced(c)'
    BY <1>1, <1>4, <1>5, <1>6, <2>1
    DEF CallInv, StageFits, Untouched, Announced, IsReference, IsUpload, Attaches, Undoing
  <2>4. SnapshotIsOlder(c)'
    <3>1. SnapshotIsOlder(c)
      BY <1>1 DEF CallInv
    <3>2. ASSUME NEW f \in [Paths -> (0 .. stores) \cup {None}]
          PROVE  /\ f \in [Paths -> (0 .. stores + 1) \cup {None}]
                 /\ \A p \in Paths : f[p] # stores + 1
      BY <1>2
    <3>3. call[c].undo = "restore" =>
            /\ call[c].snapshot \in [Paths -> (0 .. stores + 1) \cup {None}]
            /\ \A p \in Paths : call[c].snapshot[p] # stores + 1
      BY <3>1, <3>2 DEF SnapshotIsOlder
    <3>4. seen'[c].own = stores + 1 /\ stores' = stores + 1 /\ call'[c] = call[c]
      BY <1>3, <1>5, <1>6, <2>1
    <3> HIDE <1>5
    <3> QED
      BY <1>2, <3>3, <3>4 DEF SnapshotIsOlder
  <2>5. LeavesNothing(c)'
    BY <1>1, <1>5, <1>6, <2>1 DEF CallInv, StageFits, LeavesNothing, Answered, Attaches
  <2>6. FreeWhenLooked(c)'
    BY <1>1, <1>2, <1>3, <1>5, <1>6, <1>7, <2>1
    DEF CallInv, StageFits, FreeWhenLooked, Preparing, Exists, IsReference, Placed, Undoing
  <2>7. ReplacesKnown(c)' /\ UsersAreLookedAt(c)'
    BY <1>1, <1>5, <1>6, <2>1 DEF CallInv, ReplacesKnown, UsersAreLookedAt
  <2> QED
    BY <2>2, <2>3, <2>4, <2>5, <2>6, <2>7 DEF CallInv
<1>8. seen' \in [Callers -> SeenRecords] /\ \A o \in Callers \ {c} : DocsFor(o)
  BY <1>1, <1>5 DEF CallsPart, DocsFor
<1> QED
  BY <1>3, <1>7, <1>8, CallStepKeeps

LEMMA FileStoredKeeps ==
    ASSUME ServiceInv, NEW c \in Callers, FileStored(c)
    PROVE  ServiceInv'
<1>1. /\ CallInv(c) /\ call[c] \in CallRecords /\ seen[c] \in SeenRecords /\ CallsPart
      /\ request[c].kind \in {"idle", "upload", "attach", "reference"}
  BY CallTypes DEF ServiceInv
<1>2. /\ pc[c] = "storing" /\ Stored(call[c].path) /\ StoreSeen(c, TRUE)
      /\ UNCHANGED <<docs, writes, fixed, call>>
  BY DEF FileStored
<1>3. CASE IsUpload(c)
  <2>1. Moves(c, "answered", call[c], "ok")
    BY <1>1, <1>3 DEF FileStored, Answers, Moves, Goes, Stages, CallsPart
  <2>2. call[c].undo = None
    BY <1>1, <1>3 DEF CallInv, StageFits
  <2> QED
    BY <1>2, <2>1, <2>2, StoreKeeps
<1>4. CASE ~IsUpload(c)
  <2>1. Moves(c, "update", call[c], answer[c])
    BY <1>1, <1>4 DEF FileStored, Moves, Goes, Stages, CallsPart
  <2>2. Attaches(c)
    BY <1>1, <1>2, <1>4 DEF CallInv, StageFits, IsUpload, Attaches, IsReference
  <2> QED
    BY <1>2, <2>1, <2>2, StoreKeeps
<1> QED
  BY <1>3, <1>4

LEMMA StoreFailedKeeps ==
    ASSUME ServiceInv, NEW c \in Callers, StoreFailed(c)
    PROVE  ServiceInv'
<1>1. /\ CallInv(c) /\ call[c] \in CallRecords /\ seen[c] \in SeenRecords /\ CallsPart
      /\ request[c].kind \in {"idle", "upload", "attach", "reference"}
  BY CallTypes DEF ServiceInv
<1>2. /\ pc[c] = "storing" /\ Fails(c, "FOUNDRY_ERROR")
      /\ UNCHANGED <<docs, writes, fixed, call>>
  BY DEF StoreFailed
<1>3. CASE UNCHANGED <<files, stores, seen>>
  <2>1. UNCHANGED <<world, fixed, call, seen>> /\ "FOUNDRY_ERROR" \in Codes
    BY <1>2, <1>3 DEF world, Codes
  <2> QED
    BY <1>2, <2>1, FailKeeps DEF Undoing
<1>4. CASE Stored(call[c].path) /\ StoreSeen(c, FALSE)
  <2>1. CASE call[c].undo = None
    <3>1. Moves(c, "answered", call[c], "FOUNDRY_ERROR")
      BY <1>1, <1>2, <2>1 DEF Fails, Answers, Moves, Goes, Stages, CallsPart
    <3> QED
      BY <1>2, <1>4, <2>1, <3>1, StoreKeeps
  <2>2. CASE call[c].undo # None
    <3>1. Moves(c, "rollback", call[c], "FOUNDRY_ERROR")
      BY <1>1, <1>2, <2>2 DEF Fails, Moves, Goes, Stages, CallsPart
    <3>2. Attaches(c)
      BY <1>1, <1>2, <2>2 DEF CallInv, StageFits, IsUpload, Attaches, IsReference
    <3> QED
      BY <1>2, <1>4, <3>1, <3>2, StoreKeeps
  <2> QED
    BY <2>1, <2>2
<1> QED
  BY <1>3, <1>4 DEF StoreFailed

(* The document is updated, whatever the call learns of it.                *)
LEMMA CommitKeeps ==
    ASSUME ServiceInv, NEW c \in Callers, pc[c] = "updating", UpdateCommits(c),
           UNCHANGED <<files, stores, fixed>>,
           NEW where, NEW a, Moves(c, where, call[c], a),
           \/ where = "answered" /\ (call[c].undo = None \/ a = "ok") /\ a # "CANCELLED"
           \/ where = "rollback" /\ call[c].undo # None /\ a = "FOUNDRY_ERROR"
    PROVE  ServiceInv'
<1>1. /\ CallInv(c) /\ call[c] \in CallRecords /\ seen[c] \in SeenRecords /\ CallsPart
      /\ request[c].kind \in {"idle", "upload", "attach", "reference"}
  BY CallTypes DEF ServiceInv
<1> DEFINE d == call[c].doc
           p == call[c].path
<1>2. d \in Docs /\ p \in Paths /\ WorldPart
  BY <1>1, CallTypes DEF CallInv, Addressed
<1>3. /\ DocWritten(d, p)
      /\ seen' = [o \in Callers |->
                    IF o = c THEN [Witnessed(c, d, p) EXCEPT !.replaced = docs[d].rev]
                    ELSE Witnessed(o, d, p)]
  BY DEF UpdateCommits
<1>4. WorldPart' /\ \A o : FilesFor(o)
  BY <1>2, <1>3, WrittenDocument
<1>5. docs[d].rev \in Stores /\ docs[d].rev \in Nat
  BY <1>2 DEF WorldPart, Stores
<1>6. \A o \in Callers \ {c} : seen'[o] = Witnessed(o, d, p)
  BY <1>3
<1>7. \A o \in Callers \ {c} : DocsFor(o) /\ seen'[o] \in SeenRecords
  BY <1>2, <1>3, <1>6, WitnessedCall DEF DocsFor
<1>8. PICK s \in SeenRecords :
        /\ s = [Witnessed(c, d, p) EXCEPT !.replaced = docs[d].rev] /\ seen'[c] = s
        /\ s.looked = seen[c].looked /\ s.over = seen[c].over /\ s.own = seen[c].own
        /\ s.marked = seen[c].marked /\ s.replaced = docs[d].rev
        /\ seen[c].racing \subseteq s.racing
  <2>1. PICK t : t = Witnessed(c, d, p)
    OBVIOUS
  <2>2. /\ t \in SeenRecords /\ KeepsPast(t, seen[c]) /\ t.racing = RacingWith(c, d)
    BY <1>2, <2>1, WitnessedCall
  <2>3. /\ [t EXCEPT !.replaced = docs[d].rev] \in SeenRecords
        /\ LET s == [t EXCEPT !.replaced = docs[d].rev]
           IN  /\ s.looked = t.looked /\ s.over = t.over /\ s.own = t.own
               /\ s.marked = t.marked /\ s.replaced = docs[d].rev /\ s.racing = t.racing
    BY <1>5, <2>2 DEF SeenRecords
  <2>4. seen'[c] = [t EXCEPT !.replaced = docs[d].rev]
    BY <1>3, <2>1
  <2>5. seen[c].racing \subseteq t.racing
    BY <2>2 DEF RacingWith
  <2> QED
    BY <2>1, <2>2, <2>3, <2>4, <2>5 DEF KeepsPast
<1>9. seen' \in [Callers -> SeenRecords]
  BY <1>3, <1>7, <1>8
<1>10. /\ pc'[c] = where /\ call'[c] = call[c] /\ answer'[c] = a /\ UNCHANGED request
       /\ RestoresStay => (OthersRestore(c) => OthersRestore(c)')
  BY MovedCall
<1>11. ASSUME RestoresStay PROVE CallInv(c)'
  <2>1. StageFits(c)' /\ Addressed(c)'
    BY <1>1, <1>10 DEF CallInv, StageFits, Addressed, IsUpload, IsReference, Attaches,
                     Early, Preparing, Undoing, Codes
  <2>2. Untouched(c)' /\ Announced(c)' /\ SnapshotIsOlder(c)'
    BY <1>1, <1>8, <1>10
    DEF CallInv, Untouched, Announced, SnapshotIsOlder, IsReference, Attaches, Undoing
  <2>3. LeavesNothing(c)'
    BY <1>1, <1>8, <1>10 DEF CallInv, Untouched, LeavesNothing, Answered, Attaches
  <2>4. FreeWhenLooked(c)'
    BY <1>1, <1>8, <1>10, <1>11
    DEF CallInv, FreeWhenLooked, IsReference, Exists, Placed, Preparing, Undoing
  <2>5. ReplacesKnown(c)' /\ UsersAreLookedAt(c)'
    BY <1>1, <1>8, <1>10 DEF CallInv, ReplacesKnown, UsersAreLookedAt
  <2> QED
    BY <2>1, <2>2, <2>3, <2>4, <2>5 DEF CallInv
<1> QED
  BY <1>4, <1>7, <1>9, <1>11, CallStepKeeps

LEMMA UpdatingKeeps ==
    ASSUME ServiceInv, NEW c \in Callers, DocumentUpdated(c) \/ UpdateFailed(c)
    PROVE  ServiceInv'
<1>1. /\ CallInv(c) /\ call[c] \in CallRecords /\ seen[c] \in SeenRecords /\ CallsPart
      /\ request[c].kind \in {"idle", "upload", "attach", "reference"}
  BY CallTypes DEF ServiceInv
<1>2. pc[c] = "updating" /\ UNCHANGED <<files, stores, fixed, call>>
  BY DEF DocumentUpdated, UpdateFailed
<1>3. CASE DocumentUpdated(c)
  <2>1. Moves(c, "answered", call[c], "ok")
    BY <1>1, <1>3 DEF DocumentUpdated, Answers, Moves, Goes, Stages, CallsPart
  <2> QED
    BY <1>2, <1>3, <2>1, CommitKeeps DEF DocumentUpdated
<1>4. CASE UpdateFailed(c) /\ UpdateCommits(c)
  <2>1. CASE call[c].undo = None
    <3>1. Moves(c, "answered", call[c], "FOUNDRY_ERROR")
      BY <1>1, <1>2, <1>4, <2>1 DEF UpdateFailed, Fails, Answers, Moves, Goes, Stages, CallsPart
    <3> QED
      BY <1>2, <1>4, <2>1, <3>1, CommitKeeps
  <2>2. CASE call[c].undo # None
    <3>1. Moves(c, "rollback", call[c], "FOUNDRY_ERROR")
      BY <1>1, <1>2, <1>4, <2>2 DEF UpdateFailed, Fails, Moves, Goes, Stages, CallsPart
    <3> QED
      BY <1>2, <1>4, <2>2, <3>1, CommitKeeps
  <2> QED
    BY <2>1, <2>2
<1>5. CASE UpdateFailed(c) /\ UNCHANGED <<docs, writes, seen>>
  <2>1. UNCHANGED <<world, fixed, call, seen>> /\ "FOUNDRY_ERROR" \in Codes
    BY <1>2, <1>5 DEF world, Codes
  <2> QED
    BY <1>2, <1>5, <2>1, FailKeeps DEF UpdateFailed, Undoing
<1> QED
  BY <1>3, <1>4, <1>5 DEF UpdateFailed

----------------------------------------------------------------------------
(* The two rollbacks.                                                      *)
LEMMA RollbackKeeps ==
    ASSUME ServiceInv, NEW c \in Callers, pc[c] \in Undoing, Answers(c, answer[c]),
           UNCHANGED <<stores, docs, writes, fixed, call, seen>>,
           files' \in [Paths -> (0 .. stores) \cup {None}],
           seen[c].own # None => files'[call[c].path] # seen[c].own,
           \/ \A p \in Paths : files'[p] \in {files[p], None}
           \/ call[c].undo = "restore"
    PROVE  ServiceInv'
<1>1. /\ CallInv(c) /\ call[c] \in CallRecords /\ seen[c] \in SeenRecords /\ CallsPart
      /\ request[c].kind \in {"idle", "upload", "attach", "reference"}
  BY CallTypes DEF ServiceInv
<1>2. Moves(c, "answered", call[c], answer[c])
  BY <1>1 DEF Answers, Moves, Goes, Stages, CallsPart
<1>3. /\ pc'[c] = "answered" /\ call'[c] = call[c] /\ answer'[c] = answer[c] /\ UNCHANGED request
      /\ RestoresStay => (OthersRestore(c) => OthersRestore(c)')
  BY <1>2, MovedCall
<1>4. WorldPart' /\ stores' = stores /\ stores \in Nat
  BY DEF ServiceInv, WorldPart, fixed
<1>5. seen' = seen /\ seen' \in [Callers -> SeenRecords] /\ \A o : DocsFor(o)
  BY <1>1 DEF CallsPart, DocsFor
<1>6. call[c].undo = "restore" => Restores(c)'
  BY <1>1, <1>3 DEF CallInv, StageFits, Restores, Answered, Codes, Undoing
<1>7. \A o \in Callers \ {c} : FilesFor(o)
  BY <1>4, <1>6 DEF FilesFor, OthersRestore
<1>8. ASSUME RestoresStay PROVE CallInv(c)'
  <2>1. StageFits(c)' /\ Addressed(c)' /\ Untouched(c)' /\ UsersAreLookedAt(c)'
    BY <1>1, <1>3, <1>5
    DEF CallInv, StageFits, Addressed, Untouched, IsUpload, IsReference, Attaches, Preparing,
        Early, Undoing, UsersAreLookedAt
  <2>2. Announced(c)' /\ SnapshotIsOlder(c)'
    BY <1>1, <1>3, <1>4, <1>5 DEF CallInv, Announced, SnapshotIsOlder
  <2>3. LeavesNothing(c)'
    BY <1>3, <1>5 DEF LeavesNothing
  <2>4. FreeWhenLooked(c)' /\ ReplacesKnown(c)'
    BY <1>1, <1>3, <1>4, <1>5, <1>8 DEF CallInv, FreeWhenLooked, ReplacesKnown, Placed, Preparing, Undoing
  <2> QED
    BY <2>1, <2>2, <2>3, <2>4 DEF CallInv
<1> QED
  BY <1>2, <1>4, <1>5, <1>7, <1>8, CallStepKeeps DEF Undoing

LEMMA RestoredKeeps ==
    ASSUME ServiceInv, NEW c \in Callers, Restored(c)
    PROVE  ServiceInv'
<1>1. /\ CallInv(c) /\ pc[c] = "rollback" /\ call[c].undo = "restore"
      /\ files' = call[c].snapshot /\ Answers(c, answer[c])
      /\ UNCHANGED <<stores, docs, writes, fixed, call, seen>>
  BY CallTypes DEF Restored
<1>2. SnapshotIsOlder(c) /\ call[c].path \in Paths
  BY <1>1, PathsAssumption DEF CallInv, Addressed
<1>3. /\ files' \in [Paths -> (0 .. stores) \cup {None}]
      /\ seen[c].own # None => files'[call[c].path] # seen[c].own
  BY <1>1, <1>2 DEF SnapshotIsOlder
<1> QED
  BY <1>1, <1>3, RollbackKeeps DEF Undoing

LEMMA DeletedKeeps ==
    ASSUME ServiceInv, NEW c \in Callers, Deleted(c)
    PROVE  ServiceInv'
<1>1. /\ CallInv(c) /\ pc[c] = "deleting" /\ Answers(c, answer[c])
      /\ files' = [files EXCEPT ![call[c].path] = None]
      /\ files \in [Paths -> (0 .. stores) \cup {None}]
      /\ UNCHANGED <<stores, docs, writes, fixed, call, seen>>
  BY CallTypes DEF Deleted, WorldPart
<1>2. call[c].path \in Paths
  BY <1>1 DEF CallInv, StageFits, Addressed, Undoing
<1>3. /\ files' \in [Paths -> (0 .. stores) \cup {None}]
      /\ files'[call[c].path] = None
      /\ \A p \in Paths : files'[p] \in {files[p], None}
  BY <1>1, <1>2
<1> QED
  BY <1>1, <1>3, RollbackKeeps DEF Undoing

----------------------------------------------------------------------------
(* What the service promises holds after every step, ...                   *)
LEMMA NextKeeps ==
    ASSUME ServiceInv, Next
    PROVE  ServiceInv'
<1>1. CASE Others
  BY <1>1, OtherStoresKeeps, OtherEditsKeeps DEF Others
<1>2. ASSUME NEW c \in Callers, Call(c) PROVE ServiceInv'
  <2>1. CASE \/ \E d \in Docs : ReadDocument(c, d)
             \/ \E p \in Paths : ReferenceLooked(c, p)
             \/ TargetLooked(c) \/ NameLooked(c) \/ PayloadResolved(c) \/ SnapshotTaken(c)
             \/ ScanBegins(c) \/ ScanGoesOn(c) \/ ScanClean(c)
    BY <2>1, ReadDocumentKeeps, ReferenceLookedKeeps, TargetLookedKeeps, NameLookedKeeps,
       PayloadResolvedKeeps, SnapshotTakenKeeps, ScanBeginsKeeps, ScanGoesOnKeeps, ScanCleanKeeps
  <2>2. CASE \/ Audited(c) \/ StoreSent(c) \/ FileStored(c) \/ StoreFailed(c)
             \/ UpdateSent(c) \/ DocumentUpdated(c) \/ UpdateFailed(c)
             \/ Restored(c) \/ RollbackLooks(c) \/ Deleted(c)
    BY <2>2, AuditedKeeps, StoreSentKeeps, FileStoredKeeps, StoreFailedKeeps, UpdateSentKeeps,
       UpdatingKeeps, RestoredKeeps, RollbackLooksKeeps, DeletedKeeps
  <2>3. CASE \/ Cancelled(c) \/ DocumentRefused(c) \/ DestinationRefused(c) \/ PayloadRefused(c)
             \/ CannotCompensate(c) \/ ScanFound(c) \/ ScanFailed(c) \/ AuditFailed(c)
             \/ UpdateRefused(c) \/ RollbackFailed(c)
    BY <2>3, AnsweringKeeps, FailingKeeps
  <2> QED
    BY <1>2, <2>1, <2>2, <2>3 DEF Call
<1> QED
  BY <1>1, <1>2 DEF Next

(* ... and at the start.                                                   *)
LEMMA InitHolds ==
    ASSUME Init PROVE ServiceInv
<1>1. WorldPart
  BY PathsAssumption DEF Init, WorldPart
<1>2. Unasked \in CallRecords /\ Unseen \in SeenRecords
  <2>1. MaxCounter \in Nat
    BY PathsAssumption DEF MaxCounter
  <2> QED
    BY <2>1 DEF Unasked, Unseen, CallRecords, SeenRecords, Stores
<1>3. request \in [Callers -> [kind : {"idle", "upload", "attach", "reference"},
                              policy : {"error", "overwrite", "rename"}, options : BOOLEAN]]
  BY RequestsAssumption DEF Init
<1>4. CallsPart
  BY <1>2, <1>3 DEF Init, CallsPart, Stages, IsUpload
<1>5. ASSUME NEW c \in Callers PROVE CallInv(c)
  <2>1. /\ call[c] = Unasked /\ seen[c] = Unseen /\ answer[c] = None /\ stores = 0
        /\ pc[c] = CASE request[c].kind = "idle" -> "answered"
                     [] IsUpload(c) -> "target"
                     [] OTHER -> "document"
    BY DEF Init
  <2>2. None # "CANCELLED" /\ None # "restore"
    BY PathsAssumption
  <2> QED
    BY <1>3, <2>1, <2>2
    DEF Unasked, Unseen, CallInv, StageFits, Addressed, Untouched, Announced, SnapshotIsOlder,
        LeavesNothing, FreeWhenLooked, ReplacesKnown, UsersAreLookedAt, IsUpload, IsReference,
        Attaches, Early, Preparing, Undoing, Answered, Exists, Placed
<1> QED
  BY <1>1, <1>4, <1>5 DEF ServiceInv

----------------------------------------------------------------------------
(* Facts about numbers, folders, queues and pages.                         *)
LEMMA LeastNatural ==
    ASSUME NEW S, S \subseteq Nat, S # {}
    PROVE  \E n \in S : \A m \in S : n <= m
<1>1. \A m, n \in Nat : m < n => <<m, n>> \in OpToRel(<, Nat)
  BY DEF OpToRel
<1>2. \E R : IsWellFoundedOn(R, Nat) /\ \A m, n \in Nat : m < n => <<m, n>> \in R
  BY <1>1, NatLessThanWellFounded, Zenon
<1>3. PICK R : IsWellFoundedOn(R, Nat) /\ \A m, n \in Nat : m < n => <<m, n>> \in R
  BY <1>2
<1>4. \E n \in S : \A m \in S : ~ (<<m, n>> \in R)
  BY <1>3, WFMin, Zenon
<1>5. PICK n \in S : \A m \in S : ~ (<<m, n>> \in R)
  BY <1>4
<1>6. \A m \in S : ~ (m < n) /\ m \in Nat /\ n \in Nat
  BY <1>3, <1>5
<1> QED
  BY <1>5, <1>6

(* The folders being a tree, the depth of each is what its equation says.  *)
LEMMA DepthOfFolder ==
    /\ Depth[Top] = 0
    /\ \A f \in Folders : Depth[f] \in Nat
    /\ \A f \in Folders \ {Top} : Above[f] \in Folders /\ Depth[f] = Depth[Above[f]] + 1
<1> DEFINE Levels(g) == g = [f \in Folders |-> IF f = Top THEN 0 ELSE g[Above[f]] + 1]
<1>1. Top \in Folders /\ \A f \in Folders \ {Top} : Above[f] \in Folders
  BY FoldersAssumption
<1>2. PICK level \in [Folders -> 0 .. Cardinality(Folders)] :
        /\ level[Top] = 0
        /\ \A f \in Folders \ {Top} : level[f] = level[Above[f]] + 1
  BY TreeAssumption
<1>3. Levels(level)
  BY <1>2
<1>4. Depth = CHOOSE g : Levels(g)
  BY DEF Depth
<1>5. Levels(Depth)
  <2> HIDE DEF Levels
  <2> QED
    BY <1>3, <1>4
<1>6. /\ Depth[Top] = 0
      /\ \A f \in Folders \ {Top} : Depth[f] = Depth[Above[f]] + 1
  BY <1>1, <1>5
<1>7. \A f \in Folders : level[f] \in Nat
  BY <1>2, FoldersAssumption, FS_CardinalityType
<1>8. \A f \in Folders : Depth[f] = level[f]
  <2> DEFINE Wrong == {f \in Folders : Depth[f] # level[f]}
             Numbers == {level[f] : f \in Wrong}
  <2>1. SUFFICES ASSUME Wrong # {} PROVE FALSE
    OBVIOUS
  <2>2. Numbers \subseteq Nat /\ Numbers # {}
    BY <1>7, <2>1
  <2>3. \E n \in Numbers : \A m \in Numbers : n <= m
    <3> HIDE DEF Numbers
    <3> QED BY <2>2, LeastNatural
  <2>4. PICK f \in Wrong : \A g \in Wrong : level[f] <= level[g]
    BY <2>3
  <2>5. f \in Folders \ {Top} /\ Above[f] \in Folders
    BY <1>1, <1>2, <1>6, <2>4
  <2>6. level[Above[f]] \in Nat /\ level[f] = level[Above[f]] + 1
    BY <1>2, <1>7, <2>5
  <2>7. Above[f] \notin Wrong
    BY <2>4, <2>6
  <2> QED
    BY <1>6, <2>4, <2>5, <2>6, <2>7
<1> QED
  BY <1>1, <1>6, <1>7, <1>8

(* What is browsed is closed under what is below it, up to the depth limit:*)
(* when nothing is left in the queue, every folder in reach was browsed,   *)
(* and nothing was too deep unless the scan says so.                       *)
LEMMA EveryFolderVisited ==
    ASSUME NEW V \in SUBSET Folders, Top \in V,
           \A f \in V : \A g \in Subfolders(f) :
              IF Depth[f] < MaxDepth THEN g \in V ELSE scan.cut
    PROVE  /\ \A f \in Folders : Depth[f] <= MaxDepth => f \in V
           /\ \A f \in Folders : Depth[f] > MaxDepth => scan.cut
<1>1. /\ MaxDepth \in Nat /\ Depth[Top] = 0
      /\ \A f \in Folders : Depth[f] \in Nat
      /\ \A f \in Folders \ {Top} : Above[f] \in Folders /\ Depth[f] = Depth[Above[f]] + 1
  BY DepthOfFolder, FoldersAssumption
<1>2. \A f \in Folders \ {Top} : f \in Subfolders(Above[f])
  BY DEF Subfolders
<1> DEFINE Missed == {f \in Folders \ V : Depth[f] <= MaxDepth}
           Numbers == {Depth[f] : f \in Missed}
<1>3. Missed = {}
  <2>1. SUFFICES ASSUME Missed # {} PROVE FALSE
    OBVIOUS
  <2>2. Numbers \subseteq Nat /\ Numbers # {}
    BY <1>1, <2>1
  <2>3. \E n \in Numbers : \A m \in Numbers : n <= m
    <3> HIDE DEF Numbers
    <3> QED BY <2>2, LeastNatural
  <2>4. PICK f \in Missed : \A g \in Missed : Depth[f] <= Depth[g]
    BY <2>3
  <2>5. f \in Folders \ {Top} /\ Above[f] \in Folders /\ Depth[f] = Depth[Above[f]] + 1
        /\ Depth[Above[f]] \in Nat
    BY <1>1, <2>4
  <2>6. Depth[Above[f]] < MaxDepth /\ Above[f] \notin Missed
    BY <1>1, <2>4, <2>5
  <2>7. Above[f] \in V
    BY <1>1, <2>5, <2>6
  <2> QED
    BY <1>2, <2>4, <2>5, <2>6, <2>7
<1>4. ASSUME NEW h \in Folders, Depth[h] > MaxDepth PROVE scan.cut
  <2> DEFINE Deep == {f \in Folders : Depth[f] > MaxDepth}
             Depths == {Depth[f] : f \in Deep}
  <2>1. Depths \subseteq Nat /\ Depths # {}
    BY <1>1, <1>4
  <2>2. \E n \in Depths : \A m \in Depths : n <= m
    <3> HIDE DEF Depths
    <3> QED BY <2>1, LeastNatural
  <2>3. PICK f \in Deep : \A g \in Deep : Depth[f] <= Depth[g]
    BY <2>2
  <2>4. f \in Folders \ {Top} /\ Above[f] \in Folders /\ Depth[f] = Depth[Above[f]] + 1
        /\ Depth[Above[f]] \in Nat
    BY <1>1, <2>3
  <2>5. Above[f] \notin Deep /\ ~(Depth[Above[f]] < MaxDepth)
    BY <1>1, <2>3, <2>4
  <2>6. Above[f] \in V
    BY <1>1, <1>3, <2>4, <2>5
  <2> QED
    BY <1>2, <2>4, <2>5, <2>6
<1> QED
  BY <1>3, <1>4

(* A queue is its head and its tail, and what is appended to it.           *)
LEMMA QueueMembers ==
    ASSUME NEW S, NEW q \in Seq(S), q # <<>>, NEW r \in Seq(S)
    PROVE  /\ Head(q) \in S /\ Head(q) \in ToSet(q) /\ Tail(q) \o r \in Seq(S)
           /\ ToSet(q) = {Head(q)} \cup ToSet(Tail(q))
           /\ ToSet(Tail(q) \o r) = ToSet(Tail(q)) \cup ToSet(r)
<1>1. /\ Len(q) \in Nat \ {0} /\ Tail(q) \in Seq(S) /\ Len(Tail(q)) = Len(q) - 1
      /\ Head(q) = q[1] /\ \A i \in 1 .. Len(q) - 1 : Tail(q)[i] = q[i + 1]
      /\ Head(q) \in S
  OBVIOUS
<1>2. ToSet(q) = {Head(q)} \cup ToSet(Tail(q))
  <2>1. ASSUME NEW i \in 1 .. Len(q), i # 1 PROVE \E j \in 1 .. Len(q) - 1 : Tail(q)[j] = q[i]
    <3>1. i - 1 \in 1 .. Len(q) - 1
      BY <1>1, <2>1
    <3>2. Tail(q)[i - 1] = q[i]
      BY <1>1, <3>1
    <3> QED
      BY <3>1, <3>2
  <2>2. \A j \in 1 .. Len(q) - 1 : j + 1 \in 1 .. Len(q)
    BY <1>1
  <2>3. DOMAIN q = 1 .. Len(q) /\ DOMAIN Tail(q) = 1 .. Len(q) - 1 /\ 1 \in 1 .. Len(q)
    BY <1>1
  <2>4. ASSUME NEW x \in ToSet(q) PROVE x = Head(q) \/ x \in ToSet(Tail(q))
    <3>1. PICK i \in 1 .. Len(q) : x = q[i]
      BY <2>3 DEF ToSet
    <3>2. CASE i = 1
      BY <1>1, <3>1, <3>2
    <3>3. CASE i # 1
      <4>1. PICK j \in 1 .. Len(q) - 1 : Tail(q)[j] = x
        BY <2>1, <3>1, <3>3
      <4> QED
        BY <2>3, <4>1 DEF ToSet
    <3> QED
      BY <3>2, <3>3
  <2>5. \A x \in ToSet(Tail(q)) : x \in ToSet(q)
    BY <1>1, <2>2, <2>3 DEF ToSet
  <2>6. Head(q) \in ToSet(q)
    BY <1>1, <2>3 DEF ToSet
  <2> QED
    BY <2>4, <2>5, <2>6
<1>3. ToSet(Tail(q) \o r) = ToSet(Tail(q)) \cup ToSet(r)
  <2> DEFINE t == Tail(q)
  <2>0. t \in Seq(S)
    BY <1>1
  <2> HIDE DEF t
  <2>1. /\ Len(t) \in Nat /\ Len(r) \in Nat
        /\ DOMAIN t = 1 .. Len(t) /\ DOMAIN r = 1 .. Len(r) /\ DOMAIN (t \o r) = 1 .. Len(t) + Len(r)
        /\ \A i \in 1 .. Len(t) + Len(r) :
              (t \o r)[i] = IF i <= Len(t) THEN t[i] ELSE r[i - Len(t)]
    BY <2>0
  <2>2. ASSUME NEW x \in ToSet(t \o r) PROVE x \in ToSet(t) \cup ToSet(r)
    <3>1. PICK i \in 1 .. Len(t) + Len(r) : x = (t \o r)[i]
      BY <2>1 DEF ToSet
    <3>2. CASE i <= Len(t)
      BY <2>1, <3>1, <3>2 DEF ToSet
    <3>3. CASE ~(i <= Len(t))
      <4>1. i - Len(t) \in 1 .. Len(r)
        BY <2>1, <3>3
      <4> QED
        BY <2>1, <3>1, <3>3, <4>1 DEF ToSet
    <3> QED
      BY <3>2, <3>3
  <2>3. ASSUME NEW x \in ToSet(t) PROVE x \in ToSet(t \o r)
    <3>1. PICK i \in 1 .. Len(t) : x = t[i]
      BY <2>1 DEF ToSet
    <3>2. i \in 1 .. Len(t) + Len(r) /\ (t \o r)[i] = x
      BY <2>1, <3>1
    <3> QED
      BY <2>1, <3>2 DEF ToSet
  <2>4. ASSUME NEW x \in ToSet(r) PROVE x \in ToSet(t \o r)
    <3>1. PICK i \in 1 .. Len(r) : x = r[i]
      BY <2>1 DEF ToSet
    <3>2. i + Len(t) \in 1 .. Len(t) + Len(r) /\ (t \o r)[i + Len(t)] = x
      BY <2>1, <3>1
    <3> QED
      BY <2>1, <3>2 DEF ToSet
  <2>5. ToSet(t \o r) = ToSet(t) \cup ToSet(r)
    BY <2>2, <2>3, <2>4
  <2> QED
    BY <2>5 DEF t
<1>4. Head(q) \in ToSet(q) /\ Tail(q) \o r \in Seq(S)
  BY <1>1, <1>2
<1> QED
  BY <1>1, <1>2, <1>3, <1>4

(* A page that leaves something out has a last path, and what it leaves    *)
(* out comes after that.                                                   *)
LEMMA PageIsFirst ==
    ASSUME NEW S \in SUBSET Paths, PageOf(S) # S
    PROVE  \E last \in PageOf(S) :
              /\ last = CHOOSE p \in PageOf(S) : \A q \in PageOf(S) : q <= p
              /\ \A q \in PageOf(S) : q <= last
              /\ \A q \in S \ PageOf(S) : q > last
<1> DEFINE P == PageOf(S)
           Earlier(p) == {q \in S : q < p}
           N(p) == Cardinality(Earlier(p))
<1>1. P = {p \in S : N(p) < PageSize} /\ PageSize \in Nat \ {0}
  BY FoldersAssumption DEF PageOf
<1>2. S \subseteq Nat /\ IsFiniteSet(S)
  BY PathsAssumption, FoldersAssumption, FS_Subset
<1>3. \A p \in S : IsFiniteSet(Earlier(p)) /\ N(p) \in Nat
  <2>1. \A p \in S : IsFiniteSet(Earlier(p))
    BY <1>2, FS_Subset
  <2> QED
    BY <2>1, FS_CardinalityType
<1>4. ASSUME NEW p \in S, NEW q \in S, p < q PROVE N(p) < N(q)
  <2>1. Earlier(p) \in SUBSET Earlier(q) /\ p \in Earlier(q) /\ p \notin Earlier(p)
    <3>1. p \in Nat /\ q \in Nat /\ \A x \in S : x \in Nat
      BY <1>2
    <3>2. ~(p < p) /\ \A x \in S : x < p => x < q
      BY <1>4, <3>1
    <3> QED
      BY <1>4, <3>2
  <2>2. /\ N(p) <= N(q) /\ (N(p) = N(q) => Earlier(p) = Earlier(q))
    BY <1>3, <2>1, FS_Subset
  <2>3. Earlier(p) # Earlier(q) /\ N(p) \in Nat /\ N(q) \in Nat
    BY <1>3, <2>1
  <2> HIDE DEF Earlier
  <2> QED
    BY <2>2, <2>3
<1>5. P # {}
  <2>1. S # {}
    BY <1>1
  <2>2. PICK n \in S : \A m \in S : n <= m
    BY <1>2, <2>1, LeastNatural
  <2>3. Earlier(n) = {}
    <3>1. \A m \in S : m \in Nat /\ n \in Nat /\ n <= m
      BY <1>2, <2>2
    <3>2. \A m \in S : ~(m < n)
      BY <3>1
    <3> QED
      BY <3>2
  <2>4. N(n) = 0
    BY <2>3, FS_EmptySet
  <2> QED
    BY <1>1, <2>4
<1> HIDE DEF N
<1>6. \E d \in P : \A e \in P : e <= d
  <2> DEFINE Distance == {PageSize - N(d) : d \in P}
  <2>0. \A d \in P : d \in S /\ N(d) \in Nat /\ N(d) < PageSize
    BY <1>1, <1>3
  <2>1. Distance \subseteq Nat /\ Distance # {}
    BY <1>1, <1>5, <2>0
  <2>2. \E n \in Distance : \A m \in Distance : n <= m
    <3> HIDE DEF Distance
    <3> QED BY <2>1, LeastNatural
  <2>3. PICK d \in P : \A e \in P : PageSize - N(d) <= PageSize - N(e)
    BY <2>2
  <2>4. \A e \in P : N(e) \in Nat /\ e \in S /\ e \in Nat /\ N(e) <= N(d)
    <3>1. N(d) \in Nat /\ PageSize \in Nat
      BY <1>1, <2>0
    <3>2. ASSUME NEW e \in P
          PROVE  N(e) \in Nat /\ e \in S /\ e \in Nat /\ N(e) <= N(d)
      <4>1. N(e) \in Nat /\ e \in S /\ PageSize - N(d) <= PageSize - N(e)
        BY <2>0, <2>3
      <4> QED
        BY <1>2, <3>1, <4>1
    <3> QED
      BY <3>2
  <2>5. \A e \in P : ~(d < e)
    BY <1>4, <2>4
  <2>6. \A e \in P : e <= d
    BY <2>4, <2>5
  <2> QED
    BY <2>6
<1>7. PICK last : last = CHOOSE p \in P : \A q \in P : q <= p
  OBVIOUS
<1>8. last \in P /\ \A q \in P : q <= last
  BY <1>6, <1>7
<1>9. ASSUME NEW q \in S \ P PROVE q > last
  <2>1. last \in S /\ N(last) < PageSize /\ ~(N(q) < PageSize) /\ N(last) \in Nat /\ N(q) \in Nat
    BY <1>1, <1>3, <1>8
  <2>2. ASSUME q < last PROVE FALSE
    <3>1. N(q) < N(last)
      BY <1>4, <2>1, <2>2
    <3> QED
      BY <1>1, <2>1, <3>1
  <2>3. q # last /\ q \in Nat /\ last \in Nat
    BY <1>2, <2>1
  <2> QED
    BY <2>2, <2>3
<1> QED
  BY <1>7, <1>8, <1>9


----------------------------------------------------------------------------
(* The listing at work: where its scan is, and what it has found.          *)

(* Types, as facts about the parts.                                        *)
LEMMA ListingFacts ==
    ASSUME ListingTypes
    PROVE  /\ listing \in Listings /\ scan \in Scans /\ order \in Seq(SourceNames)
           /\ scan.queue \in Seq(Folders) /\ scan.sources \in Seq(SourceNames)
           /\ scan.from \in [Paths -> SourceNames \cup {None}]
           /\ scan.writable \in [Paths -> BOOLEAN] /\ scan.cut \in BOOLEAN
           /\ listing.cursor \in Paths \cup {None} /\ listing.cut \in BOOLEAN
           /\ listing.listed \in [Paths -> Seq(Listed)]
           /\ None \notin SourceNames /\ None \notin Paths /\ Paths \subseteq Nat
<1>1. listing \in Listings
  BY DEF ListingTypes
<1>2. scan \in Scans /\ order \in Orders \cup {<<>>}
  BY <1>1 DEF Listings, scan, order
<1>3. order \in Seq(SourceNames)
  <2>1. Orders \subseteq Seq(SourceNames)
    BY FoldersAssumption DEF SourceNames
  <2>2. CASE order = <<>>
    BY <2>2
  <2>3. CASE order \in Orders
    BY <2>1, <2>3
  <2> QED
    BY <1>2, <2>2, <2>3
<1>4. /\ scan.queue \in Seq(Folders) /\ scan.sources \in Seq(SourceNames)
      /\ scan.from \in [Paths -> SourceNames \cup {None}]
      /\ scan.writable \in [Paths -> BOOLEAN] /\ scan.cut \in BOOLEAN
  BY <1>2 DEF Scans
<1>5. /\ listing.cursor \in Paths \cup {None} /\ listing.cut \in BOOLEAN
      /\ listing.listed \in [Paths -> Seq(Listed)]
  BY <1>1 DEF Listings
<1>6. None \notin SourceNames /\ None \notin Paths /\ Paths \subseteq Nat
  BY FoldersAssumption, PathsAssumption DEF SourceNames
<1> QED
  BY <1>1, <1>2, <1>3, <1>4, <1>5, <1>6

(* Where the scan is, its source is the first that is left.                *)
LEMMA SourceNow ==
    ASSUME ListingTypes, NEW k \in DOMAIN order, AtSource(k)
    PROVE  /\ scan.sources # <<>> /\ Head(scan.sources) = order[k] /\ order[k] \in SourceNames
           /\ k \in Nat /\ k >= 1 /\ k <= Len(order) /\ Len(order) \in Nat
           /\ Len(scan.sources) = Len(order) - k + 1
<1>1. order \in Seq(SourceNames) /\ scan.sources \in Seq(SourceNames)
  BY ListingFacts
<1>2. /\ k \in Nat /\ k >= 1 /\ k <= Len(order) /\ Len(order) \in Nat
      /\ Len(scan.sources) = Len(order) - k + 1 /\ order[k] \in SourceNames
  BY <1>1 DEF AtSource
<1>3. 1 \in DOMAIN scan.sources
  BY <1>1, <1>2
<1>4. scan.sources[1] = order[k + 1 - 1]
  BY <1>3 DEF AtSource
<1>5. Head(scan.sources) = scan.sources[1] /\ scan.sources # <<>>
  BY <1>1, <1>2
<1> QED
  BY <1>2, <1>4, <1>5

(* A source whose folders are all browsed has shown what it exposed all    *)
(* the time, and whether something lies deeper.                            *)
LEMMA SourceScanned ==
    ASSUME ListingTypes, NEW s \in SourceNames, NEW V \in SUBSET Folders, Visited(s, V),
           scan.queue = <<>>
    PROVE  /\ HasScanned(s)
           /\ (\E p \in steady[s] : ~InReach(p)) => scan.cut
<1>1. ToSet(scan.queue) = {}
  BY DEF ToSet
<1>2. /\ Top \in V
      /\ \A f \in V : \A g \in Subfolders(f) : IF Depth[f] < MaxDepth THEN g \in V ELSE scan.cut
      /\ \A p \in steady[s] : FolderOf[p] \in V => scan.from[p] # None
  BY <1>1 DEF Visited
<1>3. /\ \A f \in Folders : Depth[f] <= MaxDepth => f \in V
      /\ \A f \in Folders : Depth[f] > MaxDepth => scan.cut
  BY <1>2, EveryFolderVisited
<1>4. \A p \in steady[s] : FolderOf[p] \in Folders
  BY FoldersAssumption DEF ListingTypes
<1>5. MaxDepth \in Nat /\ \A f \in Folders : Depth[f] \in Nat
  BY DepthOfFolder, FoldersAssumption
<1>6. ASSUME NEW p \in steady[s], InReach(p) PROVE scan.from[p] # None
  BY <1>2, <1>3, <1>4, <1>6 DEF InReach
<1>7. ASSUME NEW p \in steady[s], ~InReach(p) PROVE scan.cut
  BY <1>3, <1>4, <1>5, <1>7 DEF InReach
<1> QED
  BY <1>6, <1>7 DEF HasScanned

(* A scan begins at the first source, with nothing found.                  *)
LEMMA ScanBegun ==
    ListingTypes /\ order # <<>> /\ scan = Scan(order) => ScanProgress /\ ScanFacts
<1> SUFFICES ASSUME ListingTypes, order # <<>>, scan = Scan(order)
             PROVE  ScanProgress /\ ScanFacts
  OBVIOUS
<1>1. order \in Seq(SourceNames) /\ Len(order) \in Nat /\ Len(order) >= 1 /\ 1 \in DOMAIN order
  BY ListingFacts
<1>2. /\ scan.queue = <<Top>> /\ scan.sources = order
      /\ \A p \in Paths : scan.from[p] = None
  BY DEF Scan
<1>3. AtSource(1)
  BY <1>1, <1>2 DEF AtSource
<1>4. Visited(order[1], {})
  <2>1. ToSet(<<Top>>) = {Top}
    BY DEF ToSet
  <2>2. Depth[Top] <= MaxDepth
    BY DepthOfFolder, FoldersAssumption
  <2> QED
    BY <1>2, <2>1, <2>2 DEF Visited
<1>5. ScanProgress
  <2>1. 1 .. 1 - 1 = {}
    OBVIOUS
  <2> QED
    BY <1>1, <1>3, <1>4, <2>1 DEF ScanProgress
<1> QED
  BY <1>2, <1>5 DEF ScanFacts


(* One folder browsed, as facts about the parts of the scan.               *)
BrowsesFolder(s, f, w, deeper) ==
    /\ scan'.from = [p \in Paths |-> IF p \in NewFiles(s, f) THEN s ELSE scan.from[p]]
    /\ scan'.writable = [p \in Paths |-> IF p \in NewFiles(s, f) THEN w ELSE scan.writable[p]]
    /\ scan'.queue = Tail(scan.queue) \o deeper
    /\ scan'.cut = (scan.cut \/ (Depth[f] >= MaxDepth /\ Subfolders(f) # {}))
    /\ scan'.sources = scan.sources
    /\ w => \E q \in NewFiles(s, f) : WriteCapability(s, q)
    /\ ToSet(deeper) = IF Depth[f] < MaxDepth THEN Subfolders(f) ELSE {}

SameListing ==
    /\ order' = order /\ listing'.cursor = listing.cursor /\ listing'.cut = listing.cut
    /\ listing'.listed = listing.listed

LEMMA DirectoriesNamed ==
    ASSUME NEW f \in Folders, NEW q \in Directories(f)
    PROVE  q \in Seq(Folders) /\ ToSet(q) = Subfolders(f)
<1>1. Subfolders(f) \subseteq Folders /\ IsFiniteSet(Subfolders(f))
  <2>1. Subfolders(f) \subseteq Folders
    BY DEF Subfolders
  <2> QED
    BY <2>1, FoldersAssumption, FS_Subset
<1>2. PICK n \in Nat : n = Cardinality(Subfolders(f))
  BY <1>1, FS_CardinalityType
<1>3. q \in [1 .. n -> Subfolders(f)] /\ \A g \in Subfolders(f) : \E i \in DOMAIN q : q[i] = g
  BY <1>2 DEF Directories
<1>4. q \in [1 .. n -> Folders]
  BY <1>1, <1>3
<1>5. q \in Seq(Folders)
  BY <1>2, <1>4
<1>6. DOMAIN q = 1 .. n /\ \A i \in 1 .. n : q[i] \in Subfolders(f)
  BY <1>3
<1>7. \A g \in ToSet(q) : g \in Subfolders(f)
  BY <1>6 DEF ToSet
<1>8. \A g \in Subfolders(f) : g \in ToSet(q)
  BY <1>3, <1>6 DEF ToSet
<1> QED
  BY <1>5, <1>7, <1>8

LEMMA BrowsedFolder ==
    ASSUME ListingTypes, Browsed, scan.sources # <<>>
    PROVE  \E f \in ToSet(scan.queue), w \in BOOLEAN, deeper \in Seq(Folders) :
              /\ f = Head(scan.queue) /\ f \in Folders
              /\ BrowsesFolder(Head(scan.sources), f, w, deeper)
              /\ listing' \in Listings /\ listing'.status = "browsing" /\ SameListing
<1> DEFINE s == Head(scan.sources)
           f == Head(scan.queue)
           new == NewFiles(s, f)
<1>1. /\ listing.status = "browsing" /\ scan.queue # <<>> /\ s \in SourceNames /\ listing \in Listings
      /\ scan \in Scans /\ scan.queue \in Seq(Folders)
  BY ListingFacts DEF Browsed, scan
<1>2. f \in Folders /\ f \in ToSet(scan.queue)
  <2>1. <<>> \in Seq(Folders)
    OBVIOUS
  <2> QED
    BY <1>1, <2>1, QueueMembers
<1>3. PICK w \in {WriteCapability(s, p) : p \in new} \cup {FALSE},
           deeper \in IF Depth[f] < MaxDepth THEN Directories(f) ELSE {<<>>} :
        listing' = [listing EXCEPT
           !.scan.from = [p \in Paths |-> IF p \in new THEN s ELSE @[p]],
           !.scan.writable = [p \in Paths |-> IF p \in new THEN w ELSE @[p]],
           !.scan.queue = Tail(@) \o deeper,
           !.scan.cut = @ \/ (Depth[f] >= MaxDepth /\ Subfolders(f) # {})]
  BY Zenon DEF Browsed, scan
<1>4. w \in BOOLEAN /\ (w => \E q \in new : WriteCapability(s, q))
  BY <1>3 DEF WriteCapability
<1>5. deeper \in Seq(Folders) /\ ToSet(deeper) = IF Depth[f] < MaxDepth THEN Subfolders(f) ELSE {}
  <2>1. CASE Depth[f] < MaxDepth
    BY <1>2, <1>3, <2>1, DirectoriesNamed
  <2>2. CASE ~(Depth[f] < MaxDepth)
    BY <1>3, <2>2 DEF ToSet
  <2> QED
    BY <2>1, <2>2
<1> HIDE DEF s, f, new
<1>6. PICK queue \in Seq(Folders), from \in [Paths -> SourceNames \cup {None}],
           writable \in [Paths -> BOOLEAN], cut \in BOOLEAN :
        /\ queue = Tail(scan.queue) \o deeper
        /\ from = [p \in Paths |-> IF p \in new THEN s ELSE scan.from[p]]
        /\ writable = [p \in Paths |-> IF p \in new THEN w ELSE scan.writable[p]]
        /\ cut = (scan.cut \/ (Depth[f] >= MaxDepth /\ Subfolders(f) # {}))
  <2>1. Tail(scan.queue) \o deeper \in Seq(Folders)
    BY <1>1, <1>5, QueueMembers
  <2>2. /\ [p \in Paths |-> IF p \in new THEN s ELSE scan.from[p]] \in [Paths -> SourceNames \cup {None}]
        /\ [p \in Paths |-> IF p \in new THEN w ELSE scan.writable[p]] \in [Paths -> BOOLEAN]
    BY <1>1, <1>4 DEF Scans
  <2>3. (scan.cut \/ (Depth[f] >= MaxDepth /\ Subfolders(f) # {})) \in BOOLEAN
    OBVIOUS
  <2> QED
    BY <2>1, <2>2, <2>3, Zenon
<1>7. listing' = [listing EXCEPT !.scan.from = from, !.scan.writable = writable,
                                 !.scan.queue = queue, !.scan.cut = cut]
  BY <1>3, <1>6, Zenon DEF scan
<1>8. /\ listing' \in Listings /\ listing'.status = "browsing" /\ SameListing
      /\ scan'.from = from /\ scan'.writable = writable /\ scan'.queue = queue
      /\ scan'.cut = cut /\ scan'.sources = scan.sources
  BY <1>1, <1>7 DEF Listings, Scans, SameListing, scan, order
<1>9. BrowsesFolder(s, f, w, deeper)
  BY <1>4, <1>5, <1>6, <1>8 DEF BrowsesFolder, new
<1> QED
  BY <1>2, <1>4, <1>5, <1>8, <1>9 DEF s, f


(* A step of the scan changes nothing that was listed.                     *)
LEMMA ListedStays ==
    ASSUME ListingInv, SameListing, UNCHANGED <<vars, steady>>, listing' \in Listings,
           listing'.status \in {"browsing", "failed"}
    PROVE  ListingTypes' /\ SteadyImageListedOnce' /\ FirstSourceWins' /\ WritableIsTrue'
<1>1. /\ ListingTypes /\ FirstSourceWins /\ WritableIsTrue
      /\ listing'.listed = listing.listed /\ listing'.order = listing.order
      /\ steady' = steady /\ files' = files /\ runtime' = runtime
  BY DEF ListingInv, SameListing, order, vars, world, fixed
<1>2. ListingTypes'
  BY <1>1 DEF ListingTypes, Exposed, Exists
<1>3. SteadyImageListedOnce'
  BY DEF SteadyImageListedOnce
<1>4. FirstSourceWins'
  BY <1>1 DEF FirstSourceWins
<1>5. WritableIsTrue'
  BY <1>1 DEF WritableIsTrue, PrefixesAreFolders
<1> QED
  BY <1>2, <1>3, <1>4, <1>5

(* The folder that was browsed is one more that was visited.               *)
LEMMA FolderVisited ==
    ASSUME ListingTypes, UNCHANGED steady, NEW s \in SourceNames, NEW V \in SUBSET Folders, Visited(s, V),
           NEW f \in ToSet(scan.queue), f = Head(scan.queue), f \in Folders,
           NEW w \in BOOLEAN, NEW deeper \in Seq(Folders), BrowsesFolder(s, f, w, deeper)
    PROVE  Visited(s, V \cup {f})'
<1>1. /\ scan.queue \in Seq(Folders) /\ scan.queue # <<>> /\ steady' = steady
      /\ steady[s] \subseteq Exposed(s) /\ steady[s] \subseteq Paths /\ s # None
  BY ListingFacts DEF ListingTypes, ToSet
<1> DEFINE Q == ToSet(scan.queue)
           R == ToSet(Tail(scan.queue))
           D == ToSet(deeper)
<1>2. Q = {f} \cup R /\ ToSet(scan'.queue) = R \cup D
  BY <1>1, QueueMembers DEF BrowsesFolder
<1>3. D = IF Depth[f] < MaxDepth THEN Subfolders(f) ELSE {}
  BY DEF BrowsesFolder
<1>4. /\ \A g \in V \cup Q : Depth[g] <= MaxDepth
      /\ Top \in V \cup Q
      /\ \A g \in V : \A h \in Subfolders(g) :
            IF Depth[g] < MaxDepth THEN h \in V \cup Q ELSE scan.cut
      /\ \A p \in steady[s] : FolderOf[p] \in V => scan.from[p] # None
  BY DEF Visited
<1>5. /\ MaxDepth \in Nat /\ Depth[f] \in Nat
      /\ \A h \in Subfolders(f) : Depth[h] = Depth[f] + 1
  BY DepthOfFolder, FoldersAssumption DEF Subfolders
<1>6. scan'.cut = (scan.cut \/ (Depth[f] >= MaxDepth /\ Subfolders(f) # {}))
  BY DEF BrowsesFolder
<1>7. \A p \in Paths :
         scan'.from[p] = IF p \in NewFiles(s, f) THEN s ELSE scan.from[p]
  BY DEF BrowsesFolder
<1>8. ASSUME NEW p \in steady[s], FolderOf[p] \in V \cup {f} PROVE scan'.from[p] # None
  <2>1. p \in Paths /\ p \in Exposed(s)
    BY <1>1
  <2>2. FolderOf[p] = f /\ scan.from[p] = None => p \in NewFiles(s, f)
    BY <2>1 DEF NewFiles, scan
  <2> QED
    BY <1>1, <1>4, <1>7, <1>8, <2>1, <2>2
<1>9. \A g \in (V \cup {f}) \cup (R \cup D) : Depth[g] <= MaxDepth
  BY <1>2, <1>3, <1>4, <1>5
<1>10. Top \in (V \cup {f}) \cup (R \cup D)
  BY <1>2, <1>4
<1>11. ASSUME NEW g \in V \cup {f}, NEW h \in Subfolders(g)
       PROVE  IF Depth[g] < MaxDepth THEN h \in (V \cup {f}) \cup (R \cup D) ELSE scan'.cut
  <2>1. CASE g \in V
    BY <1>2, <1>4, <1>6, <2>1
  <2>2. CASE g = f /\ Depth[f] < MaxDepth
    BY <1>3, <2>2
  <2>3. CASE g = f /\ ~(Depth[f] < MaxDepth)
    <3>1. Depth[f] >= MaxDepth /\ Subfolders(f) # {}
      BY <1>5, <2>3
    <3> QED
      BY <1>6, <2>3, <3>1
  <2> QED
    BY <2>1, <2>2, <2>3
<1> HIDE DEF Q, R, D
<1> QED
  BY <1>1, <1>2, <1>8, <1>9, <1>10, <1>11 DEF Visited, Subfolders

(* One folder is browsed.                                                  *)
LEMMA BrowsedKeeps ==
    ASSUME ListingInv, Browsed
    PROVE  ListingInv'
<1>1. /\ ListingTypes /\ ScanProgress /\ ScanFacts /\ PagesListed
      /\ UNCHANGED <<vars, steady>> /\ steady' = steady /\ runtime' = runtime
  BY DEF ListingInv, BrowsingPart, Browsed, BrowsingStep, vars, fixed
<1>2. PICK k \in DOMAIN order :
        /\ AtSource(k)
        /\ \A j \in 1 .. k - 1 : HasScanned(order[j])
        /\ \E V \in SUBSET Folders : Visited(order[k], V)
  BY <1>1 DEF ScanProgress
<1>3. PICK V \in SUBSET Folders : Visited(order[k], V)
  BY <1>2
<1> DEFINE s == order[k]
<1>4. /\ scan.sources # <<>> /\ Head(scan.sources) = s /\ s \in SourceNames
      /\ k \in Nat /\ k >= 1 /\ None \notin SourceNames
  BY <1>1, <1>2, SourceNow, ListingFacts
<1>5. PICK f \in ToSet(scan.queue), w \in BOOLEAN, deeper \in Seq(Folders) :
        /\ f = Head(scan.queue) /\ f \in Folders
        /\ BrowsesFolder(Head(scan.sources), f, w, deeper)
        /\ listing' \in Listings /\ listing'.status = "browsing" /\ SameListing
  BY <1>1, <1>4, BrowsedFolder
<1>6. BrowsesFolder(s, f, w, deeper) /\ order' = order
  BY <1>4, <1>5 DEF SameListing
<1>7. /\ \A p \in Paths : scan'.from[p] = IF p \in NewFiles(s, f) THEN s ELSE scan.from[p]
      /\ \A p \in Paths : scan'.writable[p] = IF p \in NewFiles(s, f) THEN w ELSE scan.writable[p]
      /\ scan'.sources = scan.sources
  BY <1>6 DEF BrowsesFolder
<1>8. \A p \in NewFiles(s, f) :
        p \in Paths /\ FolderOf[p] = f /\ scan.from[p] = None
  BY FoldersAssumption DEF NewFiles, Exposed, scan
<1>9. \A x \in SourceNames : HasScanned(x) => HasScanned(x)'
  <2>1. ASSUME NEW x \in SourceNames, HasScanned(x), NEW p \in steady[x], InReach(p)
        PROVE  scan'.from[p] # None
    <3>1. p \in Paths
      BY <1>1, <2>1 DEF ListingTypes
    <3> QED
      BY <1>4, <1>7, <2>1, <3>1 DEF HasScanned
  <2> QED
    BY <1>1, <2>1 DEF HasScanned, InReach
<1>10. ScanProgress'
  <2>1. AtSource(k)' /\ k \in DOMAIN order'
    BY <1>2, <1>6, <1>7 DEF AtSource
  <2>2. Visited(s, V \cup {f})' /\ V \cup {f} \in SUBSET Folders
    BY <1>1, <1>3, <1>4, <1>5, <1>6, FolderVisited
  <2>3. \A j \in 1 .. k - 1 : HasScanned(order[j])'
    <3>1. order \in Seq(SourceNames) /\ k <= Len(order) /\ k \in Nat /\ Len(order) \in Nat
      BY <1>1, <1>2, SourceNow, ListingFacts
    <3>2. \A j \in 1 .. k - 1 : order[j] \in SourceNames
      BY <3>1
    <3> QED
      BY <1>2, <1>6, <1>9, <3>2 DEF HasScanned
  <2> QED
    BY <1>6, <2>1, <2>2, <2>3 DEF ScanProgress, Visited, HasScanned
<1>11. ScanFacts'
  <2>1. ASSUME NEW p \in Paths
        PROVE  /\ scan'.from[p] # None => InReach(p)
               /\ scan'.from[p] # None /\ p \in steady[order[1]] => scan'.from[p] = order[1]
               /\ scan'.from[p] # None /\ scan'.writable[p] =>
                     scan'.from[p] = "data" /\ (PrefixesAreFolders => p \in runtime.writable)
    <3>1. CASE p \notin NewFiles(s, f)
      BY <1>1, <1>7, <3>1 DEF ScanFacts
    <3>2. CASE p \in NewFiles(s, f)
      <4>1. scan'.from[p] = s /\ scan'.writable[p] = w /\ FolderOf[p] = f /\ scan.from[p] = None
        BY <1>7, <1>8, <3>2
      <4>2. InReach(p)
        BY <1>3, <4>1 DEF InReach, Visited
      <4>3. p \in steady[order[1]] => s = order[1]
        <5>1. CASE k = 1
          BY <5>1
        <5>2. CASE k # 1
          <6>1. HasScanned(order[1])
            BY <1>2, <1>4, <5>2
          <6> QED
            BY <4>1, <4>2, <6>1 DEF HasScanned
        <5> QED
          BY <5>1, <5>2
      <4>4. w => s = "data" /\ (PrefixesAreFolders => p \in runtime.writable)
        <5>1. SUFFICES ASSUME w PROVE s = "data" /\ (PrefixesAreFolders => p \in runtime.writable)
          OBVIOUS
        <5>2. PICK q \in NewFiles(s, f) : WriteCapability(s, q)
          BY <1>6, <5>1 DEF BrowsesFolder
        <5>3. s = "data" /\ q \in runtime.writable /\ FolderOf[p] = FolderOf[q] /\ q \in Paths
          BY <1>8, <4>1, <5>2 DEF WriteCapability
        <5> QED
          BY <5>3 DEF PrefixesAreFolders
      <4> QED
        BY <4>1, <4>2, <4>3, <4>4
    <3> QED
      BY <3>1, <3>2
  <2> QED
    BY <1>1, <1>6, <2>1 DEF ScanFacts, InReach, PrefixesAreFolders
<1>12. PagesListed'
  BY <1>1, <1>5 DEF PagesListed, SameListing, Ordered, InReach, After
<1> QED
  BY <1>1, <1>5, <1>10, <1>11, <1>12, ListedStays DEF ListingInv, BrowsingPart


(* The next source is browsed when no folder of this one is left.          *)
LEMMA NextSourceKeeps ==
    ASSUME ListingInv, NextSource
    PROVE  ListingInv'
<1>1. /\ ListingTypes /\ ScanProgress /\ ScanFacts /\ PagesListed
      /\ UNCHANGED <<vars, steady>> /\ steady' = steady /\ runtime' = runtime
      /\ listing.status = "browsing" /\ scan.queue = <<>> /\ Len(scan.sources) > 1
      /\ listing' = [listing EXCEPT !.scan.sources = Tail(@), !.scan.queue = <<Top>>]
  BY DEF ListingInv, BrowsingPart, NextSource, BrowsingStep, vars, fixed, scan
<1>2. PICK k \in DOMAIN order :
        /\ AtSource(k)
        /\ \A j \in 1 .. k - 1 : HasScanned(order[j])
        /\ \E V \in SUBSET Folders : Visited(order[k], V)
  BY <1>1 DEF ScanProgress
<1>3. /\ order \in Seq(SourceNames) /\ scan.sources \in Seq(SourceNames) /\ scan.sources # <<>>
      /\ listing \in Listings /\ scan \in Scans
      /\ k \in Nat /\ k >= 1 /\ k <= Len(order) /\ Len(order) \in Nat
      /\ Len(scan.sources) = Len(order) - k + 1 /\ order[k] \in SourceNames
      /\ \A i \in DOMAIN scan.sources : scan.sources[i] = order[k + i - 1]
  BY <1>1, <1>2, ListingFacts, SourceNow DEF AtSource
<1>4. HasScanned(order[k])
  BY <1>1, <1>2, <1>3, SourceScanned
<1>5. PICK rest \in Seq(SourceNames), queue \in Seq(Folders) :
        rest = Tail(scan.sources) /\ queue = <<Top>>
  <2>1. <<Top>> \in Seq(Folders) /\ Tail(scan.sources) \in Seq(SourceNames)
    BY <1>3, FoldersAssumption
  <2> QED
    BY <2>1
<1>6. listing' = [listing EXCEPT !.scan.sources = rest, !.scan.queue = queue]
  BY <1>1, <1>5, Zenon DEF scan
<1>7. /\ listing' \in Listings /\ listing'.status = "browsing" /\ SameListing
      /\ scan'.from = scan.from /\ scan'.writable = scan.writable
      /\ scan'.cut = scan.cut /\ scan'.sources = rest /\ scan'.queue = queue
  <2>1. listing.status = "browsing" /\ listing \in Listings
    BY <1>1, <1>3
  <2> QED
    BY <1>6, <2>1 DEF Listings, Scans, SameListing, scan, order
<1>8. order' = order
  BY <1>7 DEF SameListing
<1>9. AtSource(k + 1)' /\ k + 1 \in DOMAIN order
  <2>1. /\ Len(rest) = Len(order) - (k + 1) + 1 /\ k + 1 \in DOMAIN order
        /\ DOMAIN rest = 1 .. Len(rest) /\ DOMAIN scan.sources = 1 .. Len(scan.sources)
        /\ Len(rest) = Len(scan.sources) - 1 /\ Len(rest) \in Nat
    BY <1>1, <1>3, <1>5
  <2>2. ASSUME NEW i \in DOMAIN rest PROVE rest[i] = order[(k + 1) + i - 1]
    <3>1. i \in Nat /\ i + 1 \in DOMAIN scan.sources /\ rest[i] = scan.sources[i + 1]
      BY <1>3, <1>5, <2>1, <2>2
    <3>2. scan.sources[i + 1] = order[k + (i + 1) - 1]
      BY <1>3, <3>1, Zenon
    <3>3. k + (i + 1) - 1 = (k + 1) + i - 1
      BY <1>3, <3>1
    <3> QED
      BY <3>1, <3>2, <3>3
  <2> QED
    BY <1>7, <1>8, <2>1, <2>2 DEF AtSource
<1>10. Visited(order[k + 1], {})'
  <2>1. ToSet(queue) = {Top}
    BY <1>5 DEF ToSet
  <2>2. Depth[Top] <= MaxDepth
    BY DepthOfFolder, FoldersAssumption
  <2> QED
    BY <1>1, <1>7, <2>1, <2>2 DEF Visited
<1>11. \A j \in 1 .. (k + 1) - 1 : HasScanned(order[j])
  <2>1. \A j \in 1 .. (k + 1) - 1 : j = k \/ j \in 1 .. k - 1
    BY <1>3
  <2> QED
    BY <1>2, <1>4, <2>1
<1>12. ScanProgress'
  <2>1. \A j \in 1 .. (k + 1) - 1 : HasScanned(order[j])'
    BY <1>1, <1>7, <1>8, <1>11 DEF HasScanned, InReach
  <2> QED
    BY <1>8, <1>9, <1>10, <2>1 DEF ScanProgress
<1>13. ScanFacts' /\ PagesListed'
  BY <1>1, <1>7, <1>8
  DEF ScanFacts, PagesListed, SameListing, Ordered, InReach, After, PrefixesAreFolders
<1> QED
  BY <1>1, <1>7, <1>12, <1>13, ListedStays DEF ListingInv, BrowsingPart

(* The listing fails.                                                      *)
LEMMA ListingFailedKeeps ==
    ASSUME ListingInv, ListingFailed
    PROVE  ListingInv'
<1>1. /\ ListingTypes /\ listing \in Listings /\ UNCHANGED <<vars, steady>>
      /\ listing' = [listing EXCEPT !.status = "failed"]
  BY ListingFacts DEF ListingInv, ListingFailed, BrowsingStep
<1>2. listing' \in Listings /\ SameListing /\ listing'.status = "failed"
  BY <1>1 DEF Listings, SameListing, order
<1> QED
  BY <1>1, <1>2, ListedStays DEF ListingInv, BrowsingPart

(* What the service, the other users and their rollbacks do takes paths    *)
(* away from those exposed all the time, and nothing else.                 *)
LEMMA NextFixes ==
    ASSUME Next PROVE UNCHANGED fixed
<1>1. CASE Others
  BY <1>1 DEF Others, OtherStores, OtherEdits
<1>2. ASSUME NEW c \in Callers, Call(c) PROVE UNCHANGED fixed
  BY <1>2
  DEF Call, Cancelled, DocumentRefused, DestinationRefused, TargetLooked, ReadDocument,
      ReferenceLooked, NameLooked, PayloadResolved, PayloadRefused, CannotCompensate, SnapshotTaken,
      ScanBegins, ScanGoesOn, ScanClean, ScanFound, ScanFailed, Audited, AuditFailed, StoreSent,
      FileStored, StoreFailed, UpdateRefused, UpdateSent, DocumentUpdated, UpdateFailed, Restored,
      RollbackLooks, Deleted, RollbackFailed
<1> QED
  BY <1>1, <1>2 DEF Next

LEMMA ServiceStepKeeps ==
    ASSUME ListingInv, UNCHANGED listing, UNCHANGED fixed,
           \/ UNCHANGED <<files, steady>>
           \/ steady' = [s \in SourceNames |-> steady[s] \cap Exposed(s)']
    PROVE  ListingInv'
<1>1. /\ listing' = listing /\ runtime' = runtime
      /\ scan' = scan /\ order' = order /\ ListingTypes
      /\ steady' \in [SourceNames -> SUBSET Paths]
      /\ \A s \in SourceNames : steady'[s] \subseteq steady[s]
      /\ \A s \in SourceNames : steady'[s] \subseteq Exposed(s)'
      /\ order \in Seq(SourceNames)
  BY ListingFacts DEF ListingInv, ListingTypes, fixed, scan, order, Exposed, Exists
<1>2. ListingTypes'
  BY <1>1 DEF ListingTypes
<1>3. \A i \in DOMAIN order : order[i] \in SourceNames
  BY <1>1
<1>4. ASSUME NEW s \in SourceNames PROVE HasScanned(s) => HasScanned(s)'
  BY <1>1 DEF HasScanned, InReach
<1>5. ASSUME NEW s \in SourceNames, NEW V \in SUBSET Folders PROVE Visited(s, V) => Visited(s, V)'
  BY <1>1 DEF Visited, Subfolders
<1>6. ASSUME ScanProgress PROVE ScanProgress'
  <2>1. PICK k \in DOMAIN order :
          /\ AtSource(k)
          /\ \A j \in 1 .. k - 1 : HasScanned(order[j])
          /\ \E V \in SUBSET Folders : Visited(order[k], V)
    BY <1>6 DEF ScanProgress
  <2>2. AtSource(k)'
    BY <1>1, <2>1 DEF AtSource
  <2>3. \A j \in 1 .. k - 1 : HasScanned(order[j])'
    <3>1. \A j \in 1 .. k - 1 : j \in DOMAIN order
      BY <1>1, <2>1
    <3>2. ASSUME NEW j \in 1 .. k - 1 PROVE HasScanned(order[j])'
      <4>1. HasScanned(order[j]) /\ order[j] \in SourceNames
        BY <1>3, <2>1, <3>1
      <4> QED
        BY <1>1, <1>4, <4>1
    <3> QED
      BY <3>2
  <2>4. PICK V \in SUBSET Folders : Visited(order[k], V)
    BY <2>1
  <2>5. Visited(order[k], V)'
    BY <1>1, <1>3, <1>5, <2>4
  <2> QED
    BY <1>1, <2>2, <2>3, <2>5 DEF ScanProgress
<1>7. ASSUME listing.status = "browsing" PROVE (ScanFacts /\ PagesListed)'
  <2>1. ScanFacts /\ PagesListed /\ ScanProgress
    BY <1>7 DEF ListingInv, BrowsingPart
  <2>2. order[1] \in SourceNames
    <3>1. \E k \in DOMAIN order : TRUE
      BY <2>1 DEF ScanProgress
    <3>2. 1 \in DOMAIN order
      BY <1>1, <3>1
    <3> QED
      BY <1>3, <3>2
  <2>3. ScanFacts'
    BY <1>1, <2>1, <2>2 DEF ScanFacts, InReach, PrefixesAreFolders
  <2>4. PagesListed'
    BY <1>1, <1>3, <2>1 DEF PagesListed, Ordered, InReach, After
  <2> QED
    BY <2>3, <2>4
<1>8. SteadyImageListedOnce'
  <2>1. SteadyImageListedOnce
    BY DEF ListingInv
  <2>2. SUFFICES ASSUME listing.status = "done", NEW s \in SourceNames, NEW p \in steady'[s],
                        s \in {listing.order[i] : i \in DOMAIN listing.order}
                 PROVE  IF InReach(p) THEN Len(listing.listed[p]) = 1 ELSE listing.cut
    BY <1>1 DEF SteadyImageListedOnce, SourceNames, InReach
  <2> QED
    BY <1>1, <2>1, <2>2 DEF SteadyImageListedOnce, SourceNames
<1>9. FirstSourceWins'
  <2>1. FirstSourceWins
    BY DEF ListingInv
  <2>2. SUFFICES ASSUME NEW p \in Paths, NEW i \in DOMAIN listing.listed[p],
                        p \in steady'[listing.order[1]]
                 PROVE  listing.listed[p][i].from = listing.order[1]
    BY <1>1 DEF FirstSourceWins
  <2>3. listing.order # <<>>
    <3>1. SUFFICES ASSUME listing.order = <<>> PROVE FALSE
      OBVIOUS
    <3>2. listing.listed[p] = <<>>
      BY <1>1, <3>1 DEF ListingTypes
    <3> QED
      BY <2>2, <3>2
  <2>4. listing.order[1] \in SourceNames
    BY <1>1, <2>3 DEF order
  <2> QED
    BY <1>1, <2>1, <2>2, <2>4 DEF FirstSourceWins
<1>10. WritableIsTrue'
  BY <1>1 DEF ListingInv, WritableIsTrue, PrefixesAreFolders
<1> QED
  BY <1>1, <1>2, <1>6, <1>7, <1>8, <1>9, <1>10 DEF ListingInv, BrowsingPart


(* A page is returned, as facts about the parts of the listing.            *)
Found_(p) == [from |-> scan.from[p], writable |-> scan.writable[p]]

PageIs(page) ==
    /\ page = PageOf(Candidates) /\ page \subseteq Paths
    /\ \A p \in Paths :
          listing'.listed[p] = IF p \in page THEN Append(listing.listed[p], Found_(p))
                               ELSE listing.listed[p]
    /\ listing'.cut = (listing.cut \/ scan.cut)
    /\ scan' = Scan(order) /\ order' = order
    /\ IF page = Candidates
       THEN listing'.cursor = None /\ listing'.status = "done"
       ELSE /\ listing'.status = "browsing"
            /\ listing'.cursor \in page /\ \A q \in page : q <= listing'.cursor
            /\ \A q \in Candidates \ page : q > listing'.cursor

LEMMA PageBuilt ==
    ASSUME ListingTypes, PageReturned
    PROVE  listing' \in Listings /\ PageIs(PageOf(Candidates))
<1>1. /\ listing \in Listings /\ scan \in Scans /\ order \in Seq(SourceNames)
      /\ scan.from \in [Paths -> SourceNames \cup {None}] /\ scan.writable \in [Paths -> BOOLEAN]
      /\ scan.cut \in BOOLEAN /\ listing.cut \in BOOLEAN /\ listing.listed \in [Paths -> Seq(Listed)]
  BY ListingFacts
<1> DEFINE page == PageOf(Candidates)
           last == page = Candidates
           listed == [p \in Paths |-> IF p \in page THEN Append(listing.listed[p], Found_(p))
                                      ELSE listing.listed[p]]
           cursor == IF last THEN None ELSE CHOOSE p \in page : \A q \in page : q <= p
           cut == listing.cut \/ scan.cut
           status == IF last THEN "done" ELSE "browsing"
           next == Scan(order)
<1>2. /\ Candidates \in SUBSET Paths /\ page \subseteq Candidates
      /\ \A p \in Candidates : scan.from[p] # None
  BY DEF Candidates, PageOf, scan
<1>3. listing' = [listing EXCEPT !.listed = listed, !.cut = cut, !.cursor = cursor,
                                 !.scan = next, !.status = status]
  BY Zenon DEF PageReturned, scan, order, Found_
<1> HIDE DEF page
<1>4. listed \in [Paths -> Seq(Listed)]
  <2>1. \A p \in page : Found_(p) \in Listed
    BY <1>1, <1>2 DEF Found_, Listed
  <2>2. \A p \in page : Append(listing.listed[p], Found_(p)) \in Seq(Listed)
    BY <1>1, <1>2, <2>1
  <2> QED
    BY <1>1, <2>2
<1>5. cursor \in Paths \cup {None}
  <2>1. CASE last
    BY <2>1
  <2>2. CASE ~last
    BY <1>2, <2>2, PageIsFirst DEF page
  <2> QED
    BY <2>1, <2>2
<1>6. IF last THEN cursor = None /\ status = "done"
      ELSE /\ status = "browsing" /\ cursor \in page /\ \A q \in page : q <= cursor
           /\ \A q \in Candidates \ page : q > cursor
  <2>1. CASE last
    BY <2>1
  <2>2. CASE ~last
    BY <1>2, <2>2, PageIsFirst DEF page
  <2> QED
    BY <2>1, <2>2
<1>7. next \in Scans
  <2>1. <<Top>> \in Seq(Folders)
    BY FoldersAssumption
  <2> QED
    BY <1>1, <2>1 DEF Scan, Scans
<1>8. cut \in BOOLEAN /\ status \in {"done", "browsing"}
  OBVIOUS
<1>9. \A p \in Paths : listed[p] = IF p \in page THEN Append(listing.listed[p], Found_(p))
                                   ELSE listing.listed[p]
  OBVIOUS
<1> HIDE DEF listed, cursor, status, next, cut
<1>10. /\ listing' \in Listings /\ listing'.listed = listed /\ listing'.cut = cut
       /\ listing'.cursor = cursor /\ scan' = next /\ listing'.status = status /\ order' = order
  BY <1>1, <1>3, <1>4, <1>5, <1>7, <1>8 DEF Listings, scan, order
<1>11. PageIs(page)
  <2>1. page \subseteq Paths /\ page = PageOf(Candidates)
    BY <1>2 DEF page
  <2> QED
    BY <1>6, <1>9, <1>10, <2>1 DEF PageIs, next, cut
<1> QED
  BY <1>10, <1>11 DEF page

(* When the last source is scanned, every source has been.                 *)
LEMMA AllScanned ==
    ASSUME ListingInv, PageReturned
    PROVE  /\ order # <<>> /\ \A s \in Ordered : HasScanned(s) /\ s \in SourceNames
           /\ (\E s \in Ordered : \E p \in steady[s] : ~InReach(p)) => scan.cut
<1>1. /\ ListingTypes /\ ScanProgress
      /\ scan.queue = <<>> /\ Len(scan.sources) = 1
  BY DEF ListingInv, BrowsingPart, PageReturned, scan
<1>2. PICK k \in DOMAIN order :
        /\ AtSource(k)
        /\ \A j \in 1 .. k - 1 : HasScanned(order[j])
        /\ \E V \in SUBSET Folders : Visited(order[k], V)
  BY <1>1 DEF ScanProgress
<1>3. /\ order \in Seq(SourceNames) /\ k = Len(order) /\ k \in Nat /\ k >= 1
      /\ order[k] \in SourceNames
  BY <1>1, <1>2, ListingFacts, SourceNow
<1>4. HasScanned(order[k]) /\ ((\E p \in steady[order[k]] : ~InReach(p)) => scan.cut)
  BY <1>1, <1>2, <1>3, SourceScanned
<1>5. ASSUME NEW j \in DOMAIN order PROVE HasScanned(order[j]) /\ order[j] \in SourceNames
  <2>1. j = k \/ j \in 1 .. k - 1
    BY <1>3
  <2> QED
    BY <1>2, <1>3, <1>4, <2>1
<1>6. ASSUME NEW p \in Paths, ~InReach(p) PROVE scan.cut
  <2>1. PICK V \in SUBSET Folders : Visited(order[k], V)
    BY <1>2
  <2>2. ToSet(scan.queue) = {}
    BY <1>1 DEF ToSet
  <2>3. /\ Top \in V
        /\ \A f \in V : \A g \in Subfolders(f) : IF Depth[f] < MaxDepth THEN g \in V ELSE scan.cut
    BY <2>1, <2>2 DEF Visited
  <2>4. \A f \in Folders : Depth[f] > MaxDepth => scan.cut
    BY <2>3, EveryFolderVisited
  <2>5. FolderOf[p] \in Folders /\ Depth[FolderOf[p]] \in Nat /\ MaxDepth \in Nat
    BY DepthOfFolder, FoldersAssumption
  <2> QED
    BY <1>6, <2>4, <2>5 DEF InReach
<1>7. \A s \in Ordered : HasScanned(s) /\ s \in SourceNames
  BY <1>5 DEF Ordered
<1>8. (\E s \in Ordered : \E p \in steady[s] : ~InReach(p)) => scan.cut
  <2>1. \A s \in SourceNames : steady[s] \subseteq Paths
    BY <1>1 DEF ListingTypes
  <2> QED
    BY <1>6, <1>7, <2>1
<1>9. order # <<>>
  BY <1>3
<1> QED
  BY <1>7, <1>8, <1>9

(* A page is returned.                                                     *)
LEMMA PageReturnedKeeps ==
    ASSUME ListingInv, PageReturned
    PROVE  ListingInv'
<1>1. /\ ListingTypes /\ ScanFacts /\ PagesListed /\ FirstSourceWins /\ WritableIsTrue
      /\ steady' = steady /\ runtime' = runtime /\ files' = files
  BY DEF ListingInv, BrowsingPart, PageReturned, BrowsingStep, vars, world, fixed
<1>2. /\ listing.listed \in [Paths -> Seq(Listed)] /\ listing.cursor \in Paths \cup {None}
      /\ Paths \subseteq Nat /\ None \notin Paths /\ order \in Seq(SourceNames)
      /\ listing.cut \in BOOLEAN /\ scan.cut \in BOOLEAN
  BY <1>1, ListingFacts
<1> DEFINE page == PageOf(Candidates)
<1>3. listing' \in Listings /\ PageIs(page)
  BY <1>1, PageBuilt
<1>4. /\ order # <<>> /\ \A s \in Ordered : HasScanned(s) /\ s \in SourceNames
      /\ (\E s \in Ordered : \E p \in steady[s] : ~InReach(p)) => scan.cut
  BY AllScanned
<1>5. page \subseteq Candidates /\ Candidates \subseteq Paths
      /\ \A p \in Paths : p \in Candidates <=> scan.from[p] # None /\ After(p, listing.cursor)
  BY DEF PageOf, Candidates, scan
<1> HIDE DEF page
<1>6. /\ order' = order /\ scan' = Scan(order)
      /\ \A p \in Paths :
            listing'.listed[p] = IF p \in page THEN Append(listing.listed[p], Found_(p))
                                 ELSE listing.listed[p]
      /\ listing'.cut = (listing.cut \/ scan.cut)
  BY <1>3 DEF PageIs
<1>7. ListingTypes'
  BY <1>1, <1>3, <1>4, <1>6 DEF ListingTypes, Exposed, Exists, order
<1>8. \A p \in page : /\ scan.from[p] # None /\ p \in Paths /\ Found_(p) \in Listed
                       /\ Found_(p).from = scan.from[p] /\ Found_(p).writable = scan.writable[p]
  BY <1>1, <1>5, ListingFacts DEF Found_, Listed
<1>9. ASSUME NEW s \in Ordered, NEW p \in steady[s], InReach(p)
      PROVE  /\ p \in Paths /\ scan.from[p] # None
             /\ Len(listing.listed[p]) = IF After(p, listing.cursor) THEN 0 ELSE 1
             /\ Len(listing'.listed[p]) = IF p \in page THEN Len(listing.listed[p]) + 1
                                          ELSE Len(listing.listed[p])
  <2>1. p \in Paths /\ scan.from[p] # None
    BY <1>1, <1>4, <1>9 DEF HasScanned, ListingTypes
  <2>2. Len(listing.listed[p]) = IF After(p, listing.cursor) THEN 0 ELSE 1
    BY <1>1, <1>9 DEF PagesListed
  <2>3. Len(listing'.listed[p]) = IF p \in page THEN Len(listing.listed[p]) + 1
                                  ELSE Len(listing.listed[p])
    <3>1. CASE p \in page
      <4>1. listing'.listed[p] = Append(listing.listed[p], Found_(p))
        BY <1>6, <2>1, <3>1
      <4> QED
        BY <1>2, <1>8, <2>1, <3>1, <4>1
    <3>2. CASE p \notin page
      BY <1>6, <2>1, <3>2
    <3> QED
      BY <3>1, <3>2
  <2> QED
    BY <2>1, <2>2, <2>3
<1>10. BrowsingPart'
  <2>1. SUFFICES ASSUME listing'.status = "browsing" PROVE (ScanProgress /\ ScanFacts /\ PagesListed)'
    BY DEF BrowsingPart
  <2>2. /\ page # Candidates
        /\ listing'.cursor \in page /\ \A q \in page : q <= listing'.cursor
        /\ \A q \in Candidates \ page : q > listing'.cursor
    BY <1>3, <2>1 DEF PageIs
  <2>3. (ScanProgress /\ ScanFacts)'
    <3>1. (ListingTypes /\ order # <<>> /\ scan = Scan(order))'
      BY <1>4, <1>6, <1>7 DEF Scan
    <3> QED
      BY <3>1, ScanBegun, PTL
  <2>4. listing'.cursor \in Nat /\ listing'.cursor # None /\ After(listing'.cursor, listing.cursor)
    BY <1>2, <1>5, <2>2
  <2>5. ASSUME NEW s \in Ordered, NEW p \in steady[s], InReach(p)
        PROVE  Len(listing'.listed[p]) = IF After(p, listing'.cursor) THEN 0 ELSE 1
    <3>1. /\ p \in Paths /\ p \in Nat /\ scan.from[p] # None
          /\ Len(listing.listed[p]) = IF After(p, listing.cursor) THEN 0 ELSE 1
          /\ Len(listing'.listed[p]) = IF p \in page THEN Len(listing.listed[p]) + 1
                                       ELSE Len(listing.listed[p])
      BY <1>2, <1>9, <2>5
    <3>2. CASE p \in page
      <4>1. After(p, listing.cursor) /\ ~After(p, listing'.cursor)
        BY <1>5, <2>2, <2>4, <3>1, <3>2 DEF After
      <4> QED
        BY <3>1, <3>2, <4>1
    <3>3. CASE p \in Candidates \ page
      <4>1. After(p, listing.cursor) /\ After(p, listing'.cursor)
        BY <1>5, <2>2, <3>1, <3>3 DEF After
      <4> QED
        BY <3>1, <3>3, <4>1
    <3>4. CASE p \notin Candidates
      <4>1. ~After(p, listing.cursor) /\ p \notin page
        BY <1>5, <3>1, <3>4
      <4>2. ~After(p, listing'.cursor)
        <5>1. /\ listing.cursor \in Nat /\ ~(p > listing.cursor) /\ p \in Nat
              /\ listing'.cursor \in Nat /\ listing'.cursor > listing.cursor /\ listing'.cursor # None
          BY <1>2, <2>4, <3>1, <4>1 DEF After
        <5>2. ~(p > listing'.cursor)
          BY <5>1
        <5> QED
          BY <5>1, <5>2 DEF After
      <4> QED
        BY <3>1, <4>1, <4>2
    <3> QED
      BY <3>2, <3>3, <3>4
  <2>6. PagesListed'
    BY <1>1, <1>6, <2>5 DEF PagesListed, Ordered, InReach, After
  <2> QED
    BY <2>3, <2>6
<1>11. SteadyImageListedOnce'
  <2>1. SUFFICES ASSUME listing'.status = "done", NEW s \in Ordered, NEW p \in steady[s]
                 PROVE  IF InReach(p) THEN Len(listing'.listed[p]) = 1 ELSE listing'.cut
    BY <1>1, <1>6 DEF SteadyImageListedOnce, SourceNames, InReach, Ordered, order
  <2>2. page = Candidates
    BY <1>3, <2>1 DEF PageIs
  <2>3. CASE InReach(p)
    <3>1. /\ p \in Paths /\ scan.from[p] # None
          /\ Len(listing.listed[p]) = IF After(p, listing.cursor) THEN 0 ELSE 1
          /\ Len(listing'.listed[p]) = IF p \in page THEN Len(listing.listed[p]) + 1
                                       ELSE Len(listing.listed[p])
      BY <1>9, <2>3
    <3>2. p \in page <=> After(p, listing.cursor)
      BY <1>5, <2>2, <3>1
    <3> QED
      BY <2>3, <3>1, <3>2
  <2>4. CASE ~InReach(p)
    BY <1>4, <1>6, <2>4
  <2> QED
    BY <2>3, <2>4
<1>12. ASSUME NEW p \in Paths, NEW i \in DOMAIN listing'.listed[p]
       PROVE  \/ i \in DOMAIN listing.listed[p] /\ listing'.listed[p][i] = listing.listed[p][i]
              \/ p \in page /\ listing'.listed[p][i] = Found_(p)
  <2>1. listing.listed[p] \in Seq(Listed)
    BY <1>2
  <2>2. CASE p \in page
    <3>1. listing'.listed[p] = Append(listing.listed[p], Found_(p))
      BY <1>6, <2>2
    <3>2. i \in 1 .. Len(listing.listed[p]) + 1
      BY <1>12, <2>1, <3>1
    <3> QED
      BY <2>1, <2>2, <3>1, <3>2
  <2>3. CASE p \notin page
    BY <1>6, <1>12, <2>3
  <2> QED
    BY <2>2, <2>3
<1>13. FirstSourceWins'
  <2>1. SUFFICES ASSUME NEW p \in Paths, NEW i \in DOMAIN listing'.listed[p],
                        p \in steady[order[1]]
                 PROVE  listing'.listed[p][i].from = order[1]
    BY <1>1, <1>6 DEF FirstSourceWins, order
  <2>2. CASE i \in DOMAIN listing.listed[p] /\ listing'.listed[p][i] = listing.listed[p][i]
    BY <1>1, <2>1, <2>2 DEF FirstSourceWins, order
  <2>3. CASE p \in page /\ listing'.listed[p][i] = Found_(p)
    BY <1>1, <1>8, <2>1, <2>3 DEF ScanFacts
  <2> QED
    BY <1>12, <2>2, <2>3
<1>14. WritableIsTrue'
  <2>1. SUFFICES ASSUME PrefixesAreFolders, NEW p \in Paths, NEW i \in DOMAIN listing'.listed[p],
                        listing'.listed[p][i].writable
                 PROVE  p \in runtime.writable /\ listing'.listed[p][i].from = "data"
    BY <1>1 DEF WritableIsTrue, PrefixesAreFolders
  <2>2. CASE i \in DOMAIN listing.listed[p] /\ listing'.listed[p][i] = listing.listed[p][i]
    BY <1>1, <2>1, <2>2 DEF WritableIsTrue
  <2>3. CASE p \in page /\ listing'.listed[p][i] = Found_(p)
    BY <1>1, <1>8, <2>1, <2>3 DEF ScanFacts
  <2> QED
    BY <1>12, <2>2, <2>3
<1> QED
  BY <1>7, <1>10, <1>11, <1>13, <1>14 DEF ListingInv


LEMMA QuietWorld ==
    ASSUME ServiceInv, UNCHANGED vars
    PROVE  ServiceInv'
<1>1. /\ files' = files /\ stores' = stores /\ docs' = docs /\ writes' = writes
      /\ runtime' = runtime /\ request' = request /\ UNCHANGED <<fixed, calls>> /\ seen' = seen
  BY DEF vars, world, fixed
<1>2. WorldPart'
  BY <1>1 DEF ServiceInv, WorldPart
<1>3. stores' \in Nat /\ stores <= stores' /\ seen' \in [Callers -> SeenRecords]
  BY <1>1 DEF ServiceInv, WorldPart, CallsPart
<1>4. \A c \in Callers : FilesFor(c) /\ DocsFor(c)
  BY <1>1, <1>3 DEF FilesFor, DocsFor
<1> QED
  BY <1>1, <1>2, <1>3, <1>4, WorldStepKeeps

LEMMA ListingNextKeeps ==
    ASSUME AssetServiceInv, [ListingNext]_listingVars
    PROVE  AssetServiceInv'
<1>1. ServiceInv /\ ListingInv
  BY DEF AssetServiceInv
<1>2. CASE Next /\ UNCHANGED listing /\ steady' = [s \in {"data", "public"} |-> steady[s] \cap Exposed(s)']
  <2>1. ServiceInv'
    BY <1>1, <1>2, NextKeeps
  <2>2. ListingInv'
    BY <1>1, <1>2, NextFixes, ServiceStepKeeps DEF SourceNames
  <2> QED
    BY <2>1, <2>2 DEF AssetServiceInv
<1>3. CASE Browsed \/ NextSource \/ PageReturned \/ ListingFailed
  <2>1. UNCHANGED vars
    BY <1>3 DEF Browsed, NextSource, PageReturned, ListingFailed, BrowsingStep
  <2>2. ServiceInv'
    BY <1>1, <2>1, QuietWorld
  <2>3. ListingInv'
    BY <1>1, <1>3, BrowsedKeeps, NextSourceKeeps, PageReturnedKeeps, ListingFailedKeeps
  <2> QED
    BY <2>2, <2>3 DEF AssetServiceInv
<1>4. CASE UNCHANGED listingVars
  <2>1. UNCHANGED vars /\ UNCHANGED listing /\ UNCHANGED fixed /\ UNCHANGED <<files, steady>>
    BY <1>4 DEF listingVars, vars, world
  <2> QED
    BY <1>1, <2>1, QuietWorld, ServiceStepKeeps DEF AssetServiceInv
<1> QED
  BY <1>2, <1>3, <1>4 DEF ListingNext


LEMMA ListingInitHolds ==
    ASSUME ListingInit PROVE AssetServiceInv
<1>1. ServiceInv /\ WorldPart
  BY InitHolds DEF ListingInit, ServiceInv
<1>2. PICK first \in IF request \in Beside THEN Orders ELSE {<<>>} :
        listing = [status |-> IF first = <<>> THEN "idle" ELSE "browsing", order |-> first,
                   scan |-> Scan(first), cursor |-> None, cut |-> FALSE,
                   listed |-> [p \in Paths |-> <<>>]]
  BY Zenon DEF ListingInit
<1>3. /\ order = first /\ scan = Scan(first) /\ listing.cursor = None
      /\ listing.status = IF first = <<>> THEN "idle" ELSE "browsing"
      /\ \A p \in Paths : listing.listed[p] = <<>>
      /\ steady = [s \in SourceNames |-> Exposed(s)]
  BY <1>2 DEF ListingInit, order, scan, SourceNames
<1>4. ListingTypes
  <2>0. first \in Orders \cup {<<>>}
    BY <1>2
  <2>1. <<Top>> \in Seq(Folders) /\ first \in Orders \cup {<<>>} /\ first \in Seq(SourceNames)
    <3>1. Top \in Folders /\ Orders \subseteq Seq(SourceNames)
      BY FoldersAssumption DEF SourceNames
    <3>2. <<Top>> \in Seq(Folders)
      BY <3>1
    <3>3. CASE first \in Orders
      BY <2>0, <3>1, <3>2, <3>3
    <3>4. CASE first = <<>>
      BY <2>0, <3>2, <3>4
    <3> QED
      BY <2>0, <3>3, <3>4
  <2>2. Scan(first) \in Scans
    BY <2>1 DEF Scan, Scans
  <2>3. [p \in Paths |-> <<>>] \in [Paths -> Seq(Listed)]
    OBVIOUS
  <2>4. listing \in Listings
    <3>1. (IF first = <<>> THEN "idle" ELSE "browsing") \in {"idle", "browsing", "done", "failed"}
      OBVIOUS
    <3> QED
      BY <1>2, <2>1, <2>2, <2>3, <3>1 DEF Listings
  <2>5. \A s \in SourceNames : Exposed(s) \subseteq Paths
    BY FoldersAssumption DEF Exposed
  <2> QED
    BY <1>3, <2>4, <2>5 DEF ListingTypes
<1>5. BrowsingPart
  <2>1. SUFFICES ASSUME listing.status = "browsing" PROVE ScanProgress /\ ScanFacts /\ PagesListed
    BY DEF BrowsingPart
  <2>2. order # <<>> /\ scan = Scan(order)
    BY <1>3, <2>1
  <2>3. PagesListed
    <3>1. \A s \in Ordered : s \in SourceNames
      BY <1>4, ListingFacts DEF Ordered
    <3>2. \A s \in Ordered : \A p \in steady[s] : p \in Paths
      BY <1>4, <3>1 DEF ListingTypes
    <3> QED
      BY <1>3, <3>2 DEF PagesListed, After
  <2> QED
    BY <1>4, <2>2, <2>3, ScanBegun
<1>6. FirstSourceWins /\ WritableIsTrue /\ SteadyImageListedOnce
  BY <1>3 DEF FirstSourceWins, WritableIsTrue, SteadyImageListedOnce
<1> QED
  BY <1>1, <1>4, <1>5, <1>6 DEF AssetServiceInv, ListingInv

----------------------------------------------------------------------------
(* The invariant of the service and its listing: types, what each call may *)
(* know and undo where it is, and what the scan of a listing has found.    *)
THEOREM AssetServiceInvariant == ListingSpec => []AssetServiceInv
<1>1. ListingInit => AssetServiceInv
  BY ListingInitHolds
<1>2. AssetServiceInv /\ [ListingNext]_listingVars => AssetServiceInv'
  BY ListingNextKeeps
<1> QED
  BY <1>1, <1>2, PTL DEF ListingSpec

(* A rollback (#compensateUpload) deletes no file that was there when the  *)
(* call looked, none that a document has referred to ever since it began   *)
(* to look, and leaves no file of a failed attachment behind, whatever the *)
(* number of calls and documents, unless another rollback has put its      *)
(* snapshot back.                                                          *)
THEOREM RollbacksAreRight == ListingSpec => []RollbackIsRight
<1>1. AssetServiceInv => RollbackIsRight
  <2> SUFFICES ASSUME AssetServiceInv, NEW c \in Callers
               PROVE  /\ pc[c] = "deleting" => seen[c].users = {}
                      /\ pc[c] = "deleting" /\ Exists(call[c].path) =>
                            files[call[c].path] > seen[c].looked \/ OthersRestore(c)
                      /\ LeavesNothing(c)
    BY DEF RollbackIsRight, RollbackSparesReferences, RollbackSparesOlder, NothingLeftBehind,
           LeavesNothing
  <2>1. CallInv(c) /\ request[c].kind \in {"idle", "upload", "attach", "reference"}
    BY CallTypes DEF AssetServiceInv
  <2>2. StageFits(c) /\ FreeWhenLooked(c) /\ UsersAreLookedAt(c) /\ LeavesNothing(c)
    BY <2>1 DEF CallInv
  <2>3. pc[c] = "deleting" => pc[c] \in Placed /\ ~IsReference(c) /\ ~call[c].overwrite
    BY <2>2 DEF StageFits, IsReference, Placed, Undoing
  <2> QED
    BY <2>2, <2>3 DEF FreeWhenLooked, UsersAreLookedAt
<1> QED
  BY <1>1, AssetServiceInvariant, PTL

(* An upload that may not overwrite (#commitUpload) replaces only what was *)
(* stored after it had looked, and an attachment only the document it had  *)
(* read, or a write that arrived while its own was on the way.             *)
THEOREM NothingIsReplacedUnseen == ListingSpec => []NothingReplacedUnseen
<1>1. AssetServiceInv => NothingReplacedUnseen
  BY DEF AssetServiceInv, ServiceInv, CallInv, FreeWhenLooked, ReplacesKnown,
         NothingReplacedUnseen, OnlyUnseenReplaced, AttachLosesNothing
<1> QED
  BY <1>1, AssetServiceInvariant, PTL

(* Types; a call answered CANCELLED has announced what it stored; the      *)
(* first source wins; and what is listed as writable is.                   *)
THEOREM AssetsInvHolds == ListingSpec => []AssetsInv
<1>1. AssetServiceInv => AssetsInv
  <2> SUFFICES ASSUME AssetServiceInv PROVE AssetsInv
    OBVIOUS
  <2>2. ServiceInv /\ ListingInv /\ WorldPart /\ ListingTypes
    BY DEF AssetServiceInv, ServiceInv, ListingInv
  <2>3. CancelledIsHonest
    BY <2>2 DEF ServiceInv, CallInv, Announced, CancelledIsHonest
  <2>4. \A c \in Callers :
          /\ pc[c] \in Stages /\ call[c].counter \in 0 .. MaxCounter /\ call[c].todo \subseteq Docs
          /\ pc[c] \in {"store", "storing", "update", "updating"} => call[c].path \in Paths
    BY <2>2, CallTypes DEF CallRecords, CallInv, Addressed, Preparing
  <2>5. AssetsTypeOK
    BY <2>2, <2>4 DEF WorldPart, AssetsTypeOK, Stages
  <2>6. TypeOK
    BY <2>2, <2>5, ListingFacts DEF TypeOK, ListingTypes, Listings, SourceNames, scan
  <2> QED
    BY <2>2, <2>3, <2>6 DEF AssetsInv, ListingInv
<1> QED
  BY <1>1, AssetServiceInvariant, PTL

(* assets.images.list: who follows the cursors to the end has seen every   *)
(* image that a source exposed all the time exactly once, for every tree of*)
(* folders and every page size, or was told that the listing is truncated. *)
THEOREM ImagesListedOnce == ListingSpec => []SteadyImageListedOnce
<1>1. AssetServiceInv => SteadyImageListedOnce
  BY DEF AssetServiceInv, ListingInv
<1> QED
  BY <1>1, AssetServiceInvariant, PTL

=============================================================================
