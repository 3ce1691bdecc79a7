---------------------------- MODULE AssetListing ----------------------------
(***************************************************************************)
(* assets.images.list (packages/foundry-module/src/assets.ts): for every   *)
(* page the folders of every source are browsed again, level by level and  *)
(* one request after the other, while the calls of Assets and the other    *)
(* users store and delete files.                                           *)
(*                                                                         *)
(* Two sources are enough: "data", whose files are those of Assets, and    *)
(* the read-only "public", whose files never change and may have paths     *)
(* that "data" has too.                                                    *)
(***************************************************************************)
EXTENDS Assets, SequencesExt

CONSTANTS
    Folders,     \* folders below and including the path prefix
    Top,         \* the path prefix
    FolderOf,    \* the folder of each path
    Above,       \* the folder of each folder
    Shared,      \* paths the public source exposes
    Orders,      \* orders in which the picker may name the sources, <<>> for no listing
    Beside,      \* the requests that may be under way beside a listing
    MaxDepth, PageSize

ASSUME FoldersAssumption ==
    /\ Top \in Folders /\ FolderOf \in [Paths -> Folders]
    /\ IsFiniteSet(Folders) /\ IsFiniteSet(Paths) /\ None \notin {"data", "public"}
    /\ Above \in [Folders \ {Top} -> Folders] /\ Shared \subseteq Paths
    /\ Orders \subseteq Seq({"data", "public"}) /\ Beside \subseteq Requests
    /\ MaxDepth \in Nat /\ PageSize \in Nat \ {0}

\* The folders are a tree below the prefix.
ASSUME TreeAssumption ==
    \E level \in [Folders -> 0 .. Cardinality(Folders)] :
        /\ level[Top] = 0
        /\ \A f \in Folders \ {Top} : level[f] = level[Above[f]] + 1

VARIABLES
    listing,   \* a client that follows the cursors of one listing
    steady     \* history: per source, the paths it has exposed all the time

listingVars == <<vars, listing, steady>>

Depth[f \in Folders] == IF f = Top THEN 0 ELSE Depth[Above[f]] + 1

Exposed(s) == IF s = "data" THEN {p \in Paths : Exists(p)} ELSE Shared

----------------------------------------------------------------------------
(* Mutated forms of the definitions below, used by the mutation runs.      *)

AllFiles(s, f) == {p \in Exposed(s) : FolderOf[p] = f}
SourceWritable(s, p) == s = "data" /\ runtime.writable # {}
AfterOrAt(p, cursor) == cursor = None \/ p >= cursor

----------------------------------------------------------------------------
\* One scan of all folders, from the first source on.
Scan(order) ==
    [queue |-> <<Top>>, sources |-> order, from |-> [p \in Paths |-> None],
     writable |-> [p \in Paths |-> FALSE], cut |-> FALSE]

ListingInit ==
    /\ Init
    /\ \E order \in IF request \in Beside THEN Orders ELSE {<<>>} :
          listing = [status |-> IF order = <<>> THEN "idle" ELSE "browsing", order |-> order,
                     scan |-> Scan(order), cursor |-> None, cut |-> FALSE,
                     listed |-> [p \in Paths |-> <<>>]]
    /\ steady = [s \in {"data", "public"} |-> Exposed(s)]

\* The files of a folder that no earlier source has exposed.
NewFiles(s, f) == {p \in Exposed(s) : FolderOf[p] = f /\ listing.scan.from[p] = None}

\* getWriteCapability; the folder may refuse to be browsed for the probe.
WriteCapability(s, p) == s = "data" /\ p \in runtime.writable

Subfolders(f) == {g \in Folders \ {Top} : Above[g] = f}

\* The picker names them in an order of its own.
Directories(f) ==
    {q \in [1 .. Cardinality(Subfolders(f)) -> Subfolders(f)] :
        \A g \in Subfolders(f) : \E i \in DOMAIN q : q[i] = g}

BrowsingStep == UNCHANGED <<vars, steady>>

\* One folder is browsed.  The capability of the first new file is kept for
\* the other files of the folder.
Browsed ==
    /\ listing.status = "browsing" /\ listing.scan.queue # <<>>
    /\ LET s == Head(listing.scan.sources)
           f == Head(listing.scan.queue)
           new == NewFiles(s, f)
       IN  \E w \in {WriteCapability(s, p) : p \in new} \cup {FALSE},
              deeper \in IF Depth[f] < MaxDepth THEN Directories(f) ELSE {<<>>} :
              listing' = [listing EXCEPT
                 !.scan.from = [p \in Paths |-> IF p \in new THEN s ELSE @[p]],
                 !.scan.writable = [p \in Paths |-> IF p \in new THEN w ELSE @[p]],
                 !.scan.queue = Tail(@) \o deeper,
                 !.scan.cut = @ \/ (Depth[f] >= MaxDepth /\ Subfolders(f) # {})]
    /\ BrowsingStep

NextSource ==
    /\ listing.status = "browsing" /\ listing.scan.queue = <<>> /\ Len(listing.scan.sources) > 1
    /\ listing' = [listing EXCEPT !.scan.sources = Tail(@), !.scan.queue = <<Top>>]
    /\ BrowsingStep

After(p, cursor) == cursor = None \/ p > cursor

Candidates == {p \in Paths : listing.scan.from[p] # None /\ After(p, listing.cursor)}
PageOf(S) == {p \in S : Cardinality({q \in S : q < p}) < PageSize}

\* The items are sorted by path, cut at the cursor, and a page is returned;
\* the client asks for the next with the cursor of this one.
PageReturned ==
    /\ listing.status = "browsing" /\ listing.scan.queue = <<>> /\ Len(listing.scan.sources) = 1
    /\ LET page == PageOf(Candidates)
           scan == listing.scan
           last == page = Candidates
       IN  listing' = [listing EXCEPT
              !.listed = [p \in Paths |->
                            IF p \in page
                            THEN Append(@[p], [from |-> scan.from[p], writable |-> scan.writable[p]])
                            ELSE @[p]],
              !.cut = @ \/ scan.cut,
              !.cursor = IF last THEN None ELSE CHOOSE p \in page : \A q \in page : q <= p,
              !.scan = Scan(listing.order),
              !.status = IF last THEN "done" ELSE "browsing"]
    /\ BrowsingStep

\* The request is cancelled between two folders, or a folder is gone.
ListingFailed ==
    /\ listing.status = "browsing"
    /\ listing' = [listing EXCEPT !.status = "failed"]
    /\ BrowsingStep

ListingNext ==
    \/ Browsed \/ NextSource \/ PageReturned \/ ListingFailed
    \/ /\ Next
       /\ steady' = [s \in {"data", "public"} |-> steady[s] \cap Exposed(s)']
       /\ UNCHANGED listing

ListingSpec == ListingInit /\ [][ListingNext]_listingVars

----------------------------------------------------------------------------
TypeOK ==
    /\ AssetsTypeOK
    /\ listing.status \in {"idle", "browsing", "done", "failed"}
    /\ listing.scan.queue \in Seq(Folders) /\ listing.cursor \in Paths \cup {None}
    /\ \A s \in {"data", "public"} : steady[s] \subseteq Paths

InReach(p) == Depth[FolderOf[p]] <= MaxDepth

\* Whoever follows nextCursor to the end has seen every image that some source
\* exposed all the time exactly once, whatever was stored and deleted around
\* it, though two sources have it and every page scans the folders anew; an
\* image that lies too deep is announced by truncated.
SteadyImageListedOnce ==
    listing.status = "done" =>
        \A s \in {"data", "public"} : \A p \in steady[s] :
            s \in {listing.order[i] : i \in DOMAIN listing.order} =>
                IF InReach(p) THEN Len(listing.listed[p]) = 1 ELSE listing.cut

\* An image that the first source exposed all the time is listed as its file.
FirstSourceWins ==
    \A p \in Paths : \A i \in DOMAIN listing.listed[p] :
        p \in steady[listing.order[1]] => listing.listed[p][i].from = listing.order[1]

\* What is listed as writable is a destination an upload is not refused for,
\* though the capability was asked for another file of its folder: it is, when
\* the configured prefixes name folders.
PrefixesAreFolders ==
    \A p, q \in Paths : FolderOf[p] = FolderOf[q] /\ p \in runtime.writable => q \in runtime.writable

WritableIsTrue ==
    PrefixesAreFolders =>
        \A p \in Paths : \A i \in DOMAIN listing.listed[p] :
            listing.listed[p][i].writable =>
                /\ p \in runtime.writable
                /\ listing.listed[p][i].from = "data"

\* Types, and what callers and readers are told: of a store before a cancellation,
\* of the source of an image, of where an upload may go.
AssetsInv == TypeOK /\ CancelledIsHonest /\ FirstSourceWins /\ WritableIsTrue
=============================================================================
