-------------------------- MODULE DocumentsProofs --------------------------
(***************************************************************************)
(* What the document service promises for every world, every batch, every  *)
(* set of updates and every page size: listings, batches, updates and      *)
(* snapshots, each while the other users of the world edit it.             *)
(***************************************************************************)
EXTENDS DocumentSnapshots, FiniteSetTheorems, WellFoundedInduction, TLAPS

(* What a document may be after n writes.                                  *)
Contents(n) == [name : Names, shown : BOOLEAN, rev : 0 .. n] \cup {None}

WholeLines(w) == \A d \in Docs : w[d] # None => \A a \in Line[d] : w[a] # None

WorldPart ==
    /\ writes \in Nat
    /\ world \in [Docs -> Contents(writes)]
    /\ WholeLines(world)

(* A batch that was called has created nothing, and nothing that it is to  *)
(* create exists; until it is answered, what it lists as created was       *)
(* created, and an atomic one has skipped nothing.                         *)
CalledBatches ==
    [status : {"called"}, atomic : BOOLEAN, dryRun : BOOLEAN, unfit : Unfit]

CreatingBatches ==
    [status : {"creating", "failing"}, atomic : BOOLEAN, fit : SUBSET Indexes,
     next : Nat \ {0}, created : SUBSET Indexes, snapshot : [Docs -> Contents(writes)]]

BatchTypes == batch \in {Idle} \cup CalledBatches \cup CreatingBatches \/ batch.status = "answered"

BatchHistory == made \subseteq Indexes

NotYetCreated == batch.status = "called" => made = {} /\ \A i \in Indexes : ~Exists(Items[i])

SnapshotIsOlder ==
    batch.status \in {"creating", "failing"} =>
        /\ WholeLines(batch.snapshot)
        /\ \A i \in Indexes : batch.snapshot[Items[i]] = None

CreatedIsKnown == batch.status \in {"creating", "failing"} => batch.created \subseteq made

AtomicSkipsNothing ==
    batch.status = "creating" /\ batch.atomic =>
        /\ batch.fit = Indexes
        /\ batch.next <= Len(Items) + 1
        /\ batch.created = 1 .. batch.next - 1

BatchPart ==
    /\ BatchTypes /\ BatchHistory /\ NotYetCreated /\ SnapshotIsOlder
    /\ CreatedIsKnown /\ AtomicSkipsNothing
    /\ BatchAnswerIsTrue

(* An update on its way to the server is about the revision its client has *)
(* read, or that was written since it was sent.                            *)
UpdateCalls ==
    [status : {"calling", "sent"}, doc : Docs, mode : {"expected", "force", "dryRun"}, expected : Nat]

UpdateTypes ==
    /\ update = [u \in Updaters |-> update[u]]
    /\ \A u \in Updaters :
          \/ update[u] \in UpdateCalls
          \/ update[u].status \in {"idle", "called", "answered"}
    /\ racing \in [Updaters -> SUBSET (1 .. writes)]

SentIsCurrent ==
    \A u \in Updaters :
        update[u].status = "sent" /\ update[u].mode # "force" /\ Exists(update[u].doc) =>
            sourceVersion(update[u].doc) \in racing[u] \cup {update[u].expected}

UpdatePart == UpdateTypes /\ SentIsCurrent /\ LostOnlyInFlight

(* What stayed in the listing was listed once if the cursor has passed it, *)
(* and not at all otherwise.                                               *)
Passed(d) ==
    listing.query.cursor # None /\ ~Before(listing.query, listing.query.cursor, Key(world, listing.query, d))

QueryTypes ==
    [kind : {"documents", "hydrated", "index"}, field : {"id", "name"},
     direction : {"asc", "desc"}, recursive : BOOLEAN, cursor : (Nat \X Nat) \cup {None}]
    \cup
    [kind : {"embedded"}, field : {"id"},
     direction : {"asc", "desc"}, recursive : BOOLEAN, cursor : (Nat \X Nat) \cup {None}]

Listings ==
    [status : {"paging", "done", "refused"}, query : QueryTypes, complete : BOOLEAN,
     listed : [Docs -> Nat]]

SteadyIsListed == listing # Idle => steady \subseteq Entries(world, listing.query)

PassedListedOnce ==
    listing.status = "paging" =>
        \A d \in steady : listing.listed[d] = IF Passed(d) THEN 1 ELSE 0

EndedListedOnce == listing.status = "done" => \A d \in steady : listing.listed[d] = 1

ListingPart ==
    /\ listing \in Listings \cup {Idle}
    /\ steady \subseteq Docs
    /\ SteadyIsListed /\ PassedListedOnce /\ EndedListedOnce

DocumentsInv == WorldPart /\ BatchPart /\ UpdatePart /\ ListingPart

----------------------------------------------------------------------------
(* The snapshot.                                                           *)
Paths == {p \in Seq(Docs) : p # <<>>}

TaskTypes ==
    [path : Paths, depth : Nat, stage : {"referred", "resolving", "expanding"},
     field : Nat, kept : Nat]

SnapTypes ==
    /\ tasks \subseteq TaskTypes
    /\ expanded \subseteq Paths
    /\ bytes \in 0 .. MaxBytes
    /\ snap \in {Idle} \cup [status : {"collecting", "expanding", "answered", "failed"},
                            uuids : Seq(Docs), query : QueryTypes]

RoomWhileCollecting == snap.status = "collecting" => Len(snap.uuids) < MaxItems

(* What was readable all the time is readable.                             *)
ReadableIsRead == readable \subseteq {d \in Docs : canRead(world, d)}

(* The task of an expansion: its path is part of the result, its fields    *)
(* are counted from 1, and it keeps them all unless the answer says that   *)
(* bytes were short.                                                       *)
ExpandingIsExpanded ==
    \A t \in tasks :
        t.stage = "expanding" =>
            /\ t.path \in expanded /\ t.field >= 1 /\ t.kept <= Len(Fields[Last(t.path)])
            /\ reasons = {} => t.kept = Len(Fields[Last(t.path)])

BytesLeft == reasons = {} => bytes < MaxBytes

NoTaskAfterTheEnd == snap.status \in {"answered", "failed"} => tasks = {}

(* A reference that the result does not hold, with the reason why; or that *)
(* is still to be followed.                                                *)
Settled(p, d) ==
    \/ Cycle(Append(p, d)) \/ Append(p, d) \in expanded
    \/ d \notin readable \/ d \in Unbounded \/ Append(p, d) \in refused

Pending(p, d) == \E t \in tasks : t.path = Append(p, d)

FieldFollowed(p, k) == \A d \in Fields[Last(p)][k].refs : Settled(p, d) \/ Pending(p, d)

FieldWaits(p, k) == \E t \in tasks : t.path = p /\ t.stage = "expanding" /\ t.field <= k

NothingForgotten ==
    reasons = {} /\ snap.status \in {"expanding", "answered"} =>
        \A p \in expanded : \A k \in DOMAIN Fields[Last(p)] :
            FieldFollowed(p, k) \/ FieldWaits(p, k)

NothingBeforeTheStart == snap.status \in {"idle", "collecting"} => tasks = {} /\ expanded = {}

SnapshotPart ==
    /\ SnapTypes /\ RoomWhileCollecting /\ ReadableIsRead /\ ExpandingIsExpanded /\ BytesLeft
    /\ NoTaskAfterTheEnd /\ NothingBeforeTheStart /\ NothingForgotten

----------------------------------------------------------------------------
(* Line has the value its recursion describes: the documents in every set  *)
(* that holds d and, with a document, the one that contains it.            *)
LEMMA LineEquation ==
    \A d \in Docs :
        Line[d] = {d} \cup (IF ParentOf[d] \in Docs THEN Line[ParentOf[d]] ELSE {})
<1> DEFINE Closed(S) == \A x \in S : ParentOf[x] \in Docs => ParentOf[x] \in S
           Above(d) == {e \in Docs : \A S \in SUBSET Docs : d \in S /\ Closed(S) => e \in S}
           L == [d \in Docs |-> Above(d)]
<1>1. ASSUME NEW d \in Docs
      PROVE  Above(d) = {d} \cup (IF ParentOf[d] \in Docs THEN Above(ParentOf[d]) ELSE {})
  <2> DEFINE R == {d} \cup (IF ParentOf[d] \in Docs THEN Above(ParentOf[d]) ELSE {})
  <2>1. R \subseteq Above(d)
    OBVIOUS
  <2>2. R \in SUBSET Docs /\ d \in R /\ Closed(R)
    OBVIOUS
  <2>3. Above(d) \subseteq R
    BY <2>2
  <2> QED
    BY <2>1, <2>3
<1> HIDE DEF Above
<1>2. L = [d \in Docs |-> {d} \cup (IF ParentOf[d] \in Docs THEN L[ParentOf[d]] ELSE {})]
  BY <1>1
<1> HIDE DEF L
<1>3. \E M : M = [d \in Docs |-> {d} \cup (IF ParentOf[d] \in Docs THEN M[ParentOf[d]] ELSE {})]
  BY <1>2
<1>4. Line = [d \in Docs |-> {d} \cup (IF ParentOf[d] \in Docs THEN Line[ParentOf[d]] ELSE {})]
  BY <1>3 DEF Line
<1> QED
  BY <1>4

(* The line of a document holds the lines of the documents in it.          *)
LEMMA LinesAreNested ==
    \A d \in Docs : d \in Line[d] /\ \A a \in Line[d] : a \in Docs /\ Line[a] \subseteq Line[d]
<1> DEFINE Nests(d) == \A a \in Line[d] : a \in Docs /\ Line[a] \subseteq Line[d]
           Strange == {d \in Docs : ~Nests(d)}
<1>1. Strange = {}
  <2>1. SUFFICES ASSUME Strange # {} PROVE FALSE
    OBVIOUS
  <2>2. PICK d \in Strange : ParentOf[d] \notin Strange
    BY <2>1, ContainmentAssumption
  <2>3. ParentOf[d] \in Docs => Nests(ParentOf[d])
    BY <2>2
  <2>4. Nests(d)
    <3>1. CASE ParentOf[d] \in Docs
      <4>1. Line[d] = {d} \cup Line[ParentOf[d]]
        BY <3>1, <2>2, LineEquation
      <4> QED
        BY <4>1, <2>2, <2>3, <3>1
    <3>2. CASE ParentOf[d] \notin Docs
      <4>1. Line[d] = {d}
        BY <3>2, <2>2, LineEquation
      <4> QED
        BY <4>1, <2>2
    <3> QED
      BY <3>1, <3>2
  <2> QED
    BY <2>2, <2>4
<1>2. \A d \in Docs : d \in Line[d]
  BY LineEquation
<1> QED
  BY <1>1, <1>2

(* Every non-empty set of natural numbers has a least element.             *)
LEMMA LeastNatural ==
    ASSUME NEW S, S \subseteq Nat, S # {}
    PROVE  \E n \in S : \A m \in S : n <= m
<1>1. \A m, n \in Nat : m < n => <<m, n>> \in OpToRel(<, Nat)
    BY DEF OpToRel
<1>2. \E R : IsWellFoundedOn(R, Nat) /\ \A m, n \in Nat : m < n => <<m, n>> \in R
    BY <1>1, NatLessThanWellFounded, Zenon
<1>3. PICK R : IsWellFoundedOn(R, Nat) /\ \A m, n \in Nat : m < n => <<m, n>> \in R
    BY <1>2
<1>4. IsWellFoundedOn(R, Nat)
    BY <1>3
<1>5. \E n \in S : \A m \in S : ~ (<<m, n>> \in R)
    BY <1>4, WFMin, Zenon
<1>6. PICK n \in S : \A m \in S : ~ (<<m, n>> \in R)
    BY <1>5
<1>7. \A m \in S : ~ (m < n) /\ m \in Nat /\ n \in Nat
    BY <1>3, <1>6
<1> QED BY <1>6, <1>7

LEMMA DocsFinite == \A S \in SUBSET Docs : IsFiniteSet(S) /\ Cardinality(S) \in Nat
  BY DocsAssumption, FS_Subset, FS_CardinalityType

----------------------------------------------------------------------------
(* Sort keys are ordered, in both directions.                              *)
LEMMA LessIsOrder ==
    ASSUME NEW k \in Nat \X Nat, NEW l \in Nat \X Nat, NEW m \in Nat \X Nat
    PROVE  /\ ~Less(k, k)
           /\ Less(k, l) /\ Less(l, m) => Less(k, m)
           /\ Less(k, l) \/ Less(l, k) \/ k = l
  BY DEF Less

LEMMA BeforeIsOrder ==
    ASSUME NEW q, NEW k \in Nat \X Nat, NEW l \in Nat \X Nat, NEW m \in Nat \X Nat
    PROVE  /\ ~Before(q, k, k)
           /\ Before(q, k, l) /\ Before(q, l, m) => Before(q, k, m)
           /\ Before(q, k, l) \/ Before(q, l, k) \/ k = l
  BY LessIsOrder DEF Before

(* What a listing lists are documents with a sort key.                     *)
LEMMA EntriesHaveKeys ==
    ASSUME WorldPart, NEW q \in QueryTypes
    PROVE  /\ Entries(world, q) \in SUBSET Docs
           /\ \A d \in Entries(world, q) : Key(world, q, d) \in Nat \X Nat /\ Key(world, q, d)[2] = d
<1>1. Entries(world, q) \in SUBSET Docs
  <2>1. CASE q.kind = "documents"
    BY <2>1 DEF Entries, listRootDocuments
  <2>2. CASE q.kind = "hydrated"
    BY <2>2, DocsAssumption DEF Entries, getDocuments
  <2>3. CASE q.kind = "index"
    BY <2>3, DocsAssumption DEF Entries, getIndex
  <2>4. CASE q.kind = "embedded"
    BY <2>4 DEF Entries, Reachable, Below
  <2> QED
    BY <2>1, <2>2, <2>3, <2>4 DEF QueryTypes
<1>2. ASSUME NEW d \in Entries(world, q), q.field = "name"
      PROVE  world[d].name \in Nat
  <2>1. q.kind \in {"documents", "hydrated", "index"}
    BY <1>2 DEF QueryTypes
  <2>2. world[d] # None
    BY <2>1 DEF Entries, listRootDocuments, getDocuments, getIndex, canRead
  <2>3. world[d] \in [name : Names, shown : BOOLEAN, rev : 0 .. writes]
    BY <1>1, <2>2 DEF WorldPart, Contents
  <2> QED
    BY <2>3, DocsAssumption
<1> QED
  BY <1>1, <1>2, DocsAssumption DEF Key

(* The entries after the cursor that come before d.                        *)
Earlier(q, d) == {e \in AfterCursor(q) : Before(q, Key(world, q, e), Key(world, q, d))}

LEMMA LaterHasMoreEarlier ==
    ASSUME WorldPart, NEW q \in QueryTypes,
           NEW d \in AfterCursor(q), NEW e \in AfterCursor(q)
    PROVE  /\ Cardinality(Earlier(q, d)) \in Nat
           /\ Before(q, Key(world, q, d), Key(world, q, e)) =>
                Cardinality(Earlier(q, d)) < Cardinality(Earlier(q, e))
<1>1. AfterCursor(q) \in SUBSET Entries(world, q)
  BY DEF AfterCursor
<1>2. /\ Earlier(q, d) \in SUBSET Docs /\ Earlier(q, e) \in SUBSET Docs
      /\ \A x \in AfterCursor(q) : Key(world, q, x) \in Nat \X Nat
  BY <1>1, EntriesHaveKeys DEF Earlier
<1>3. /\ IsFiniteSet(Earlier(q, d)) /\ IsFiniteSet(Earlier(q, e))
      /\ Cardinality(Earlier(q, d)) \in Nat /\ Cardinality(Earlier(q, e)) \in Nat
  BY <1>2, DocsFinite
<1>4. ASSUME Before(q, Key(world, q, d), Key(world, q, e))
      PROVE  Cardinality(Earlier(q, d)) < Cardinality(Earlier(q, e))
  <2>1. Earlier(q, d) \in SUBSET Earlier(q, e)
    BY <1>2, <1>4, BeforeIsOrder DEF Earlier
  <2>2. d \in Earlier(q, e) /\ d \notin Earlier(q, d)
    BY <1>2, <1>4, BeforeIsOrder DEF Earlier
  <2>3. /\ Cardinality(Earlier(q, d)) <= Cardinality(Earlier(q, e))
        /\ Cardinality(Earlier(q, d)) = Cardinality(Earlier(q, e)) => Earlier(q, d) = Earlier(q, e)
    BY <1>3, <2>1, FS_Subset
  <2> QED
    BY <1>3, <2>2, <2>3
<1> QED
  BY <1>3, <1>4

(* A page that leaves entries out has a last entry: its key is the next    *)
(* cursor.                                                                 *)
LEMMA PageHasLast ==
    ASSUME WorldPart, NEW q \in QueryTypes, NEW size \in Nat \ {0},
           Page(q, size) # AfterCursor(q)
    PROVE  \E m \in Page(q, size) :
              /\ NextCursor(q, size) = Key(world, q, m)
              /\ \A d \in Page(q, size) : ~Before(q, Key(world, q, m), Key(world, q, d))
<1> DEFINE A == AfterCursor(q)
           P == Page(q, size)
           K(d) == Key(world, q, d)
           N(d) == Cardinality(Earlier(q, d))
           Next_ == NextCursor(q, size)
<1>1. P = {d \in A : N(d) < size}
  BY DEF Page, Earlier
<1>2. \A d \in A : N(d) \in Nat /\ \A e \in A : Before(q, K(d), K(e)) => N(d) < N(e)
  BY LaterHasMoreEarlier
<1>4. P # A
  OBVIOUS
<1>5. P # {}
  <2>1. {N(d) : d \in A} \subseteq Nat /\ {N(d) : d \in A} # {}
    BY <1>1, <1>2, <1>4
  <2>2. PICK n \in {N(d) : d \in A} : \A m \in {N(d) : d \in A} : n <= m
    BY <2>1, LeastNatural
  <2>3. PICK d \in A : N(d) = n
    BY <2>2
  <2>4. Earlier(q, d) = {}
    <3>1. ASSUME NEW e \in Earlier(q, d) PROVE FALSE
      <4>1. e \in A /\ Before(q, K(e), K(d))
        BY DEF Earlier
      <4>2. N(e) < N(d) /\ N(e) \in Nat /\ N(d) \in Nat
        BY <4>1, <1>2
      <4>3. n <= N(e)
        BY <4>1, <2>2
      <4> QED
        BY <4>2, <4>3, <2>3
    <3> QED
      BY <3>1
  <2>5. N(d) = 0
    BY <2>4, FS_EmptySet
  <2> QED
    BY <1>1, <2>5
<1>6. \E k \in {K(d) : d \in P} : \A d \in P : ~Before(q, k, K(d))
  <2> DEFINE Distance == {size - N(d) : d \in P}
  <2>1. Distance \subseteq Nat /\ Distance # {}
    BY <1>1, <1>2, <1>5
  <2>2. \E n \in Distance : \A m \in Distance : n <= m
    <3> HIDE DEF Distance
    <3> QED BY <2>1, LeastNatural
  <2>3. PICK d \in P : \A e \in P : size - N(d) <= size - N(e)
    BY <2>2
  <2>4. \A e \in P : ~Before(q, K(d), K(e))
    BY <1>1, <1>2, <2>3
  <2> QED
    BY <2>4
<1>7. Next_ = CHOOSE k \in {K(d) : d \in P} : \A d \in P : ~Before(q, k, K(d))
  BY <1>4 DEF NextCursor
<1>8. Next_ \in {K(d) : d \in P} /\ \A d \in P : ~Before(q, Next_, K(d))
  <2> HIDE DEF Next_, P, K
  <2> QED BY <1>6, <1>7
<1> QED
  BY <1>8

(* A page is the first entries after the cursor: the last of them is the   *)
(* next cursor, and every entry left out comes after it.                   *)
LEMMA PageIsFirst ==
    ASSUME WorldPart, NEW q \in QueryTypes, NEW size \in Nat \ {0},
           NextCursor(q, size) # None
    PROVE  /\ NextCursor(q, size) \in Nat \X Nat
           /\ q.cursor # None => Before(q, q.cursor, NextCursor(q, size))
           /\ \A d \in Page(q, size) : ~Before(q, NextCursor(q, size), Key(world, q, d))
           /\ \A d \in AfterCursor(q) \ Page(q, size) :
                 Before(q, NextCursor(q, size), Key(world, q, d))
<1> DEFINE A == AfterCursor(q)
           P == Page(q, size)
           K(d) == Key(world, q, d)
           N(d) == Cardinality(Earlier(q, d))
<1>1. P = {d \in A : N(d) < size}
  BY DEF Page, Earlier
<1>2. \A d \in A : N(d) \in Nat /\ \A e \in A : Before(q, K(d), K(e)) => N(d) < N(e)
  BY LaterHasMoreEarlier
<1>3. \A d \in A : K(d) \in Nat \X Nat /\ K(d)[2] = d
  BY EntriesHaveKeys DEF AfterCursor
<1>4. P # A
  BY DEF NextCursor
<1>5. PICK m \in P : NextCursor(q, size) = K(m) /\ \A d \in P : ~Before(q, K(m), K(d))
  BY <1>4, PageHasLast
<1>6. m \in A /\ N(m) < size
  BY <1>1
<1>7. ASSUME NEW d \in A \ P PROVE Before(q, K(m), K(d))
  <2>1. ~(N(d) < size) /\ N(d) \in Nat /\ N(m) \in Nat
    BY <1>1, <1>2, <1>6
  <2>2. ~(N(d) < N(m))
    BY <2>1, <1>6
  <2>3. ~Before(q, K(d), K(m))
    BY <2>2, <1>2, <1>6
  <2>4. K(d) # K(m)
    BY <1>3, <1>6
  <2> QED
    BY <2>3, <2>4, <1>3, <1>6, BeforeIsOrder
<1>8. q.cursor # None => Before(q, q.cursor, K(m))
  BY <1>6 DEF AfterCursor
<1> QED
  BY <1>3, <1>5, <1>6, <1>7, <1>8

----------------------------------------------------------------------------
(* Writes.                                                                 *)

(* What a step may do to the documents: every one that it changed carries  *)
(* a new number, if it is still there.                                     *)
Rewrites ==
    /\ writes' \in Nat /\ writes <= writes'
    /\ \A d \in Docs : world'[d] # None =>
          \/ world'[d] = world[d]
          \/ world'[d].rev \in writes + 1 .. writes'

CreatesNothing == \A d \in Docs : world'[d] # None => world[d] # None

LEMMA ContentsAreThere ==
    ASSUME NEW n \in Nat, NEW c \in [name : Names, shown : BOOLEAN, rev : 0 .. n]
    PROVE  c # None
<1>1. c \in [name : Names, shown : BOOLEAN, rev : Nat]
  OBVIOUS
<1> QED
  BY <1>1, DocsAssumption

LEMMA WrittenWorld ==
    ASSUME WorldPart, NEW d \in Docs, NEW name \in Names, NEW shown \in BOOLEAN,
           Written(d, name, shown), \A a \in Line[d] \ {d} : Exists(a)
    PROVE  /\ WorldPart' /\ Rewrites /\ writes' = writes + 1
           /\ \A e \in Docs \ {d} : world'[e] = world[e]
           /\ world'[d] # None /\ world'[d].rev = writes'
<1> DEFINE c == [name |-> name, shown |-> shown, rev |-> writes']
<1>1. writes \in Nat /\ writes' = writes + 1 /\ writes' \in Nat
  BY DEF WorldPart, Written
<1>2. world' = [world EXCEPT ![d] = c] /\ world \in [Docs -> Contents(writes)]
  BY DEF WorldPart, Written
<1>3. c \in [name : Names, shown : BOOLEAN, rev : 0 .. writes'] /\ c # None /\ c.rev = writes'
  <2>1. c \in [name : Names, shown : BOOLEAN, rev : 0 .. writes']
    BY <1>1
  <2> QED
    BY <1>1, <2>1, ContentsAreThere
<1> HIDE DEF c
<1>4. Contents(writes) \subseteq Contents(writes') /\ c \in Contents(writes')
  BY <1>1, <1>3 DEF Contents
<1>5. world' \in [Docs -> Contents(writes')]
  BY <1>2, <1>4
<1>6. world'[d] = c /\ \A e \in Docs \ {d} : world'[e] = world[e]
  BY <1>2
<1>7. WholeLines(world')
  <2> SUFFICES ASSUME NEW e \in Docs, world'[e] # None, NEW a \in Line[e]
               PROVE  world'[a] # None
    BY DEF WholeLines
  <2>1. a \in Docs
    BY LinesAreNested
  <2>2. CASE a = d
    BY <2>2, <1>3, <1>6
  <2>3. CASE a # d /\ e # d
    <3>1. world[e] # None
      BY <2>3, <1>6
    <3>2. world[a] # None
      BY <3>1 DEF WorldPart, WholeLines
    <3> QED
      BY <3>2, <2>1, <2>3, <1>6
  <2>4. CASE a # d /\ e = d
    BY <2>4, <2>1, <1>6 DEF Exists
  <2> QED
    BY <2>2, <2>3, <2>4
<1>8. Rewrites
  <2>1. c.rev \in writes + 1 .. writes'
    BY <1>1, <1>3
  <2> QED
    BY <1>1, <1>6, <2>1 DEF Rewrites
<1>9. WorldPart'
  BY <1>1, <1>5, <1>7 DEF WorldPart
<1> QED
  BY <1>1, <1>3, <1>6, <1>8, <1>9

LEMMA OtherWritesWorld ==
    ASSUME WorldPart, NEW d \in Docs, OtherWrites(d)
    PROVE  WorldPart' /\ Rewrites /\ CreatesNothing
<1>1. Exists(d) /\ \A a \in Line[d] \ {d} : Exists(a)
  BY DEF OtherWrites, WorldPart, WholeLines, Exists
<1>2. PICK name \in Names, shown \in BOOLEAN : Written(d, name, shown)
  BY DEF OtherWrites
<1>3. WorldPart' /\ Rewrites /\ \A e \in Docs \ {d} : world'[e] = world[e]
  BY <1>1, <1>2, WrittenWorld
<1> QED
  BY <1>1, <1>3 DEF CreatesNothing, Exists

LEMMA OtherDeletesWorld ==
    ASSUME WorldPart, NEW d \in Docs, OtherDeletes(d)
    PROVE  WorldPart' /\ Rewrites /\ CreatesNothing
<1>1. /\ world' = [e \in Docs |-> IF d \in Line[e] THEN None ELSE world[e]]
      /\ writes' = writes + 1 /\ writes \in Nat
      /\ world \in [Docs -> Contents(writes)]
  BY DEF OtherDeletes, WorldPart
<1>2. world' \in [Docs -> Contents(writes')]
  BY <1>1 DEF Contents
<1>3. WholeLines(world')
  <2> SUFFICES ASSUME NEW e \in Docs, world'[e] # None, NEW a \in Line[e]
               PROVE  world'[a] # None
    BY DEF WholeLines
  <2>1. d \notin Line[e] /\ world[e] # None
    BY <1>1
  <2>2. a \in Docs /\ Line[a] \subseteq Line[e]
    BY LinesAreNested
  <2>3. world[a] # None
    BY <2>1 DEF WorldPart, WholeLines
  <2> QED
    BY <1>1, <2>1, <2>2, <2>3
<1>4. CreatesNothing /\ Rewrites
  BY <1>1 DEF CreatesNothing, Rewrites
<1> QED
  BY <1>1, <1>2, <1>3, <1>4 DEF WorldPart

LEMMA CreatedWorld ==
    ASSUME WorldPart, Created, Items[batch.next] \in Docs
    PROVE  WorldPart' /\ Rewrites /\ writes' = writes + 1
<1> DEFINE d == Items[batch.next]
<1>1. Creatable(d)
  BY DEF Created
<1>2. \A a \in Line[d] \ {d} : Exists(a)
  <2>1. CASE ParentOf[d] \in Docs
    <3>1. Line[d] = {d} \cup Line[ParentOf[d]]
      BY <2>1, LineEquation
    <3>2. world[ParentOf[d]] # None
      BY <1>1, <2>1, DocsAssumption DEF Creatable, Exists
    <3> QED
      BY <2>1, <3>1, <3>2 DEF WorldPart, WholeLines, Exists
  <2>2. CASE ParentOf[d] \notin Docs
    BY <2>2, LineEquation
  <2> QED
    BY <2>1, <2>2
<1>3. PICK name \in Names : Written(d, name, TRUE)
  BY DEF Created
<1> QED
  BY <1>2, <1>3, WrittenWorld

LEMMA UpdateCommittedWorld ==
    ASSUME WorldPart, NEW u \in Updaters, update[u].doc \in Docs, UpdateCommitted(u)
    PROVE  WorldPart' /\ Rewrites /\ CreatesNothing
<1> DEFINE d == update[u].doc
<1>1. Exists(d) /\ \A a \in Line[d] \ {d} : Exists(a)
  BY DEF UpdateCommitted, WorldPart, WholeLines, Exists
<1>2. world[d].shown \in BOOLEAN
  BY <1>1 DEF WorldPart, Contents, Exists
<1>3. PICK name \in Names : Written(d, name, world[d].shown)
  BY DEF UpdateCommitted
<1>4. WorldPart' /\ Rewrites /\ \A e \in Docs \ {d} : world'[e] = world[e]
  BY <1>1, <1>2, <1>3, WrittenWorld
<1> QED
  BY <1>1, <1>4 DEF CreatesNothing, Exists

(* A rollback leaves exactly the documents of the snapshot.                *)
LEMMA RolledBackWorld ==
    ASSUME WorldPart, BatchPart, BatchRolledBack
    PROVE  /\ WorldPart' /\ Rewrites
           /\ \A d \in Docs : world'[d] # None <=> batch.snapshot[d] # None
<1> DEFINE s == batch.snapshot
<1>1. s \in [Docs -> Contents(writes)] /\ WholeLines(s)
  <2>1. batch.status = "failing" /\ batch \in CreatingBatches
    BY DEF BatchPart, BatchTypes, BatchRolledBack, CreatingBatches, CalledBatches, Idle
  <2> QED
    BY <2>1 DEF BatchPart, SnapshotIsOlder, CreatingBatches
<1>2. /\ writes' = writes + 1 /\ writes \in Nat /\ writes' \in Nat
      /\ world' = [d \in Docs |-> Restored(d)]
  BY DEF BatchRolledBack, WorldPart
<1>3. ASSUME NEW d \in Docs
      PROVE  /\ world'[d] \in Contents(writes')
             /\ world'[d] # None <=> s[d] # None
             /\ \/ world'[d] = None \/ world'[d] = world[d]
                \/ world'[d].rev = writes'
  <2>1. CASE s[d] \in {world[d], None}
    <3>1. world'[d] = s[d]
      BY <1>2, <2>1 DEF Restored
    <3> QED
      BY <1>1, <1>2, <2>1, <3>1 DEF Contents
  <2>2. CASE s[d] \notin {world[d], None}
    <3>1. world'[d] = [s[d] EXCEPT !.rev = writes'] /\ s[d] # None
      BY <1>2, <2>2 DEF Restored
    <3>2. s[d] \in [name : Names, shown : BOOLEAN, rev : 0 .. writes]
      BY <1>1, <3>1 DEF Contents
    <3>3. /\ world'[d] \in [name : Names, shown : BOOLEAN, rev : 0 .. writes']
          /\ world'[d].rev = writes'
      BY <1>2, <3>1, <3>2
    <3>4. world'[d] # None
      BY <1>2, <3>3, ContentsAreThere
    <3> QED
      BY <3>1, <3>3, <3>4 DEF Contents
  <2> QED
    BY <2>1, <2>2
<1>4. world' \in [Docs -> Contents(writes')]
  BY <1>2, <1>3
<1>5. WholeLines(world')
  BY <1>1, <1>3, LinesAreNested DEF WholeLines
<1>6. Rewrites
  BY <1>2, <1>3 DEF Rewrites
<1> QED
  BY <1>2, <1>3, <1>4, <1>5, <1>6 DEF WorldPart

----------------------------------------------------------------------------
(* What a write means to the clients that did not make it.                 *)

LEMMA UpdatesSurviveWrites ==
    ASSUME WorldPart, UpdatePart, Rewrites, Observe, update' = update
    PROVE  UpdatePart'
<1>1. /\ racing' = [u \in Updaters |-> IF update[u].status = "sent"
                                       THEN racing[u] \cup (writes + 1 .. writes') ELSE racing[u]]
      /\ writes \in Nat /\ writes' \in Nat /\ writes <= writes'
  BY DEF Observe, Rewrites, WorldPart
<1>2. racing \in [Updaters -> SUBSET (1 .. writes)]
  BY DEF UpdatePart, UpdateTypes
<1>3. \A u \in Updaters : racing[u] \subseteq racing'[u] /\ racing'[u] \subseteq 1 .. writes'
  BY <1>1, <1>2
<1>4. racing' \in [Updaters -> SUBSET (1 .. writes')]
  BY <1>1, <1>3
<1>5. UpdateTypes'
  BY <1>4 DEF UpdatePart, UpdateTypes
<1>6. LostOnlyInFlight'
  BY <1>3 DEF UpdatePart, LostOnlyInFlight
<1>7. SentIsCurrent'
  <2> SUFFICES ASSUME NEW u \in Updaters, update[u].status = "sent", update[u].mode # "force",
                      world'[update[u].doc] # None
               PROVE  world'[update[u].doc].rev \in racing'[u] \cup {update[u].expected}
    BY DEF SentIsCurrent, Exists, sourceVersion
  <2>1. update[u].doc \in Docs
    BY DEF UpdatePart, UpdateTypes, UpdateCalls
  <2>2. CASE world'[update[u].doc] = world[update[u].doc]
    <3>1. world[update[u].doc].rev \in racing[u] \cup {update[u].expected}
      BY <2>2 DEF UpdatePart, SentIsCurrent, Exists, sourceVersion
    <3> QED
      BY <2>2, <3>1, <1>3
  <2>3. CASE world'[update[u].doc].rev \in writes + 1 .. writes'
    BY <2>3, <1>1
  <2> QED
    BY <2>1, <2>2, <2>3 DEF Rewrites
<1> QED
  BY <1>5, <1>6, <1>7 DEF UpdatePart

LEMMA BatchSurvivesWrites ==
    ASSUME WorldPart, BatchPart, CreatesNothing, writes' \in Nat, writes <= writes',
           UNCHANGED <<batch, made>>
    PROVE  BatchPart'
<1>1. Contents(writes) \subseteq Contents(writes')
  BY DEF Contents, WorldPart
<1>2. BatchTypes'
  <2>1. CASE batch \in {Idle} \cup CalledBatches
    BY <2>1 DEF BatchTypes, CalledBatches, Idle
  <2>2. CASE batch \in CreatingBatches
    <3>1. [Docs -> Contents(writes)] \subseteq [Docs -> Contents(writes')]
      BY <1>1
    <3>2. batch \in CreatingBatches'
      BY <2>2, <3>1 DEF CreatingBatches, Indexes
    <3> QED
      BY <3>2 DEF BatchTypes
  <2>3. CASE batch.status = "answered"
    BY <2>3 DEF BatchTypes
  <2> QED
    BY <2>1, <2>2, <2>3 DEF BatchPart, BatchTypes
<1>3. BatchHistory'
  BY DEF BatchPart, BatchHistory, Indexes
<1>4. NotYetCreated'
  <2>1. Indexes \subseteq DOMAIN Items /\ \A i \in Indexes : Items[i] \in Docs
    BY WorkAssumption DEF Indexes
  <2> QED
    BY <2>1 DEF BatchPart, NotYetCreated, CreatesNothing, Exists, Indexes
<1>5. SnapshotIsOlder' /\ CreatedIsKnown' /\ AtomicSkipsNothing'
  BY DEF BatchPart, SnapshotIsOlder, CreatedIsKnown, AtomicSkipsNothing, Indexes, WholeLines
<1>6. BatchAnswerIsTrue'
  BY DEF BatchPart, BatchAnswerIsTrue, Indexes
<1> QED
  BY <1>2, <1>3, <1>4, <1>5, <1>6 DEF BatchPart

LEMMA ListingSurvivesWrites ==
    ASSUME ListingPart, Observe, listing' = listing
    PROVE  ListingPart'
<1>1. /\ steady' \subseteq steady /\ steady' \subseteq Entries(world', listing.query)
      /\ \A d \in steady' : Key(world', listing.query, d) = Key(world, listing.query, d)
  BY DEF Observe
<1>2. SteadyIsListed' /\ steady' \subseteq Docs
  BY <1>1 DEF ListingPart, SteadyIsListed
<1>3. PassedListedOnce'
  <2> SUFFICES ASSUME listing.status = "paging", NEW d \in steady'
               PROVE  listing.listed[d] = IF Passed(d)' THEN 1 ELSE 0
    BY DEF PassedListedOnce
  <2>1. Passed(d)' <=> Passed(d)
    BY <1>1 DEF Passed
  <2>2. listing.listed[d] = IF Passed(d) THEN 1 ELSE 0
    BY <1>1 DEF ListingPart, PassedListedOnce
  <2> QED
    BY <2>1, <2>2
<1>4. EndedListedOnce'
  BY <1>1 DEF ListingPart, EndedListedOnce
<1> QED
  BY <1>2, <1>3, <1>4 DEF ListingPart, Listings, QueryTypes

(* The same parts when nothing they speak of changes.                      *)
LEMMA SameWorld ==
    ASSUME WorldPart, UNCHANGED <<world, writes>>
    PROVE  WorldPart' /\ Rewrites /\ CreatesNothing
  BY DEF WorldPart, WholeLines, Rewrites, CreatesNothing, Contents

LEMMA SameBatch ==
    ASSUME WorldPart, BatchPart, UNCHANGED <<world, writes, batch, made>>
    PROVE  BatchPart'
  BY BatchSurvivesWrites, SameWorld DEF WorldPart

LEMMA SameUpdates ==
    ASSUME UpdatePart, UNCHANGED <<world, writes, update, racing>>
    PROVE  UpdatePart'
  BY DEF UpdatePart, UpdateTypes, SentIsCurrent, LostOnlyInFlight, Exists, sourceVersion

LEMMA SameListing ==
    ASSUME ListingPart, UNCHANGED <<world, listing, steady>>
    PROVE  ListingPart'
  BY DEF ListingPart, Listings, QueryTypes, SteadyIsListed, PassedListedOnce, EndedListedOnce, Passed

(* A write that is not the batch's: everything holds on.                   *)
LEMMA WriteKeepsAll ==
    ASSUME DocumentsInv, WorldPart', Rewrites, CreatesNothing, Observe,
           UNCHANGED <<listing, batch, update, made>>
    PROVE  DocumentsInv'
<1>1. writes' \in Nat /\ writes <= writes'
  BY DEF Rewrites
<1> QED
  BY <1>1, UpdatesSurviveWrites, BatchSurvivesWrites, ListingSurvivesWrites DEF DocumentsInv

LEMMA OthersKeepAll ==
    ASSUME DocumentsInv,
           OtherLocks \/ \E d \in Docs : OtherWrites(d) \/ OtherDeletes(d)
    PROVE  DocumentsInv'
<1>1. WorldPart
  BY DEF DocumentsInv
<1>2. ASSUME NEW d \in Docs, OtherWrites(d) PROVE DocumentsInv'
  BY <1>1, <1>2, OtherWritesWorld, WriteKeepsAll DEF OtherWrites, Edit
<1>3. ASSUME NEW d \in Docs, OtherDeletes(d) PROVE DocumentsInv'
  BY <1>1, <1>3, OtherDeletesWorld, WriteKeepsAll DEF OtherDeletes, Edit
<1>4. CASE OtherLocks
  BY <1>1, <1>4, SameWorld, WriteKeepsAll DEF OtherLocks, Edit
<1> QED
  BY <1>2, <1>3, <1>4

----------------------------------------------------------------------------
(* The listing.                                                            *)

(* Moving the cursor changes neither what is listed nor its order.         *)
LEMMA CursorOnly ==
    ASSUME NEW q \in QueryTypes, NEW c \in (Nat \X Nat) \cup {None}, NEW w
    PROVE  /\ [q EXCEPT !.cursor = c] \in QueryTypes
           /\ [q EXCEPT !.cursor = c].cursor = c
           /\ Entries(w, [q EXCEPT !.cursor = c]) = Entries(w, q)
           /\ \A d : Key(w, [q EXCEPT !.cursor = c], d) = Key(w, q, d)
           /\ \A k, l : Before([q EXCEPT !.cursor = c], k, l) = Before(q, k, l)
<1> DEFINE r == [q EXCEPT !.cursor = c]
<1>1. r \in QueryTypes /\ r.cursor = c
  BY DEF QueryTypes
<1>2. r.kind = q.kind /\ r.field = q.field /\ r.direction = q.direction /\ r.recursive = q.recursive
  BY DEF QueryTypes
<1>3. Entries(w, r) = Entries(w, q)
  BY <1>2 DEF Entries, Reachable
<1>4. \A d : Key(w, r, d) = Key(w, q, d)
  BY <1>2 DEF Key
<1>5. \A k, l : Before(r, k, l) = Before(q, k, l)
  BY <1>2 DEF Before, Less
<1> QED
  BY <1>1, <1>3, <1>4, <1>5

LEMMA ListPageKeepsListing ==
    ASSUME DocumentsInv, ListPage
    PROVE  ListingPart'
<1> DEFINE q == listing.query
           c == NextCursor(q, PageSize)
           P == Page(q, PageSize)
<1>1. listing \in Listings /\ q \in QueryTypes /\ listing.status = "paging" /\ WorldPart
  BY DEF DocumentsInv, ListingPart, ListPage, Listings, Idle
<1>2. PageSize \in Nat \ {0}
  BY WorkAssumption
<1>3. /\ c = None => P = AfterCursor(q)
      /\ c # None => /\ c \in Nat \X Nat
                     /\ q.cursor # None => Before(q, q.cursor, c)
                     /\ \A d \in P : ~Before(q, c, Key(world, q, d))
                     /\ \A d \in AfterCursor(q) \ P : Before(q, c, Key(world, q, d))
  <2>1. CASE c = None
    <3>1. ASSUME P # AfterCursor(q) PROVE FALSE
      <4>1. AfterCursor(q) # {}
        BY <3>1 DEF Page
      <4>2. \E d \in P : c = Key(world, q, d)
        BY <1>1, <1>2, <3>1, PageHasLast
      <4>3. c \in Nat \X Nat
        BY <1>1, <4>2, EntriesHaveKeys DEF Page, AfterCursor
      <4> QED
        BY <4>3, <2>1, DocsAssumption
    <3> QED
      BY <2>1, <3>1
  <2>2. CASE c # None
    BY <1>1, <1>2, <2>2, PageIsFirst
  <2> QED
    BY <2>1, <2>2
<1>4. /\ listing'.query = [q EXCEPT !.cursor = c]
      /\ listing'.status = IF c = None THEN "done" ELSE "paging"
      /\ listing'.listed = [d \in Docs |-> IF d \in P THEN listing.listed[d] + 1 ELSE listing.listed[d]]
      /\ listing'.complete \in BOOLEAN
      /\ listing' = [status |-> listing'.status, query |-> listing'.query,
                     complete |-> listing'.complete, listed |-> listing'.listed]
      /\ UNCHANGED <<world, steady>>
  <2>1. DOMAIN listing = {"status", "query", "complete", "listed"} /\ listing.complete \in BOOLEAN
    BY <1>1 DEF Listings
  <2> HIDE DEF c, P
  <2> QED
    BY <1>1, <2>1 DEF ListPage, foundry, history, Listings, c, P
<1> HIDE DEF c, P
<1>5. c \in (Nat \X Nat) \cup {None}
  BY <1>3
<1>6. /\ listing'.query \in QueryTypes /\ listing'.query.cursor = c
      /\ Entries(world, listing'.query) = Entries(world, q)
      /\ \A d : Key(world, listing'.query, d) = Key(world, q, d)
      /\ \A k, l : Before(listing'.query, k, l) = Before(q, k, l)
  <2> DEFINE r == [q EXCEPT !.cursor = c]
  <2>1. /\ r \in QueryTypes /\ r.cursor = c
        /\ Entries(world, r) = Entries(world, q)
        /\ \A d : Key(world, r, d) = Key(world, q, d)
        /\ \A k, l : Before(r, k, l) = Before(q, k, l)
    BY <1>1, <1>5, CursorOnly
  <2>2. listing'.query = r
    BY <1>4
  <2> HIDE DEF r, q
  <2> QED
    BY <2>1, <2>2
<1>7. listing' \in Listings
  <2>1. listing.listed \in [Docs -> Nat]
    BY <1>1 DEF Listings
  <2>2. listing'.listed \in [Docs -> Nat]
    BY <1>4, <2>1
  <2> QED
    BY <1>4, <1>6, <2>2 DEF Listings
<1>8. SteadyIsListed' /\ steady' \subseteq Docs
  BY <1>1, <1>4, <1>6 DEF DocumentsInv, ListingPart, SteadyIsListed, Listings, Idle
<1>9. ASSUME NEW d \in steady
      PROVE  /\ d \in Docs /\ d \in Entries(world, q) /\ Key(world, q, d) \in Nat \X Nat
             /\ listing.listed[d] = IF Passed(d) THEN 1 ELSE 0
             /\ d \in AfterCursor(q) <=> ~Passed(d)
             /\ d \in P => d \in AfterCursor(q)
  <2>1. d \in Docs /\ d \in Entries(world, q) /\ listing.listed[d] = IF Passed(d) THEN 1 ELSE 0
    BY <1>1 DEF DocumentsInv, ListingPart, SteadyIsListed, PassedListedOnce, Listings, Idle
  <2>2. d \in AfterCursor(q) <=> ~Passed(d)
    BY <2>1 DEF AfterCursor, Passed
  <2> QED
    BY <1>1, <2>1, <2>2, EntriesHaveKeys DEF P, Page
<1>10. ASSUME c = None PROVE EndedListedOnce' /\ PassedListedOnce'
  BY <1>3, <1>4, <1>9, <1>10 DEF EndedListedOnce, PassedListedOnce
<1>11. ASSUME c # None PROVE EndedListedOnce' /\ PassedListedOnce'
  <2>1. ASSUME NEW d \in steady
        PROVE  listing'.listed[d] = IF Passed(d)' THEN 1 ELSE 0
    <3>1. Passed(d)' <=> ~Before(q, c, Key(world, q, d))
      BY <1>4, <1>6, <1>11 DEF Passed
    <3>2. CASE d \in P
      BY <1>3, <1>4, <1>9, <1>11, <3>1, <3>2
    <3>3. CASE d \in AfterCursor(q) \ P
      BY <1>3, <1>4, <1>9, <1>11, <3>1, <3>3
    <3>4. CASE d \notin AfterCursor(q)
      <4>1. q.cursor # None /\ ~Before(q, q.cursor, Key(world, q, d))
        <5>1. Passed(d)
          BY <1>9, <3>4, Zenon
        <5> QED
          BY <5>1 DEF Passed
      <4>2. Before(q, q.cursor, c) /\ c \in Nat \X Nat /\ q.cursor \in Nat \X Nat
        <5>1. q.cursor \in (Nat \X Nat) \cup {None}
          BY <1>1 DEF QueryTypes
        <5>2. q.cursor \in Nat \X Nat
          BY <4>1, <5>1
        <5>3. Before(q, q.cursor, c) /\ c \in Nat \X Nat
          BY <1>3, <1>11, <4>1, Zenon
        <5> QED
          BY <5>2, <5>3
      <4>3. ~Before(q, c, Key(world, q, d))
        <5>1. Key(world, q, d) \in Nat \X Nat
          BY <1>9
        <5>2. Before(q, q.cursor, c) /\ Before(q, c, Key(world, q, d))
                => Before(q, q.cursor, Key(world, q, d))
          BY <4>2, <5>1, BeforeIsOrder
        <5> QED
          BY <4>1, <4>2, <5>2
      <4> QED
        <5>1. d \notin P /\ Passed(d) /\ Passed(d)'
          BY <1>9, <3>1, <3>4, <4>3, Zenon
        <5>2. listing.listed[d] = 1 /\ listing'.listed[d] = listing.listed[d]
          BY <1>4, <1>9, <5>1
        <5> QED
          BY <5>1, <5>2
    <3> QED
      BY <3>2, <3>3, <3>4
  <2> QED
    BY <1>4, <1>11, <2>1 DEF EndedListedOnce, PassedListedOnce
<1> QED
  BY <1>7, <1>8, <1>10, <1>11 DEF ListingPart

LEMMA ListStepsKeepAll ==
    ASSUME DocumentsInv, ListPage \/ ListRefused
    PROVE  DocumentsInv'
<1>1. UNCHANGED <<world, locked, writes, batch, update, steady, made, racing>>
  BY DEF ListPage, ListRefused, foundry, history
<1>2. WorldPart' /\ BatchPart' /\ UpdatePart'
  BY <1>1, SameWorld, SameBatch, SameUpdates DEF DocumentsInv
<1>3. CASE ListPage
  BY <1>2, <1>3, ListPageKeepsListing DEF DocumentsInv
<1>4. CASE ListRefused
  <2>1. listing \in Listings /\ listing # Idle
    BY <1>4 DEF ListRefused, DocumentsInv, ListingPart, Listings, Idle
  <2>2. listing' = [listing EXCEPT !.status = "refused"]
    BY <1>4 DEF ListRefused
  <2>3. listing' \in Listings /\ listing'.status = "refused" /\ listing'.query = listing.query
    BY <2>1, <2>2 DEF Listings
  <2>4. ListingPart'
    BY <1>1, <2>1, <2>3
       DEF DocumentsInv, ListingPart, SteadyIsListed, PassedListedOnce, EndedListedOnce
  <2> QED
    BY <1>2, <2>4 DEF DocumentsInv
<1> QED
  BY <1>3, <1>4

----------------------------------------------------------------------------
(* The batch.                                                              *)

LEMMA BatchKinds ==
    ASSUME BatchPart
    PROVE  /\ batch.status = "called" => batch \in CalledBatches
           /\ batch.status \in {"creating", "failing"} => batch \in CreatingBatches
  BY DEF BatchPart, BatchTypes, CalledBatches, CreatingBatches, Idle

(* An answer ends the batch: what is left to show is that it is true.      *)
LEMMA AnsweredBatch ==
    ASSUME NEW a, AnswerBatch(a), BatchHistory',
           a = "committed" => made' = Indexes,
           a = "partly" => ~batch.atomic /\ batch.created \subseteq made',
           a = "rollback_failed" => batch.created \subseteq made',
           a \notin {"committed", "partly", "rollback_failed"} => made' = {}
    PROVE  BatchPart'
<1>1. batch'.status = "answered" /\ batch'.call = batch /\ batch'.answer = a
  BY DEF AnswerBatch
<1>2. Indexes' = Indexes
  BY DEF Indexes
<1>3. BatchAnswerIsTrue'
  BY <1>1, <1>2 DEF BatchAnswerIsTrue
<1>4. BatchTypes'
  BY <1>1 DEF BatchTypes
<1>5. NotYetCreated' /\ SnapshotIsOlder' /\ CreatedIsKnown' /\ AtomicSkipsNothing'
  BY <1>1 DEF NotYetCreated, SnapshotIsOlder, CreatedIsKnown, AtomicSkipsNothing
<1> QED
  BY <1>3, <1>4, <1>5 DEF BatchPart

(* The steps of the batch that write nothing.                              *)
LEMMA QuietBatchStep ==
    ASSUME DocumentsInv, BatchPart',
           UNCHANGED <<world, writes, listing, update, steady, racing>>
    PROVE  DocumentsInv'
  BY SameWorld, SameUpdates, SameListing DEF DocumentsInv

LEMMA BatchRefusedKeepsAll ==
    ASSUME DocumentsInv, BatchRefused
    PROVE  DocumentsInv'
<1>1. UNCHANGED <<world, writes, listing, update, steady, racing, made>>
  BY DEF BatchRefused, foundry, history
<1>2. made = {} /\ BatchHistory'
  BY <1>1 DEF DocumentsInv, BatchPart, NotYetCreated, BatchRefused, BatchHistory, Indexes
<1>3. PICK a \in {"UNSUPPORTED_TYPE", "validated", "not_attempted"} : AnswerBatch(a)
  BY DEF BatchRefused
<1>4. BatchPart'
  BY <1>1, <1>2, <1>3, AnsweredBatch
<1> QED
  BY <1>1, <1>4, QuietBatchStep

LEMMA BatchBeginsKeepsAll ==
    ASSUME DocumentsInv, BatchBegins
    PROVE  DocumentsInv'
<1>1. UNCHANGED <<world, writes, listing, update, steady, racing, made>>
  BY DEF BatchBegins, foundry, history
<1>2. batch \in CalledBatches /\ WorldPart
  BY BatchKinds DEF DocumentsInv, BatchBegins
<1>3. made = {} /\ \A i \in Indexes : world[Items[i]] = None
  BY DEF DocumentsInv, BatchPart, NotYetCreated, BatchBegins, Exists
<1> DEFINE s == IF batch.atomic THEN world ELSE Missing
           fit == {i \in Indexes : ItemFits(i)}
<1>4. batch' = [status |-> "creating", atomic |-> batch.atomic,
                fit |-> fit, next |-> 1, created |-> {}, snapshot |-> s]
  BY DEF BatchBegins
<1>5. s \in [Docs -> Contents(writes)] /\ WholeLines(s)
  BY <1>2 DEF WorldPart, Missing, Contents, WholeLines
<1>6. \A i \in Indexes : s[Items[i]] = None
  <2>1. \A i \in Indexes : Items[i] \in Docs
    BY WorkAssumption DEF Indexes
  <2> QED
    BY <1>3, <2>1 DEF Missing
<1>7. batch.atomic => fit = Indexes
  BY DEF BatchBegins
<1>8. fit \in SUBSET Indexes /\ Indexes' = Indexes /\ batch.atomic \in BOOLEAN
  BY <1>2 DEF Indexes, CalledBatches
<1> HIDE DEF s, fit
<1>9. batch' \in CreatingBatches'
  BY <1>1, <1>4, <1>5, <1>8 DEF CreatingBatches
<1>10. BatchTypes' /\ BatchHistory' /\ NotYetCreated' /\ SnapshotIsOlder' /\ CreatedIsKnown'
  BY <1>1, <1>3, <1>4, <1>5, <1>6, <1>8, <1>9
     DEF DocumentsInv, BatchPart, BatchTypes, BatchHistory, NotYetCreated, SnapshotIsOlder,
         CreatedIsKnown, WholeLines
<1>11. AtomicSkipsNothing'
  <2>1. Len(Items) \in Nat
    BY WorkAssumption
  <2> QED
    BY <1>4, <1>7, <1>8, <2>1 DEF AtomicSkipsNothing
<1>12. BatchAnswerIsTrue'
  BY <1>4 DEF BatchAnswerIsTrue
<1>13. BatchPart'
  BY <1>10, <1>11, <1>12 DEF BatchPart
<1> QED
  BY <1>1, <1>13, QuietBatchStep

(* What holds while the batch creates, and while it is rolled back.        *)
LEMMA Creating ==
    ASSUME BatchPart, batch.status \in {"creating", "failing"}
    PROVE  /\ batch \in CreatingBatches
           /\ batch.created \subseteq made /\ made \subseteq Indexes
           /\ batch.status = "creating" /\ batch.atomic =>
                 /\ batch.fit = Indexes /\ batch.next <= Len(Items) + 1
                 /\ batch.created = 1 .. batch.next - 1
           /\ Indexes = 1 .. Len(Items) /\ Len(Items) \in Nat
           /\ batch.next \in Nat \ {0}
           /\ \A i \in Indexes : Items[i] \in Docs
<1>1. batch \in CreatingBatches
  BY BatchKinds
<1>2. Indexes = 1 .. Len(Items) /\ Len(Items) \in Nat /\ \A i \in Indexes : Items[i] \in Docs
  BY WorkAssumption DEF Indexes
<1>3. batch.next \in Nat \ {0}
  BY <1>1 DEF CreatingBatches
<1> QED
  BY <1>1, <1>2, <1>3 DEF BatchPart, BatchHistory, CreatedIsKnown, AtomicSkipsNothing

LEMMA BatchEndsKeepAll ==
    ASSUME DocumentsInv, BatchCompleted \/ RollbackFailed
    PROVE  DocumentsInv'
<1>1. UNCHANGED <<world, writes, listing, update, steady, racing, made>>
  BY DEF BatchCompleted, RollbackFailed, foundry, history
<1>2. batch.status \in {"creating", "failing"} /\ BatchPart
  BY DEF BatchCompleted, RollbackFailed, DocumentsInv
<1>3. BatchHistory'
  BY <1>1, <1>2 DEF BatchPart, BatchHistory, Indexes
<1>4. batch.created \subseteq made /\ made \subseteq Indexes
  BY <1>2, Creating
<1>5. CASE RollbackFailed
  <2>1. AnswerBatch("rollback_failed")
    BY <1>5 DEF RollbackFailed
  <2> QED
    BY <1>1, <1>3, <1>4, <2>1, AnsweredBatch, QuietBatchStep
<1>6. CASE BatchCompleted
  <2>1. PICK a \in {"committed", "partly"} :
           AnswerBatch(a) /\ (a = "committed" <=> batch.created = Indexes)
    BY <1>6 DEF BatchCompleted
  <2>2. batch.atomic => batch.created = Indexes
    <3>1. batch.next \notin Indexes /\ batch.status = "creating"
      BY <1>6 DEF BatchCompleted
    <3>2. batch.atomic => batch.next = Len(Items) + 1
      BY <1>2, <3>1, Creating
    <3> QED
      BY <1>2, <3>1, <3>2, Creating
  <2> QED
    BY <1>1, <1>3, <1>4, <2>1, <2>2, AnsweredBatch, QuietBatchStep
<1> QED
  BY <1>5, <1>6

(* The next item: what is listed as created was created, and an atomic     *)
(* batch skips nothing.                                                    *)
LEMMA AdvancedBatch ==
    ASSUME WorldPart, BatchPart, batch.status = "creating", batch.next \in Indexes,
           NEW created, Advance(created), created \subseteq made', made' \subseteq Indexes,
           created \in {batch.created, batch.created \cup {batch.next}},
           batch.atomic => created = batch.created \cup {batch.next},
           writes' \in Nat, writes <= writes'
    PROVE  BatchPart'
<1>1. /\ batch \in CreatingBatches /\ Indexes = 1 .. Len(Items) /\ Len(Items) \in Nat
      /\ batch.next \in Nat \ {0}
      /\ batch.atomic => /\ batch.fit = Indexes
                         /\ batch.created = 1 .. batch.next - 1
  BY Creating
<1>2. /\ created \in SUBSET Indexes
      /\ batch.atomic => created = 1 .. (batch.next + 1) - 1
  <2>1. batch.created \in SUBSET Indexes
    BY <1>1 DEF CreatingBatches
  <2>2. ASSUME batch.atomic PROVE created = 1 .. (batch.next + 1) - 1
    <3> DEFINE n == batch.next
    <3>1. n \in Nat \ {0} /\ created = (1 .. n - 1) \cup {n}
      BY <1>1, <2>2
    <3> HIDE DEF n
    <3>2. created = 1 .. (n + 1) - 1
      BY <3>1
    <3> QED
      BY <3>2 DEF n
  <2> QED
    BY <2>1, <2>2
<1>3. batch' = [status |-> "creating", atomic |-> batch.atomic,
                fit |-> batch.fit, next |-> batch.next + 1, created |-> created,
                snapshot |-> batch.snapshot]
  BY <1>1 DEF Advance, CreatingBatches
<1>4. [Docs -> Contents(writes)] \subseteq [Docs -> Contents(writes')]
  <2>1. Contents(writes) \subseteq Contents(writes')
    BY DEF Contents, WorldPart
  <2> QED
    BY <2>1
<1>5. Indexes' = Indexes
  BY DEF Indexes
<1>6. batch' \in CreatingBatches'
  BY <1>1, <1>2, <1>3, <1>4, <1>5 DEF CreatingBatches
<1>7. BatchTypes' /\ BatchHistory'
  BY <1>2, <1>5, <1>6 DEF BatchTypes, BatchHistory
<1>8. NotYetCreated' /\ SnapshotIsOlder' /\ CreatedIsKnown'
  BY <1>3, <1>5 DEF BatchPart, NotYetCreated, SnapshotIsOlder, CreatedIsKnown, WholeLines
<1>9. AtomicSkipsNothing'
  BY <1>1, <1>2, <1>3, <1>5 DEF AtomicSkipsNothing
<1>10. BatchAnswerIsTrue'
  BY <1>3 DEF BatchAnswerIsTrue
<1> QED
  BY <1>7, <1>8, <1>9, <1>10 DEF BatchPart

(* A batch that begins to fail.                                            *)
LEMMA FailingBatch ==
    ASSUME WorldPart, BatchPart, batch.status = "creating",
           batch' = [batch EXCEPT !.status = "failing"],
           made \subseteq made', made' \subseteq Indexes, writes' \in Nat, writes <= writes'
    PROVE  BatchPart'
<1>1. batch \in CreatingBatches /\ batch.created \subseteq made
  BY Creating
<1>2. batch' = [status |-> "failing", atomic |-> batch.atomic, fit |-> batch.fit,
                next |-> batch.next, created |-> batch.created, snapshot |-> batch.snapshot]
  BY <1>1 DEF CreatingBatches
<1>3. [Docs -> Contents(writes)] \subseteq [Docs -> Contents(writes')]
  <2>1. Contents(writes) \subseteq Contents(writes')
    BY DEF Contents, WorldPart
  <2> QED
    BY <2>1
<1>4. Indexes' = Indexes
  BY DEF Indexes
<1>5. batch' \in CreatingBatches'
  BY <1>1, <1>2, <1>3, <1>4 DEF CreatingBatches
<1>6. BatchTypes' /\ BatchHistory'
  BY <1>4, <1>5 DEF BatchTypes, BatchHistory
<1>7. NotYetCreated' /\ SnapshotIsOlder' /\ CreatedIsKnown' /\ AtomicSkipsNothing'
  BY <1>1, <1>2, <1>4
     DEF BatchPart, NotYetCreated, SnapshotIsOlder, CreatedIsKnown, AtomicSkipsNothing, WholeLines
<1>8. BatchAnswerIsTrue'
  BY <1>2 DEF BatchAnswerIsTrue
<1> QED
  BY <1>6, <1>7, <1>8 DEF BatchPart

LEMMA ItemSkippedKeepsAll ==
    ASSUME DocumentsInv, ItemSkipped
    PROVE  DocumentsInv'
<1>1. UNCHANGED <<world, writes, listing, update, steady, racing, made>>
  BY DEF ItemSkipped, foundry, history
<1>2. batch.status = "creating" /\ BatchPart /\ WorldPart
  BY DEF ItemSkipped, DocumentsInv
<1>3. batch.next \in Indexes /\ ~batch.atomic /\ Advance(batch.created)
  BY <1>2, Creating DEF ItemSkipped
<1>4. writes' \in Nat /\ writes <= writes'
  BY <1>1, <1>2 DEF WorldPart
<1>5. batch.created \subseteq made' /\ made' \subseteq Indexes
  BY <1>1, <1>2, Creating
<1>6. BatchPart'
  BY <1>2, <1>3, <1>4, <1>5, AdvancedBatch
<1> QED
  BY <1>1, <1>6, QuietBatchStep

(* Foundry creates the item, whatever the batch is told of it.             *)
LEMMA CreatedKeepsRest ==
    ASSUME DocumentsInv, batch.status = "creating", batch.next \in batch.fit, Created,
           UNCHANGED <<listing, update>>
    PROVE  /\ WorldPart' /\ UpdatePart' /\ ListingPart' /\ writes' \in Nat /\ writes <= writes'
           /\ made' = made \cup {batch.next} /\ made' \subseteq Indexes
<1>1. BatchPart /\ WorldPart /\ UpdatePart /\ ListingPart
  BY DEF DocumentsInv
<1>2. batch.next \in Indexes /\ Items[batch.next] \in Docs /\ made \subseteq Indexes
  BY <1>1, Creating DEF CreatingBatches
<1>3. WorldPart' /\ Rewrites /\ writes' \in Nat /\ writes <= writes'
  BY <1>1, <1>2, CreatedWorld DEF Rewrites
<1>4. made' = made \cup {batch.next} /\ Observe
  BY DEF Created
<1>5. UpdatePart' /\ ListingPart'
  BY <1>1, <1>3, <1>4, UpdatesSurviveWrites, ListingSurvivesWrites
<1> QED
  BY <1>2, <1>3, <1>4, <1>5

LEMMA ItemCreatedKeepsAll ==
    ASSUME DocumentsInv, ItemCreated
    PROVE  DocumentsInv'
<1>1. /\ batch.status = "creating" /\ BatchPart /\ WorldPart
      /\ batch.next \in batch.fit /\ Advance(batch.created \cup {batch.next})
      /\ Created /\ UNCHANGED <<listing, update>>
  BY DEF ItemCreated, DocumentsInv
<1>2. batch.next \in Indexes /\ batch.created \subseteq made
  BY <1>1, Creating DEF CreatingBatches
<1>3. /\ WorldPart' /\ UpdatePart' /\ ListingPart' /\ writes' \in Nat /\ writes <= writes'
      /\ made' = made \cup {batch.next} /\ made' \subseteq Indexes
  BY <1>1, CreatedKeepsRest
<1>4. BatchPart'
  <2>1. batch.created \cup {batch.next} \subseteq made'
    BY <1>2, <1>3
  <2> QED
    BY <1>1, <1>2, <1>3, <2>1, AdvancedBatch
<1> QED
  BY <1>3, <1>4 DEF DocumentsInv

(* An item that fails, whether it was created or not.                      *)
LEMMA ItemFailedKeepsAll ==
    ASSUME DocumentsInv, ItemFailed
    PROVE  DocumentsInv'
<1>1. /\ batch.status = "creating" /\ BatchPart /\ WorldPart /\ UpdatePart /\ ListingPart
      /\ batch.next \in batch.fit /\ UNCHANGED <<listing, update>>
  BY DEF ItemFailed, DocumentsInv
<1>2. batch.next \in Indexes /\ batch.created \subseteq made /\ made \subseteq Indexes
  BY <1>1, Creating DEF CreatingBatches
<1>3. /\ WorldPart' /\ UpdatePart' /\ ListingPart' /\ writes' \in Nat /\ writes <= writes'
      /\ made \subseteq made' /\ made' \subseteq Indexes
  <2>1. CASE Created
    BY <1>1, <2>1, CreatedKeepsRest
  <2>2. CASE UNCHANGED <<world, writes, history>>
    <3>1. UNCHANGED <<world, writes, steady, made, racing>>
      BY <2>2 DEF history
    <3> QED
      BY <1>1, <1>2, <3>1, SameWorld, SameUpdates, SameListing DEF WorldPart
  <2> QED
    BY <2>1, <2>2 DEF ItemFailed
<1>4. BatchPart'
  <2>1. CASE batch.atomic
    <3>1. batch' = [batch EXCEPT !.status = "failing"]
      BY <2>1 DEF ItemFailed
    <3> QED
      BY <1>1, <1>3, <3>1, FailingBatch
  <2>2. CASE ~batch.atomic
    <3>1. Advance(batch.created)
      BY <2>2 DEF ItemFailed
    <3>2. batch.created \subseteq made'
      BY <1>2, <1>3
    <3> QED
      BY <1>1, <1>2, <1>3, <2>2, <3>1, <3>2, AdvancedBatch
  <2> QED
    BY <2>1, <2>2
<1> QED
  BY <1>3, <1>4 DEF DocumentsInv

(* After a rollback nothing is left of the batch, since nothing of it      *)
(* existed when its snapshot was taken.                                    *)
LEMMA BatchRolledBackKeepsAll ==
    ASSUME DocumentsInv, BatchRolledBack
    PROVE  DocumentsInv'
<1>1. /\ batch.status = "failing" /\ BatchPart /\ WorldPart /\ UpdatePart /\ ListingPart
      /\ made' = {i \in made : world'[Items[i]] # None}
      /\ AnswerBatch("rolled_back") /\ Observe /\ UNCHANGED <<listing, update>>
  BY DEF BatchRolledBack, DocumentsInv
<1>2. /\ WorldPart' /\ Rewrites
      /\ \A d \in Docs : world'[d] # None <=> batch.snapshot[d] # None
  BY <1>1, RolledBackWorld
<1>3. made' = {}
  <2>1. \A i \in Indexes : batch.snapshot[Items[i]] = None
    BY <1>1 DEF BatchPart, SnapshotIsOlder
  <2> QED
    BY <1>1, <1>2, <2>1, Creating
<1>4. BatchHistory'
  BY <1>1, <1>3 DEF BatchPart, BatchHistory
<1>5. BatchPart'
  BY <1>1, <1>3, <1>4, AnsweredBatch
<1>6. UpdatePart' /\ ListingPart'
  BY <1>1, <1>2, UpdatesSurviveWrites, ListingSurvivesWrites
<1> QED
  BY <1>2, <1>5, <1>6 DEF DocumentsInv

----------------------------------------------------------------------------
(* The updates.                                                            *)

LEMMA UpdateCallTypes ==
    ASSUME UpdatePart, NEW u \in Updaters, update[u].status \in {"calling", "sent"}
    PROVE  update[u] \in UpdateCalls
  BY DEF UpdatePart, UpdateTypes

(* One updater's step that writes nothing.                                 *)
LEMMA QuietUpdateStep ==
    ASSUME DocumentsInv, UpdatePart', UNCHANGED <<world, writes, listing, batch, steady, made>>
    PROVE  DocumentsInv'
  BY SameWorld, SameBatch, SameListing DEF DocumentsInv

LEMMA OneUpdate ==
    ASSUME UpdatePart, NEW u \in Updaters, NEW call, update' = [update EXCEPT ![u] = call]
    PROVE  /\ update'[u] = call /\ \A v \in Updaters \ {u} : update'[v] = update[v]
           /\ update' = [v \in Updaters |-> update'[v]]
  BY DEF UpdatePart, UpdateTypes

LEMMA ReadKeepsAll ==
    ASSUME DocumentsInv, NEW u \in Updaters, NEW d \in Targets, Read(u, d)
    PROVE  DocumentsInv'
<1>1. UNCHANGED <<world, writes, listing, batch, steady, made, racing>>
  BY DEF Read, foundry, history
<1>2. PICK mode \in {"expected", "force", "dryRun"} :
         update' = [update EXCEPT ![u] = [status |-> "calling", doc |-> d, mode |-> mode,
                                          expected |-> sourceVersion(d)]]
  BY DEF Read
<1>3. d \in Docs /\ sourceVersion(d) \in Nat
  <2>1. d \in Docs /\ world[d] # None
    BY WorkAssumption DEF Read, canRead
  <2>2. world[d] \in Contents(writes) /\ writes \in Nat
    BY <2>1 DEF DocumentsInv, WorldPart
  <2> QED
    BY <2>1, <2>2 DEF Contents, sourceVersion
<1> DEFINE call == [status |-> "calling", doc |-> d, mode |-> mode, expected |-> sourceVersion(d)]
<1>4. call \in UpdateCalls /\ call.status = "calling"
  BY <1>3 DEF UpdateCalls
<1> HIDE DEF call
<1>5. /\ update'[u] = call /\ \A v \in Updaters \ {u} : update'[v] = update[v]
      /\ update' = [v \in Updaters |-> update'[v]]
  BY <1>2, OneUpdate DEF DocumentsInv, call
<1>6. UpdateTypes'
  BY <1>1, <1>4, <1>5 DEF DocumentsInv, UpdatePart, UpdateTypes
<1>7. SentIsCurrent' /\ LostOnlyInFlight'
  BY <1>1, <1>4, <1>5
     DEF DocumentsInv, UpdatePart, SentIsCurrent, LostOnlyInFlight, Exists, sourceVersion
<1> QED
  BY <1>1, <1>6, <1>7, QuietUpdateStep DEF UpdatePart

LEMMA UpdateAnsweredKeepsAll ==
    ASSUME DocumentsInv, NEW u \in Updaters, UpdateRefused(u) \/ UpdateFailed(u)
    PROVE  DocumentsInv'
<1>1. UNCHANGED <<world, writes, listing, batch, steady, made, racing>>
  BY DEF UpdateRefused, UpdateFailed, foundry, history
<1>2. PICK a \in {"denied", "CONFLICT", "validated", "FOUNDRY_ERROR"} : AnswerUpdate(u, a)
  BY DEF UpdateRefused, UpdateFailed
<1> DEFINE call == [status |-> "answered", call |-> update[u], answer |-> a]
<1>3. call.status = "answered" /\ call.answer # "committed"
  OBVIOUS
<1>4. update' = [update EXCEPT ![u] = call]
  BY <1>2 DEF AnswerUpdate
<1> HIDE DEF call
<1>5. /\ update'[u] = call /\ \A v \in Updaters \ {u} : update'[v] = update[v]
      /\ update' = [v \in Updaters |-> update'[v]]
  BY <1>4, OneUpdate DEF DocumentsInv
<1>6. UpdateTypes'
  BY <1>1, <1>3, <1>5 DEF DocumentsInv, UpdatePart, UpdateTypes
<1>7. SentIsCurrent' /\ LostOnlyInFlight'
  BY <1>1, <1>3, <1>5
     DEF DocumentsInv, UpdatePart, SentIsCurrent, LostOnlyInFlight, Exists, sourceVersion
<1> QED
  BY <1>1, <1>6, <1>7, QuietUpdateStep DEF UpdatePart

(* When it is sent, the document is the one its client has read.           *)
LEMMA UpdateSentKeepsAll ==
    ASSUME DocumentsInv, NEW u \in Updaters, UpdateSent(u)
    PROVE  DocumentsInv'
<1>1. /\ UNCHANGED <<world, writes, listing, batch, steady, made>>
      /\ racing' = [racing EXCEPT ![u] = {}]
      /\ update' = [update EXCEPT ![u].status = "sent"]
      /\ update[u].mode # "force" => sourceVersion(update[u].doc) = update[u].expected
  BY DEF UpdateSent, foundry, Conflict
<1>2. update[u] \in UpdateCalls
  BY UpdateCallTypes DEF UpdateSent, DocumentsInv
<1> DEFINE call == [update[u] EXCEPT !.status = "sent"]
<1>3. /\ call \in UpdateCalls /\ call.status = "sent" /\ call.doc = update[u].doc
      /\ call.mode = update[u].mode /\ call.expected = update[u].expected
  BY <1>2 DEF UpdateCalls
<1>4. update' = [update EXCEPT ![u] = call]
  BY <1>1
<1> HIDE DEF call
<1>5. /\ update'[u] = call /\ \A v \in Updaters \ {u} : update'[v] = update[v]
      /\ update' = [v \in Updaters |-> update'[v]]
  BY <1>4, OneUpdate DEF DocumentsInv
<1>6. /\ racing' \in [Updaters -> SUBSET (1 .. writes)] /\ racing'[u] = {}
      /\ \A v \in Updaters \ {u} : racing'[v] = racing[v]
  BY <1>1 DEF DocumentsInv, UpdatePart, UpdateTypes
<1>7. UpdateTypes'
  BY <1>1, <1>3, <1>5, <1>6 DEF DocumentsInv, UpdatePart, UpdateTypes
<1>8. SentIsCurrent'
  <2>1. ASSUME NEW v \in Updaters, update'[v].status = "sent", update'[v].mode # "force",
               world[update'[v].doc] # None
        PROVE  world[update'[v].doc].rev \in racing'[v] \cup {update'[v].expected}
    <3>1. CASE v = u
      BY <1>1, <1>3, <1>5, <2>1, <3>1 DEF sourceVersion
    <3>2. CASE v # u
      BY <1>5, <1>6, <2>1, <3>2
         DEF DocumentsInv, UpdatePart, SentIsCurrent, Exists, sourceVersion
    <3> QED
      BY <3>1, <3>2
  <2> QED
    BY <1>1, <2>1 DEF SentIsCurrent, Exists, sourceVersion
<1>9. LostOnlyInFlight'
  BY <1>3, <1>5, <1>6 DEF DocumentsInv, UpdatePart, LostOnlyInFlight
<1> QED
  BY <1>1, <1>7, <1>8, <1>9, QuietUpdateStep DEF UpdatePart

(* When it is applied, that document, or one written meanwhile, is what it *)
(* replaces.                                                               *)
LEMMA UpdateCommittedKeepsAll ==
    ASSUME DocumentsInv, NEW u \in Updaters, UpdateCommitted(u)
    PROVE  DocumentsInv'
<1>1. WorldPart /\ BatchPart /\ UpdatePart /\ ListingPart
  BY DEF DocumentsInv
<1>2. update[u] \in UpdateCalls /\ update[u].doc \in Docs /\ update[u].status = "sent"
      /\ Exists(update[u].doc)
  BY <1>1, UpdateCallTypes DEF UpdateCommitted, UpdateCalls
<1>3. WorldPart' /\ Rewrites /\ CreatesNothing /\ writes' \in Nat /\ writes \in Nat /\ writes <= writes'
  BY <1>1, <1>2, UpdateCommittedWorld DEF Rewrites, WorldPart
<1>4. Observe /\ UNCHANGED <<listing, batch, made>>
  BY DEF UpdateCommitted
<1>5. BatchPart' /\ ListingPart'
  BY <1>1, <1>3, <1>4, BatchSurvivesWrites, ListingSurvivesWrites
<1> DEFINE call == [status |-> "answered", call |-> update[u], answer |-> "committed",
                    replaced |-> sourceVersion(update[u].doc)]
<1>6. update' = [update EXCEPT ![u] = call]
  BY DEF UpdateCommitted
<1>7. /\ call.status = "answered" /\ call.call = update[u]
      /\ call.replaced = sourceVersion(update[u].doc)
  OBVIOUS
<1> HIDE DEF call
<1>8. /\ update'[u] = call /\ \A v \in Updaters \ {u} : update'[v] = update[v]
      /\ update' = [v \in Updaters |-> update'[v]]
  BY <1>1, <1>6, OneUpdate
<1>9. /\ racing' = [v \in Updaters |-> IF update[v].status = "sent"
                                       THEN racing[v] \cup (writes + 1 .. writes') ELSE racing[v]]
      /\ racing \in [Updaters -> SUBSET (1 .. writes)]
  BY <1>1, <1>4 DEF Observe, UpdatePart, UpdateTypes
<1>10. \A v \in Updaters : racing[v] \subseteq racing'[v] /\ racing'[v] \subseteq 1 .. writes'
  BY <1>3, <1>9
<1>11. racing' \in [Updaters -> SUBSET (1 .. writes')]
  BY <1>9, <1>10
<1>12. UpdateTypes'
  BY <1>1, <1>7, <1>8, <1>11 DEF UpdatePart, UpdateTypes
<1>13. LostOnlyInFlight'
  <2>1. update[u].mode = "force" \/ sourceVersion(update[u].doc) \in racing[u] \cup {update[u].expected}
    BY <1>1, <1>2 DEF UpdatePart, SentIsCurrent
  <2> QED
    BY <1>1, <1>7, <1>8, <1>10, <2>1 DEF UpdatePart, LostOnlyInFlight
<1>14. SentIsCurrent'
  <2>1. ASSUME NEW v \in Updaters, update'[v].status = "sent", update'[v].mode # "force",
               world'[update'[v].doc] # None
        PROVE  world'[update'[v].doc].rev \in racing'[v] \cup {update'[v].expected}
    <3>1. v # u /\ update'[v] = update[v]
      BY <1>7, <1>8, <2>1
    <3>2. update[v].doc \in Docs
      BY <1>1, <2>1, <3>1, UpdateCallTypes DEF UpdateCalls
    <3>3. CASE world'[update[v].doc] = world[update[v].doc]
      <4>1. world[update[v].doc].rev \in racing[v] \cup {update[v].expected}
        BY <1>1, <2>1, <3>1, <3>3 DEF UpdatePart, SentIsCurrent, Exists, sourceVersion
      <4> QED
        BY <1>10, <3>1, <3>3, <4>1
    <3>4. CASE world'[update[v].doc].rev \in writes + 1 .. writes'
      BY <1>9, <2>1, <3>1, <3>4
    <3> QED
      BY <1>3, <2>1, <3>1, <3>2, <3>3, <3>4 DEF Rewrites
  <2> QED
    BY <2>1 DEF SentIsCurrent, Exists, sourceVersion
<1> QED
  BY <1>3, <1>5, <1>12, <1>13, <1>14 DEF DocumentsInv, UpdatePart

----------------------------------------------------------------------------
(* The world, the batch, the updates and the listing.                      *)

(* The queries a client may ask are well typed and begin without a cursor. *)
LEMMA FreshQueries == \A q \in Queries : q \in QueryTypes /\ q.cursor = None
<1>1. ASSUME NEW k \in {"documents", "hydrated", "index"}, NEW f \in {"id", "name"},
             NEW o \in {"asc", "desc"}
      PROVE  [kind |-> k, field |-> f, direction |-> o, recursive |-> FALSE, cursor |-> None]
                \in QueryTypes
  BY DEF QueryTypes
<1>2. ASSUME NEW r \in BOOLEAN
      PROVE  [kind |-> "embedded", field |-> "id", direction |-> "asc", recursive |-> r,
              cursor |-> None] \in QueryTypes
  BY DEF QueryTypes
<1> SUFFICES ASSUME NEW q \in Queries PROVE q \in QueryTypes /\ q.cursor = None
  OBVIOUS
<1>3. \/ \E k \in {"documents", "hydrated", "index"}, f \in {"id", "name"}, o \in {"asc", "desc"} :
            q = [kind |-> k, field |-> f, direction |-> o, recursive |-> FALSE, cursor |-> None]
      \/ \E r \in BOOLEAN :
            q = [kind |-> "embedded", field |-> "id", direction |-> "asc", recursive |-> r,
                 cursor |-> None]
  BY DEF Queries
<1>4. q.cursor = None
  BY <1>3
<1> QED
  <2>1. CASE \E r \in BOOLEAN :
                q = [kind |-> "embedded", field |-> "id", direction |-> "asc", recursive |-> r,
                     cursor |-> None]
    BY <1>2, <1>4, <2>1
  <2>2. CASE \E k \in {"documents", "hydrated", "index"}, f \in {"id", "name"}, o \in {"asc", "desc"} :
                q = [kind |-> k, field |-> f, direction |-> o, recursive |-> FALSE, cursor |-> None]
    <3>1. PICK k \in {"documents", "hydrated", "index"}, f \in {"id", "name"}, o \in {"asc", "desc"} :
             q = [kind |-> k, field |-> f, direction |-> o, recursive |-> FALSE, cursor |-> None]
      BY <2>2, Zenon
    <3>2. [kind |-> k, field |-> f, direction |-> o, recursive |-> FALSE, cursor |-> None]
             \in QueryTypes
      BY <1>1, Zenon
    <3> QED
      BY <1>4, <3>1, <3>2, Zenon
  <2> QED
    BY <1>3, <2>1, <2>2

LEMMA InitDocumentsInv == Init => DocumentsInv
<1> SUFFICES ASSUME Init PROVE DocumentsInv
  OBVIOUS
<1>1. WorldPart
  <2>1. writes = 0 /\ world = [d \in Docs |-> IF \E i \in Indexes : Items[i] \in Line[d] THEN None
                                              ELSE [name |-> InitName[d], shown |-> TRUE, rev |-> 0]]
    BY DEF Init
  <2>2. world \in [Docs -> Contents(writes)]
    BY <2>1, DocsAssumption DEF Contents
  <2>3. \A d \in Docs : (\A i \in Indexes : Items[i] \notin Line[d]) => world[d] # None
    <3>1. ASSUME NEW d \in Docs, \A i \in Indexes : Items[i] \notin Line[d]
          PROVE  world[d] # None
      <4> DEFINE c == [name |-> InitName[d], shown |-> TRUE, rev |-> 0]
      <4>1. c \in [name : Names, shown : BOOLEAN, rev : 0 .. 0]
        BY DocsAssumption
      <4> HIDE DEF c
      <4>2. c # None
        BY <4>1, ContentsAreThere
      <4>3. world[d] = c
        BY <2>1, <3>1 DEF c
      <4> QED
        BY <4>2, <4>3
    <3> QED
      BY <3>1
  <2>4. \A d \in Docs : world[d] # None => \A i \in Indexes : Items[i] \notin Line[d]
    BY <2>1
  <2>5. WholeLines(world)
    BY <2>3, <2>4, LinesAreNested DEF WholeLines
  <2> QED
    BY <2>1, <2>2, <2>5 DEF WorldPart
<1>2. BatchPart
  <2>1. batch \in {Idle} \cup CalledBatches /\ made = {}
    BY DEF Init, CalledBatches
  <2>2. \A i \in Indexes : world[Items[i]] = None
    <3>1. \A i \in Indexes : Items[i] \in Docs /\ Items[i] \in Line[Items[i]]
      BY WorkAssumption, LinesAreNested DEF Indexes
    <3> QED
      BY <3>1 DEF Init
  <2>3. batch.status \in {"idle", "called"}
    BY <2>1 DEF Idle, CalledBatches
  <2>4. BatchTypes /\ BatchHistory /\ NotYetCreated
    BY <2>1, <2>2 DEF BatchTypes, BatchHistory, NotYetCreated, Exists
  <2>5. SnapshotIsOlder /\ CreatedIsKnown /\ AtomicSkipsNothing
    BY <2>3 DEF SnapshotIsOlder, CreatedIsKnown, AtomicSkipsNothing
  <2>6. BatchAnswerIsTrue
    BY <2>3 DEF BatchAnswerIsTrue
  <2> QED
    BY <2>4, <2>5, <2>6 DEF BatchPart
<1>3. UpdatePart
  <2>1. /\ \A u \in Updaters : update[u].status \in {"idle", "called"}
        /\ update = [u \in Updaters |-> update[u]]
        /\ racing \in [Updaters -> SUBSET (1 .. writes)]
    BY DEF Init, Idle
  <2> QED
    BY <2>1 DEF UpdatePart, UpdateTypes, SentIsCurrent, LostOnlyInFlight
<1>4. ListingPart
  <2> DEFINE L == [status : {"paging"}, query : Queries, complete : {TRUE}, listed : {[d \in Docs |-> 0]}]
  <2>0. /\ listing \in L \cup {Idle}
        /\ steady = IF listing = Idle THEN {} ELSE Entries(world, listing.query)
    <3>1. PICK kinds \in Work : listing \in IF "list" \in kinds THEN L ELSE {Idle}
      BY DEF Init
    <3>2. steady = IF listing = Idle THEN {} ELSE Entries(world, listing.query)
      BY DEF Init
    <3> HIDE DEF L
    <3> QED
      BY <3>1, <3>2
  <2>1. CASE listing = Idle
    <3>1. steady = {} /\ listing.status = "idle"
      <4>1. steady = {}
        BY <2>0, <2>1, Zenon
      <4>2. Idle.status = "idle"
        BY DEF Idle
      <4> QED
        BY <2>1, <4>1, <4>2
    <3> QED
      BY <2>1, <3>1 DEF ListingPart, SteadyIsListed, PassedListedOnce, EndedListedOnce
  <2>2. CASE listing # Idle
    <3>1. /\ listing \in [status : {"paging"}, query : Queries, complete : {TRUE},
                          listed : {[d \in Docs |-> 0]}]
          /\ steady = Entries(world, listing.query)
      <4>1. listing \in L /\ steady = Entries(world, listing.query)
        <5> HIDE DEF L
        <5> QED
          BY <2>0, <2>2, Zenon
      <4> QED
        BY <4>1
    <3>2. \A q \in Queries : q \in QueryTypes /\ q.cursor = None
      BY FreshQueries
    <3>3. /\ listing.query \in QueryTypes /\ listing.query.cursor = None /\ listing.status = "paging"
          /\ listing.listed = [d \in Docs |-> 0]
      BY <3>1, <3>2
    <3>4. listing \in Listings
      <4>1. [d \in Docs |-> 0] \in [Docs -> Nat]
        OBVIOUS
      <4>2. listing.listed \in [Docs -> Nat] /\ listing.complete = TRUE
        BY <3>1, <3>3, <4>1
      <4>3. listing = [status |-> listing.status, query |-> listing.query,
                       complete |-> listing.complete, listed |-> listing.listed]
        BY <3>1
      <4> QED
        BY <3>3, <4>2, <4>3 DEF Listings
    <3>5. steady \subseteq Docs
      BY <1>1, <3>1, <3>3, EntriesHaveKeys
    <3>6. PassedListedOnce
      BY <3>3, <3>5 DEF PassedListedOnce, Passed
    <3> QED
      BY <3>1, <3>3, <3>4, <3>5, <3>6 DEF ListingPart, SteadyIsListed, EndedListedOnce
  <2> QED
    BY <2>1, <2>2
<1> QED
  BY <1>1, <1>2, <1>3, <1>4 DEF DocumentsInv

LEMMA DocumentsStep == DocumentsInv /\ [Next]_vars => DocumentsInv'
<1> SUFFICES ASSUME DocumentsInv, [Next]_vars PROVE DocumentsInv'
  OBVIOUS
<1>1. CASE OtherLocks \/ \E d \in Docs : OtherWrites(d) \/ OtherDeletes(d)
  BY <1>1, OthersKeepAll
<1>2. CASE ListPage \/ ListRefused
  BY <1>2, ListStepsKeepAll
<1>3. CASE BatchRefused
  BY <1>3, BatchRefusedKeepsAll
<1>4. CASE BatchBegins
  BY <1>4, BatchBeginsKeepsAll
<1>5. CASE BatchCompleted \/ RollbackFailed
  BY <1>5, BatchEndsKeepAll
<1>6. CASE ItemSkipped \/ ItemFailed
  BY <1>6, ItemSkippedKeepsAll, ItemFailedKeepsAll
<1>7. CASE ItemCreated
  BY <1>7, ItemCreatedKeepsAll
<1>8. CASE BatchRolledBack
  BY <1>8, BatchRolledBackKeepsAll
<1>9. ASSUME NEW u \in Updaters, NEW d \in Targets, Read(u, d) PROVE DocumentsInv'
  BY <1>9, ReadKeepsAll
<1>10. ASSUME NEW u \in Updaters, UpdateRefused(u) \/ UpdateFailed(u) PROVE DocumentsInv'
  BY <1>10, UpdateAnsweredKeepsAll
<1>11. ASSUME NEW u \in Updaters, UpdateSent(u) PROVE DocumentsInv'
  BY <1>11, UpdateSentKeepsAll
<1>12. ASSUME NEW u \in Updaters, UpdateCommitted(u) PROVE DocumentsInv'
  BY <1>12, UpdateCommittedKeepsAll
<1>13. CASE UNCHANGED vars
  BY <1>13, SameWorld, SameBatch, SameUpdates, SameListing DEF DocumentsInv, vars, foundry, history
<1> QED
  BY <1>1, <1>2, <1>3, <1>4, <1>5, <1>6, <1>7, <1>8, <1>9, <1>10, <1>11, <1>12, <1>13 DEF Next

----------------------------------------------------------------------------
(* The snapshot.                                                           *)

LEMMA PathEnds ==
    ASSUME NEW p \in Seq(Docs), NEW d \in Docs
    PROVE  Append(p, d) \in Paths /\ Last(Append(p, d)) = d
  BY DEF Paths, Last

LEMMA SequenceShape ==
    ASSUME NEW S, NEW f \in Seq(S)
    PROVE  Len(f) \in Nat /\ DOMAIN f = 1 .. Len(f) /\ \A k \in DOMAIN f : f[k] \in S
  OBVIOUS

LEMMA PathsAreSequences ==
    ASSUME NEW p \in Paths
    PROVE  /\ p \in Seq(Docs) /\ Last(p) \in Docs
           /\ Len(Fields[Last(p)]) \in Nat
           /\ DOMAIN Fields[Last(p)] = 1 .. Len(Fields[Last(p)])
           /\ \A k \in DOMAIN Fields[Last(p)] : Fields[Last(p)][k].refs \subseteq Docs
<1> DEFINE S == [array : BOOLEAN, refs : SUBSET Docs]
<1>1. p \in Seq(Docs) /\ Last(p) \in Docs
  BY DEF Paths, Last
<1>2. Fields[Last(p)] \in Seq(S)
  BY <1>1, SnapshotAssumption
<1>3. \A r \in S : r.refs \subseteq Docs
  OBVIOUS
<1> HIDE DEF S
<1>4. /\ Len(Fields[Last(p)]) \in Nat
      /\ DOMAIN Fields[Last(p)] = 1 .. Len(Fields[Last(p)])
      /\ \A k \in DOMAIN Fields[Last(p)] : Fields[Last(p)][k] \in S
  BY <1>2, SequenceShape
<1> QED
  BY <1>1, <1>3, <1>4

(* What is settled stays settled: the result only grows, fewer and fewer   *)
(* documents have been readable all the time, and more and more met a      *)
(* budget used up.                                                         *)
LEMMA SettledStays ==
    ASSUME NEW p, NEW d, Settled(p, d), expanded \subseteq expanded', readable' \subseteq readable,
           refused \subseteq refused'
    PROVE  Settled(p, d)'
  BY DEF Settled, Cycle

LEMMA WorldStepKeepsSnapshot ==
    ASSUME SnapshotPart, readable' = {d \in readable : canRead(world', d)},
           UNCHANGED <<snap, tasks, itemCount, bytes, work, reasons, expanded, refused>>
    PROVE  SnapshotPart'
<1>1. SnapTypes' /\ RoomWhileCollecting' /\ ExpandingIsExpanded' /\ BytesLeft'
      /\ NoTaskAfterTheEnd' /\ NothingBeforeTheStart'
  <2>1. SnapTypes'
    BY DEF SnapshotPart, SnapTypes, TaskTypes, QueryTypes
  <2>2. RoomWhileCollecting' /\ ExpandingIsExpanded' /\ BytesLeft'
    BY DEF SnapshotPart, RoomWhileCollecting, ExpandingIsExpanded, BytesLeft
  <2> QED
    BY <2>1, <2>2 DEF SnapshotPart, NoTaskAfterTheEnd, NothingBeforeTheStart
<1>2. ReadableIsRead'
  BY DEF SnapshotPart, ReadableIsRead
<1>3. \A p, d : Settled(p, d) \/ Pending(p, d) => Settled(p, d)' \/ Pending(p, d)'
  BY SettledStays DEF Pending
<1>4. \A p, k : FieldFollowed(p, k) \/ FieldWaits(p, k) => FieldFollowed(p, k)' \/ FieldWaits(p, k)'
  BY <1>3 DEF FieldFollowed, FieldWaits
<1>5. NothingForgotten'
  BY <1>4 DEF SnapshotPart, NothingForgotten
<1> QED
  BY <1>1, <1>2, <1>5 DEF SnapshotPart

(* A step about one task: what is left to show is where its path goes.     *)
LEMMA TaskStep ==
    ASSUME SnapshotPart, readable' = readable, UNCHANGED <<world, snap>>,
           snap.status = "expanding", reasons \subseteq reasons', expanded \subseteq expanded', refused \subseteq refused',
           NEW t \in tasks,
           SnapTypes', ExpandingIsExpanded', BytesLeft',
           tasks \ {t} \subseteq tasks',
           reasons' = {} => \A p \in Seq(Docs), d \in Docs : t.path = Append(p, d) =>
                                Settled(p, d)' \/ Pending(p, d)',
           reasons' = {} => \A p \in expanded : \A k \in DOMAIN Fields[Last(p)] :
                                t.path = p /\ t.stage = "expanding" /\ t.field <= k =>
                                    FieldFollowed(p, k)' \/ FieldWaits(p, k)',
           reasons' = {} => \A p \in expanded' \ expanded : \A k \in DOMAIN Fields[Last(p)] :
                                FieldFollowed(p, k)' \/ FieldWaits(p, k)'
    PROVE  SnapshotPart'
<1>1. RoomWhileCollecting' /\ ReadableIsRead' /\ NoTaskAfterTheEnd' /\ NothingBeforeTheStart'
  BY DEF SnapshotPart, RoomWhileCollecting, ReadableIsRead, NoTaskAfterTheEnd, NothingBeforeTheStart,
         canRead
<1>2. NothingForgotten'
  <2> SUFFICES ASSUME reasons' = {}, NEW p \in expanded, NEW k \in DOMAIN Fields[Last(p)]
               PROVE  FieldFollowed(p, k)' \/ FieldWaits(p, k)'
    BY DEF NothingForgotten
  <2>1. reasons = {} /\ p \in Paths
    BY DEF SnapshotPart, SnapTypes
  <2>2. FieldFollowed(p, k) \/ FieldWaits(p, k)
    BY <2>1 DEF SnapshotPart, NothingForgotten
  <2>3. CASE FieldWaits(p, k)
    <3>1. PICK u \in tasks : u.path = p /\ u.stage = "expanding" /\ u.field <= k
      BY <2>3 DEF FieldWaits
    <3>2. CASE u = t
      BY <3>1, <3>2
    <3>3. CASE u # t
      BY <3>1, <3>3 DEF FieldWaits
    <3> QED
      BY <3>2, <3>3
  <2>4. CASE FieldFollowed(p, k)
    <3>1. Fields[Last(p)][k].refs \subseteq Docs /\ p \in Seq(Docs)
      BY <2>1, PathsAreSequences
    <3>2. ASSUME NEW d \in Fields[Last(p)][k].refs
          PROVE  Settled(p, d)' \/ Pending(p, d)'
      <4>1. CASE Settled(p, d)
        BY <4>1, SettledStays
      <4>2. CASE Pending(p, d)
        <5>1. PICK u \in tasks : u.path = Append(p, d)
          BY <4>2 DEF Pending
        <5>2. CASE u = t
          BY <3>1, <5>1, <5>2
        <5>3. CASE u # t
          BY <5>1, <5>3 DEF Pending
        <5> QED
          BY <5>2, <5>3
      <4> QED
        BY <2>4, <4>1, <4>2 DEF FieldFollowed
    <3> QED
      BY <3>2 DEF FieldFollowed
  <2> QED
    BY <2>2, <2>3, <2>4
<1> QED
  BY <1>1, <1>2 DEF SnapshotPart

LEMMA TaskIsExpanding ==
    ASSUME SnapshotPart, NEW t \in tasks
    PROVE  /\ snap.status = "expanding" /\ t \in TaskTypes
           /\ snap \in [status : {"collecting", "expanding", "answered", "failed"},
                        uuids : Seq(Docs), query : QueryTypes]
<1>1. snap.status \notin {"answered", "failed", "idle", "collecting"}
  BY DEF SnapshotPart, NoTaskAfterTheEnd, NothingBeforeTheStart
<1>2. CASE snap = Idle
  BY <1>1, <1>2 DEF Idle
<1>3. CASE snap \in [status : {"collecting", "expanding", "answered", "failed"},
                     uuids : Seq(Docs), query : QueryTypes]
  BY <1>1, <1>3 DEF SnapshotPart, SnapTypes
<1> QED
  BY <1>2, <1>3 DEF SnapshotPart, SnapTypes

LEMMA EnterKeepsSnapshot ==
    ASSUME SnapshotPart, NEW t \in tasks, Enter(t)
    PROVE  SnapshotPart'
<1>1. /\ t.stage = "referred" /\ reasons' = reasons \cup CutReasons(t)
      /\ UNCHANGED <<snap, bytes, expanded, readable, refused, world>>
  BY DEF Enter, NoteCut, vars, foundry
<1> DEFINE u == [t EXCEPT !.stage = "resolving"]
<1>2. \/ CutReasons(t) = {} /\ tasks' = (tasks \ {t}) \cup {u}
      \/ CutReasons(t) # {} /\ tasks' = tasks \ {t}
  BY DEF Enter, Replaced, Dropped
<1>3. t \in TaskTypes /\ snap.status = "expanding"
  BY TaskIsExpanding
<1>4. u \in TaskTypes /\ u.path = t.path /\ u.stage = "resolving"
  BY <1>3 DEF TaskTypes
<1> HIDE DEF u
<1>5. SnapTypes'
  BY <1>1, <1>2, <1>4 DEF SnapshotPart, SnapTypes, TaskTypes, QueryTypes
<1>6. ExpandingIsExpanded' /\ BytesLeft'
  BY <1>1, <1>2, <1>4 DEF SnapshotPart, ExpandingIsExpanded, BytesLeft
<1>7. reasons' = {} => u \in tasks'
  BY <1>1, <1>2
<1>8. reasons' = {} => \A p \in Seq(Docs), d \in Docs : t.path = Append(p, d) => Pending(p, d)'
  BY <1>4, <1>7 DEF Pending
<1> QED
  BY <1>1, <1>2, <1>3, <1>5, <1>6, <1>8, TaskStep

(* A document that was not readable all the time, is rejected or met a     *)
(* budget used up: its reference is settled without it.                    *)
LEMMA DroppedReference ==
    ASSUME SnapshotPart, NEW t \in tasks, t.stage = "resolving", tasks' = tasks \ {t},
           Uuid(t) \notin readable \/ Uuid(t) \in Unbounded \/ t.path \in refused',
           UNCHANGED <<snap, expanded, readable, world>>,
           bytes' \in 0 .. MaxBytes, reasons \subseteq reasons', refused \subseteq refused',
           reasons' = {} => bytes' < MaxBytes
    PROVE  SnapshotPart'
<1>1. t \in TaskTypes /\ snap.status = "expanding"
  BY TaskIsExpanding
<1>2. SnapTypes'
  BY DEF SnapshotPart, SnapTypes, TaskTypes, QueryTypes
<1>3. ExpandingIsExpanded' /\ BytesLeft'
  BY DEF SnapshotPart, ExpandingIsExpanded, BytesLeft
<1>4. ASSUME NEW p \in Seq(Docs), NEW d \in Docs, t.path = Append(p, d)
      PROVE  Settled(p, d)'
  BY <1>4, PathEnds DEF Settled, Uuid
<1> QED
  BY <1>1, <1>2, <1>3, <1>4, TaskStep

LEMMA ResolveUnreadableKeepsSnapshot ==
    ASSUME SnapshotPart, NEW t \in tasks, ResolveUnreadable(t)
    PROVE  SnapshotPart'
<1>1. Uuid(t) \notin readable
  BY DEF SnapshotPart, ReadableIsRead, ResolveUnreadable
<1>2. /\ t.stage = "resolving" /\ tasks' = tasks \ {t}
      /\ UNCHANGED <<snap, bytes, reasons, expanded, readable, refused, world>>
  BY DEF ResolveUnreadable, Dropped, vars, foundry
<1>3. bytes \in 0 .. MaxBytes /\ (reasons = {} => bytes < MaxBytes)
  BY DEF SnapshotPart, SnapTypes, BytesLeft
<1> QED
  BY <1>1, <1>2, <1>3, DroppedReference

(* The bytes a document may take are there.                                *)
LEMMA KeptFit ==
    ASSUME SnapshotPart, NEW d \in Docs
    PROVE  LET kept == KeptFields(d)
           IN  /\ kept \in Nat /\ bytes + kept \in 0 .. MaxBytes /\ kept <= Len(Fields[d])
               /\ bytes + kept < MaxBytes => kept = Len(Fields[d])
<1>1. bytes \in 0 .. MaxBytes /\ MaxBytes \in Nat \ {0}
  BY SnapshotAssumption DEF SnapshotPart, SnapTypes
<1>2. Len(Fields[d]) \in Nat
  <2> DEFINE S == [array : BOOLEAN, refs : SUBSET Docs]
  <2>1. Fields[d] \in Seq(S)
    BY SnapshotAssumption
  <2> HIDE DEF S
  <2> QED
    BY <2>1, SequenceShape
<1> QED
  BY <1>1, <1>2 DEF KeptFields

LEMMA ResolveFailedKeepsSnapshot ==
    ASSUME SnapshotPart, NEW t \in tasks, ResolveFailed(t)
    PROVE  SnapshotPart'
<1>1. t.stage = "resolving" /\ UNCHANGED <<expanded, readable, world>>
  BY DEF ResolveFailed, vars, foundry
<1>2. bytes \in 0 .. MaxBytes /\ (reasons = {} => bytes < MaxBytes) /\ MaxBytes \in Nat
  BY SnapshotAssumption DEF SnapshotPart, SnapTypes, BytesLeft
<1>3. Uuid(t) \in Docs
  BY TaskIsExpanding, PathsAreSequences DEF TaskTypes, Uuid
<1>4. /\ bytes' \in 0 .. MaxBytes /\ reasons \subseteq reasons' /\ refused \subseteq refused'
      /\ reasons' = {} => bytes' < MaxBytes
  <2>1. CASE Exists(Uuid(t))
    <3>1. /\ \E n \in 0 .. KeptFields(Uuid(t)) : reserveSnapshotBytes(n)
          /\ refused \subseteq refused'
      BY <2>1 DEF ResolveFailed
    <3>2. PICK n \in 0 .. KeptFields(Uuid(t)) : reserveSnapshotBytes(n)
      BY <3>1
    <3>3. KeptFields(Uuid(t)) \in Nat /\ bytes + KeptFields(Uuid(t)) \in 0 .. MaxBytes
      BY <1>3, KeptFit
    <3>4. bytes' = bytes + n /\ bytes' \in 0 .. MaxBytes
      BY <1>2, <3>2, <3>3 DEF reserveSnapshotBytes
    <3>5. reasons' = IF bytes' >= MaxBytes THEN reasons \cup {"maxBytes"} ELSE reasons
      BY <3>2 DEF reserveSnapshotBytes
    <3> QED
      BY <1>2, <3>1, <3>4, <3>5
  <2>2. CASE ~Exists(Uuid(t))
    <3>1. UNCHANGED <<bytes, reasons, refused>>
      BY <2>2 DEF ResolveFailed
    <3> QED
      BY <1>2, <3>1
  <2> QED
    BY <2>1, <2>2
<1>5. CASE Nested(t)
  <2>1. tasks' = tasks \ {t} /\ snap' = snap
    BY <1>5 DEF ResolveFailed, Dropped
  <2>2. Uuid(t) \notin readable \/ Uuid(t) \in Unbounded \/ t.path \in refused'
    BY DEF SnapshotPart, ReadableIsRead, ResolveFailed, ResolveFails, canRead, Exists
  <2> QED
    BY <1>1, <1>4, <2>1, <2>2, DroppedReference
<1>6. CASE ~Nested(t)
  <2>1. tasks' = {} /\ snap' = [snap EXCEPT !.status = "failed"]
    BY <1>6 DEF ResolveFailed
  <2>2. /\ snap' \in [status : {"collecting", "expanding", "answered", "failed"},
                      uuids : Seq(Docs), query : QueryTypes]
        /\ snap'.status = "failed"
    BY <2>1, TaskIsExpanding
  <2>3. SnapTypes' /\ BytesLeft'
    BY <1>1, <1>4, <2>1, <2>2 DEF SnapshotPart, SnapTypes, TaskTypes, QueryTypes, BytesLeft
  <2> QED
    BY <1>1, <2>1, <2>2, <2>3
       DEF SnapshotPart, RoomWhileCollecting, ReadableIsRead, ExpandingIsExpanded,
           NoTaskAfterTheEnd, NothingBeforeTheStart, NothingForgotten, canRead
<1> QED
  BY <1>5, <1>6

(* The document joins the result, and every field of it waits.             *)
LEMMA ResolveKeepsSnapshot ==
    ASSUME SnapshotPart, NEW t \in tasks, Resolve(t)
    PROVE  SnapshotPart'
<1> DEFINE kept == KeptFields(Uuid(t))
           u == [t EXCEPT !.stage = "expanding", !.field = 1, !.kept = kept]
<1>1. /\ t.stage = "resolving" /\ UNCHANGED <<snap, readable, refused, world>>
      /\ bytes' = bytes + kept
      /\ reasons' = IF bytes' >= MaxBytes THEN reasons \cup {"maxBytes"} ELSE reasons
      /\ tasks' = (tasks \ {t}) \cup {u}
      /\ expanded' = expanded \cup {t.path}
  BY DEF Resolve, reserveSnapshotBytes, Replaced, vars, foundry
<1>2. t \in TaskTypes /\ snap.status = "expanding" /\ t.path \in Paths
  BY TaskIsExpanding DEF TaskTypes
<1>3. bytes \in 0 .. MaxBytes /\ MaxBytes \in Nat \ {0}
  BY SnapshotAssumption DEF SnapshotPart, SnapTypes
<1>4. Last(t.path) \in Docs
  BY <1>2, PathsAreSequences
<1>5. /\ kept \in Nat /\ bytes + kept \in 0 .. MaxBytes /\ kept <= Len(Fields[Last(t.path)])
      /\ bytes + kept < MaxBytes => kept = Len(Fields[Last(t.path)])
  BY <1>4, KeptFit DEF Uuid
<1> HIDE DEF kept
<1>6. /\ u \in TaskTypes /\ u.path = t.path /\ u.stage = "expanding"
      /\ u.field = 1 /\ u.kept = kept
  BY <1>2, <1>5 DEF TaskTypes
<1> HIDE DEF u
<1>7. SnapTypes'
  BY <1>1, <1>2, <1>5, <1>6 DEF SnapshotPart, SnapTypes, TaskTypes, QueryTypes
<1>8. reasons \subseteq reasons' /\ (reasons' = {} => reasons = {} /\ bytes' < MaxBytes)
  BY <1>1, <1>3, <1>5
<1>9. BytesLeft'
  BY <1>8 DEF BytesLeft
<1>10. ExpandingIsExpanded'
  BY <1>1, <1>5, <1>6, <1>8 DEF SnapshotPart, ExpandingIsExpanded
<1>11. \A p \in Seq(Docs), d \in Docs : t.path = Append(p, d) => Pending(p, d)'
  BY <1>1, <1>6 DEF Pending
<1>12. \A k \in DOMAIN Fields[Last(t.path)] : FieldWaits(t.path, k)'
  BY <1>1, <1>2, <1>6, PathsAreSequences DEF FieldWaits
<1> QED
  BY <1>1, <1>2, <1>7, <1>8, <1>9, <1>10, <1>11, <1>12, TaskStep

(* Every reference of the field is followed, or it closes a cycle, or it   *)
(* is to a document that does not exist.                                   *)
LEMMA ExpandFieldKeepsSnapshot ==
    ASSUME SnapshotPart, NEW t \in tasks, ExpandField(t)
    PROVE  SnapshotPart'
<1> DEFINE field == Fields[Uuid(t)][t.field]
           cut   == field.array /\ t.depth + 1 >= SnapshotDepth
           paths == {Append(t.path, d) : d \in {e \in field.refs : Exists(e)}}
           depth == t.depth + IF field.array THEN 3 ELSE 2
           u == [t EXCEPT !.field = @ + 1]
           begun == IF cut THEN {} ELSE {Task(p, depth) : p \in {q \in paths : ~Cycle(q)}}
<1>1. /\ t.stage = "expanding" /\ t.field <= t.kept
      /\ UNCHANGED <<snap, bytes, expanded, readable, refused, world>>
      /\ reasons' = IF cut THEN reasons \cup {"maxDepth"} ELSE reasons
      /\ tasks' = (tasks \ {t}) \cup {u} \cup begun
  BY DEF ExpandField, vars, foundry
<1>2. t \in TaskTypes /\ snap.status = "expanding" /\ t.path \in Paths
      /\ t.depth \in Nat /\ t.field \in Nat /\ t.kept \in Nat
  BY TaskIsExpanding DEF TaskTypes
<1>3. t.path \in expanded /\ t.field >= 1 /\ t.kept <= Len(Fields[Last(t.path)])
  BY <1>1 DEF SnapshotPart, ExpandingIsExpanded
<1>4. field.refs \subseteq Docs /\ t.path \in Seq(Docs)
  BY <1>1, <1>2, <1>3, PathsAreSequences DEF Uuid
<1>5. depth \in Nat
  BY <1>2
<1>6. /\ u \in TaskTypes /\ u.path = t.path /\ u.stage = "expanding"
      /\ u.field = t.field + 1 /\ u.kept = t.kept
  <2>1. ASSUME NEW n \in Nat
        PROVE  /\ [t EXCEPT !.field = n] \in TaskTypes
               /\ [t EXCEPT !.field = n].path = t.path /\ [t EXCEPT !.field = n].stage = t.stage
               /\ [t EXCEPT !.field = n].field = n /\ [t EXCEPT !.field = n].kept = t.kept
    BY <1>2 DEF TaskTypes
  <2>2. t.field + 1 \in Nat /\ u = [t EXCEPT !.field = t.field + 1]
    BY <1>2
  <2> HIDE DEF u
  <2> QED
    BY <1>1, <2>1, <2>2
<1> HIDE DEF u, depth
<1>7. \A p \in paths : p \in Paths
  BY <1>4, PathEnds
<1>8. \A c \in begun : c \in TaskTypes /\ c.stage = "referred"
  <2>1. ASSUME NEW p \in Paths PROVE Task(p, depth) \in TaskTypes /\ Task(p, depth).stage = "referred"
    BY <1>5 DEF Task, TaskTypes
  <2> QED
    BY <1>7, <2>1
<1>9. ~cut => \A d \in field.refs :
                 ~Exists(d) \/ Cycle(Append(t.path, d)) \/ \E c \in begun : c.path = Append(t.path, d)
  <2>1. ASSUME NEW p PROVE Task(p, depth).path = p
    BY DEF Task
  <2> QED
    BY <2>1
<1> HIDE DEF begun, cut, paths
<1>10. reasons \subseteq reasons' /\ (reasons' = {} => reasons = {} /\ ~cut)
  BY <1>1
<1>11. SnapTypes'
  BY <1>1, <1>6, <1>8 DEF SnapshotPart, SnapTypes, TaskTypes, QueryTypes
<1>12. BytesLeft'
  BY <1>1, <1>10 DEF SnapshotPart, BytesLeft
<1>13. ExpandingIsExpanded'
  <2>1. reasons = {} => t.kept = Len(Fields[Last(t.path)])
    BY <1>1 DEF SnapshotPart, ExpandingIsExpanded
  <2> QED
    BY <1>1, <1>2, <1>3, <1>6, <1>8, <1>10, <2>1 DEF SnapshotPart, ExpandingIsExpanded
<1>14. \A p \in Seq(Docs), d \in Docs : t.path = Append(p, d) => Pending(p, d)'
  BY <1>1, <1>6 DEF Pending
<1>15. ASSUME reasons' = {} PROVE FieldFollowed(t.path, t.field)'
  <2>1. ASSUME NEW d \in field.refs PROVE Settled(t.path, d)' \/ Pending(t.path, d)'
    <3>1. CASE ~Exists(d)
      <4>1. d \notin readable
        BY <3>1 DEF SnapshotPart, ReadableIsRead, canRead, Exists
      <4> QED
        BY <1>1, <4>1 DEF Settled
    <3>2. CASE Cycle(Append(t.path, d))
      BY <3>2 DEF Settled, Cycle
    <3>3. CASE \E c \in begun : c.path = Append(t.path, d)
      BY <1>1, <3>3 DEF Pending
    <3> QED
      BY <1>9, <1>10, <1>15, <3>1, <3>2, <3>3
  <2> QED
    BY <2>1 DEF FieldFollowed, Uuid
<1>16. ASSUME reasons' = {}, NEW k \in DOMAIN Fields[Last(t.path)], t.field <= k
       PROVE  FieldFollowed(t.path, k)' \/ FieldWaits(t.path, k)'
  <2>1. CASE k = t.field
    BY <1>15, <1>16, <2>1
  <2>2. CASE k # t.field
    <3>1. t.field + 1 <= k
      BY <1>2, <1>16, <2>2, PathsAreSequences
    <3> QED
      BY <1>1, <1>6, <3>1 DEF FieldWaits
  <2> QED
    BY <2>1, <2>2
<1> QED
  BY <1>1, <1>2, <1>10, <1>11, <1>12, <1>13, <1>14, <1>16, TaskStep

(* No field is left that would wait.                                       *)
LEMMA ExpandedKeepsSnapshot ==
    ASSUME SnapshotPart, NEW t \in tasks, Expanded(t)
    PROVE  SnapshotPart'
<1>1. /\ t.stage = "expanding" /\ t.field > t.kept /\ tasks' = tasks \ {t}
      /\ UNCHANGED <<snap, bytes, expanded, readable, refused, world, reasons>>
  BY DEF Expanded, Dropped, vars, foundry
<1>2. t \in TaskTypes /\ snap.status = "expanding" /\ t.path \in Paths
      /\ t.field \in Nat /\ t.kept \in Nat
  BY TaskIsExpanding DEF TaskTypes
<1>3. t.path \in expanded /\ (reasons = {} => t.kept = Len(Fields[Last(t.path)]))
  BY <1>1 DEF SnapshotPart, ExpandingIsExpanded
<1>4. SnapTypes'
  BY <1>1 DEF SnapshotPart, SnapTypes, TaskTypes, QueryTypes
<1>5. ExpandingIsExpanded' /\ BytesLeft'
  BY <1>1 DEF SnapshotPart, ExpandingIsExpanded, BytesLeft
<1>6. \A p \in Seq(Docs), d \in Docs : t.path = Append(p, d) => Settled(p, d)'
  BY <1>1, <1>3 DEF Settled
<1>7. ASSUME reasons' = {}, NEW k \in DOMAIN Fields[Last(t.path)], t.field <= k
      PROVE  FALSE
  BY <1>1, <1>2, <1>3, <1>7, PathsAreSequences
<1> QED
  BY <1>1, <1>2, <1>4, <1>5, <1>6, <1>7, TaskStep

(* The next document of the query: a task, but no expansion yet.           *)
LEMMA BeginKeepsSnapshot ==
    ASSUME SnapshotPart, Begin
    PROVE  SnapshotPart'
<1> DEFINE t == Task(<<Head(snap.uuids)>>, 0)
<1>1. /\ snap.status = "expanding" /\ tasks = {} /\ snap.uuids # <<>>
      /\ tasks' = {t} /\ snap' = [snap EXCEPT !.uuids = Tail(@)]
      /\ UNCHANGED <<bytes, reasons, expanded, readable, refused, world>>
  BY DEF Begin, vars, foundry
<1>2. snap \in [status : {"collecting", "expanding", "answered", "failed"},
                uuids : Seq(Docs), query : QueryTypes]
  BY <1>1 DEF SnapshotPart, SnapTypes, Idle
<1>3. snap.uuids \in Seq(Docs) /\ Head(snap.uuids) \in Docs /\ Tail(snap.uuids) \in Seq(Docs)
  <2>1. ASSUME NEW s \in Seq(Docs), s # <<>> PROVE Head(s) \in Docs /\ Tail(s) \in Seq(Docs)
    BY <2>1
  <2> QED
    BY <1>1, <1>2, <2>1
<1>4. <<Head(snap.uuids)>> \in Paths
  BY <1>3 DEF Paths
<1>5. t \in TaskTypes /\ t.stage = "referred"
  BY <1>4 DEF Task, TaskTypes
<1> HIDE DEF t
<1>6. /\ snap' \in [status : {"collecting", "expanding", "answered", "failed"},
                    uuids : Seq(Docs), query : QueryTypes]
      /\ snap'.status = "expanding"
  BY <1>1, <1>2, <1>3
<1>7. SnapTypes'
  BY <1>1, <1>5, <1>6 DEF SnapshotPart, SnapTypes, TaskTypes, QueryTypes
<1>8. /\ RoomWhileCollecting' /\ ReadableIsRead' /\ ExpandingIsExpanded' /\ BytesLeft'
      /\ NoTaskAfterTheEnd' /\ NothingBeforeTheStart'
  BY <1>1, <1>5, <1>6
     DEF SnapshotPart, RoomWhileCollecting, ReadableIsRead, ExpandingIsExpanded, BytesLeft,
         NoTaskAfterTheEnd, NothingBeforeTheStart, canRead
<1>9. \A p, d : Settled(p, d) \/ Pending(p, d) => Settled(p, d)'
  BY <1>1, SettledStays DEF Pending
<1>10. \A p, k : FieldFollowed(p, k) \/ FieldWaits(p, k) => FieldFollowed(p, k)'
  BY <1>1, <1>9 DEF FieldFollowed, FieldWaits
<1>11. NothingForgotten'
  BY <1>1, <1>10 DEF SnapshotPart, NothingForgotten
<1> QED
  BY <1>7, <1>8, <1>11 DEF SnapshotPart

(* The pages of the query: nothing is expanded yet.                        *)
LEMMA CollectKeepsSnapshot ==
    ASSUME WorldPart, SnapshotPart, Collect
    PROVE  SnapshotPart'
<1> DEFINE room == MaxItems - Len(snap.uuids)
           page == Page(snap.query, room)
           more == NextCursor(snap.query, room)
<1>1. /\ snap.status = "collecting"
      /\ UNCHANGED <<tasks, bytes, expanded, readable, refused, world>>
  BY DEF Collect, vars, foundry
<1>2. PICK sorted \in InOrder(snap.query, page) :
         LET last == more = None \/ Len(snap.uuids \o sorted) >= MaxItems
         IN  /\ snap' = [snap EXCEPT !.uuids = @ \o sorted, !.query.cursor = more,
                                     !.status = IF last THEN "expanding" ELSE @]
             /\ reasons' = IF last /\ more # None THEN reasons \cup {"maxItems"} ELSE reasons
  BY DEF Collect
<1>3. /\ snap \in [status : {"collecting", "expanding", "answered", "failed"},
                   uuids : Seq(Docs), query : QueryTypes]
      /\ tasks = {} /\ expanded = {} /\ Len(snap.uuids) < MaxItems /\ MaxItems \in Nat
  BY <1>1, SnapshotAssumption DEF SnapshotPart, SnapTypes, RoomWhileCollecting, NothingBeforeTheStart, Idle
<1>4. /\ snap.query \in QueryTypes /\ snap.uuids \in Seq(Docs) /\ room \in Nat \ {0}
  BY <1>3
<1>5. more \in (Nat \X Nat) \cup {None}
  BY <1>4, PageIsFirst
<1>6. sorted \in Seq(Docs)
  <2>1. page \in SUBSET Docs
    BY <1>4, EntriesHaveKeys DEF Page, AfterCursor
  <2>2. Cardinality(page) \in Nat
    BY <2>1, DocsFinite
  <2>3. sorted \in [1 .. Cardinality(page) -> page]
    BY <1>2 DEF InOrder
  <2> HIDE DEF page
  <2> QED
    BY <2>1, <2>2, <2>3
<1> HIDE DEF room, page, more
<1>7. snap.uuids \o sorted \in Seq(Docs)
  BY <1>4, <1>6
<1>8. [snap.query EXCEPT !.cursor = more] \in QueryTypes
  BY <1>4, <1>5, CursorOnly
<1>9. PICK last \in BOOLEAN :
         /\ last <=> (more = None \/ Len(snap.uuids \o sorted) >= MaxItems)
         /\ snap'.status = IF last THEN "expanding" ELSE "collecting"
         /\ snap'.uuids = snap.uuids \o sorted
         /\ snap' \in [status : {"collecting", "expanding", "answered", "failed"},
                       uuids : Seq(Docs), query : QueryTypes]
         /\ reasons \subseteq reasons'
  <2> DEFINE end == more = None \/ Len(snap.uuids \o sorted) >= MaxItems
             r == [snap.query EXCEPT !.cursor = more]
             us == snap.uuids \o sorted
             st == IF end THEN "expanding" ELSE "collecting"
  <2>1. snap' = [snap EXCEPT !.uuids = us, !.query = r, !.status = st]
    BY <1>1, <1>2, <1>3
  <2>2. reasons \subseteq reasons'
    BY <1>2
  <2>3. st \in {"collecting", "expanding"} /\ us \in Seq(Docs) /\ r \in QueryTypes
    BY <1>7, <1>8
  <2> HIDE DEF st, us, r
  <2>4. /\ snap' \in [status : {"collecting", "expanding", "answered", "failed"},
                      uuids : Seq(Docs), query : QueryTypes]
        /\ snap'.status = st /\ snap'.uuids = us
    BY <1>3, <2>1, <2>3
  <2> WITNESS end \in BOOLEAN
  <2> QED
    BY <2>2, <2>4 DEF st, us
<1>10. RoomWhileCollecting'
  <2>1. Len(snap.uuids \o sorted) \in Nat
    BY <1>7
  <2> QED
    BY <1>3, <1>9, <2>1 DEF RoomWhileCollecting
<1>11. SnapTypes'
  BY <1>1, <1>3, <1>9 DEF SnapshotPart, SnapTypes, TaskTypes, QueryTypes
<1>12. /\ ReadableIsRead' /\ ExpandingIsExpanded' /\ BytesLeft'
       /\ NoTaskAfterTheEnd' /\ NothingBeforeTheStart' /\ NothingForgotten'
  BY <1>1, <1>3, <1>9
     DEF SnapshotPart, ReadableIsRead, ExpandingIsExpanded, BytesLeft, NoTaskAfterTheEnd,
         NothingBeforeTheStart, NothingForgotten, canRead
<1> QED
  BY <1>10, <1>11, <1>12 DEF SnapshotPart

(* An answer that leaves documents out says so.                            *)
LEMMA AnswerKeepsSnapshot ==
    ASSUME SnapshotPart, Answer
    PROVE  SnapshotPart'
<1>1. /\ snap.status = "expanding" /\ tasks = {} /\ tasks' = {}
      /\ snap' = [snap EXCEPT !.status = "answered"]
      /\ UNCHANGED <<bytes, readable, refused, world>>
      /\ expanded' \subseteq expanded /\ reasons \subseteq reasons'
      /\ reasons' = {} => expanded' = expanded
  BY DEF Answer, vars, foundry
<1>2. snap \in [status : {"collecting", "expanding", "answered", "failed"},
                uuids : Seq(Docs), query : QueryTypes]
  BY <1>1 DEF SnapshotPart, SnapTypes, Idle
<1>3. /\ snap' \in [status : {"collecting", "expanding", "answered", "failed"},
                    uuids : Seq(Docs), query : QueryTypes]
      /\ snap'.status = "answered"
  BY <1>1, <1>2
<1>4. SnapTypes'
  BY <1>1, <1>3 DEF SnapshotPart, SnapTypes, TaskTypes, QueryTypes
<1>5. /\ RoomWhileCollecting' /\ ReadableIsRead' /\ ExpandingIsExpanded' /\ BytesLeft'
      /\ NoTaskAfterTheEnd' /\ NothingBeforeTheStart'
  BY <1>1, <1>3
     DEF SnapshotPart, RoomWhileCollecting, ReadableIsRead, ExpandingIsExpanded, BytesLeft,
         NoTaskAfterTheEnd, NothingBeforeTheStart, canRead
<1>6. NothingForgotten'
  <2> SUFFICES ASSUME reasons' = {} PROVE NothingForgotten'
    BY DEF NothingForgotten
  <2>1. expanded' = expanded /\ reasons = {}
    BY <1>1
  <2>2. \A p, d : Settled(p, d) \/ Pending(p, d) => Settled(p, d)'
    BY <1>1, <2>1, SettledStays DEF Pending
  <2>3. \A p, k : FieldFollowed(p, k) \/ FieldWaits(p, k) => FieldFollowed(p, k)'
    BY <1>1, <2>2 DEF FieldFollowed, FieldWaits
  <2> QED
    BY <1>1, <2>1, <2>3 DEF SnapshotPart, NothingForgotten
<1> QED
  BY <1>4, <1>5, <1>6 DEF SnapshotPart

----------------------------------------------------------------------------
(* The two together.                                                       *)
DocumentServiceInv == DocumentsInv /\ SnapshotPart

LEMMA SnapshotInitInv == SnapshotInit => DocumentServiceInv
<1> SUFFICES ASSUME SnapshotInit PROVE DocumentServiceInv
  OBVIOUS
<1>1. DocumentsInv
  BY InitDocumentsInv DEF SnapshotInit
<1>2. /\ tasks = {} /\ bytes = 0 /\ reasons = {} /\ expanded = {}
      /\ readable = {d \in Docs : canRead(world, d)}
  BY DEF SnapshotInit
<1>3. snap \in {Idle} \cup [status : {"collecting"}, uuids : {<<>>}, query : Queries]
  BY DEF SnapshotInit
<1>4. CASE snap = Idle
  <2>1. snap.status = "idle"
    BY <1>4 DEF Idle
  <2>2. SnapTypes
    BY <1>2, <1>4, SnapshotAssumption DEF SnapTypes
  <2> QED
    BY <1>1, <1>2, <2>1, <2>2, SnapshotAssumption
       DEF DocumentServiceInv, SnapshotPart, RoomWhileCollecting, ReadableIsRead, ExpandingIsExpanded, BytesLeft,
           NoTaskAfterTheEnd, NothingBeforeTheStart, NothingForgotten
<1>5. CASE snap \in [status : {"collecting"}, uuids : {<<>>}, query : Queries]
  <2>1. snap.query \in Queries /\ snap.uuids = <<>> /\ snap.status = "collecting"
        /\ snap = [status |-> snap.status, uuids |-> snap.uuids, query |-> snap.query]
    BY <1>5
  <2>2. snap.query \in QueryTypes /\ snap.uuids \in Seq(Docs) /\ Len(snap.uuids) = 0
    BY <2>1, FreshQueries
  <2>3. snap \in [status : {"collecting", "expanding", "answered", "failed"},
                  uuids : Seq(Docs), query : QueryTypes]
    BY <2>1, <2>2
  <2>4. SnapTypes
    BY <1>2, <2>3, SnapshotAssumption DEF SnapTypes
  <2> QED
    BY <1>1, <1>2, <2>1, <2>2, <2>4, SnapshotAssumption
       DEF DocumentServiceInv, SnapshotPart, RoomWhileCollecting, ReadableIsRead, ExpandingIsExpanded, BytesLeft,
           NoTaskAfterTheEnd, NothingBeforeTheStart, NothingForgotten
<1> QED
  BY <1>3, <1>4, <1>5

LEMMA SnapshotStep == DocumentServiceInv /\ [SnapshotNext]_snapshotVars => DocumentServiceInv'
<1> SUFFICES ASSUME DocumentServiceInv, [SnapshotNext]_snapshotVars PROVE DocumentServiceInv'
  OBVIOUS
<1>1. DocumentsInv /\ SnapshotPart /\ WorldPart
  BY DEF DocumentServiceInv, DocumentsInv
<1>2. ASSUME UNCHANGED vars PROVE DocumentsInv'
  BY <1>1, <1>2, DocumentsStep
<1>3. CASE Collect
  BY <1>1, <1>2, <1>3, CollectKeepsSnapshot DEF DocumentServiceInv, Collect
<1>4. CASE Begin
  BY <1>1, <1>2, <1>4, BeginKeepsSnapshot DEF DocumentServiceInv, Begin
<1>5. CASE Answer
  BY <1>1, <1>2, <1>5, AnswerKeepsSnapshot DEF DocumentServiceInv, Answer
<1>6. ASSUME NEW t \in tasks, Step(t) PROVE DocumentServiceInv'
  <2>1. UNCHANGED vars
    BY <1>6 DEF Step, Enter, ResolveUnreadable, ResolveFailed, Resolve, ExpandField, Expanded
  <2>2. SnapshotPart'
    BY <1>1, <1>6, EnterKeepsSnapshot, ResolveUnreadableKeepsSnapshot, ResolveFailedKeepsSnapshot,
       ResolveKeepsSnapshot, ExpandFieldKeepsSnapshot, ExpandedKeepsSnapshot DEF Step
  <2> QED
    BY <1>2, <2>1, <2>2 DEF DocumentServiceInv
<1>7. CASE /\ Next /\ readable' = {d \in readable : canRead(world', d)}
           /\ UNCHANGED <<snap, tasks, itemCount, bytes, work, reasons, expanded, refused>>
  BY <1>1, <1>7, DocumentsStep, WorldStepKeepsSnapshot DEF DocumentServiceInv
<1>8. CASE UNCHANGED snapshotVars
  <2>1. UNCHANGED vars /\ UNCHANGED snapVars /\ UNCHANGED world
    BY <1>8 DEF snapshotVars, vars, foundry
  <2>2. readable' = {d \in readable : canRead(world', d)}
    BY <1>1, <2>1 DEF SnapshotPart, ReadableIsRead, snapVars
  <2> QED
    BY <1>1, <1>2, <2>1, <2>2, WorldStepKeepsSnapshot DEF DocumentServiceInv, snapVars
<1> QED
  BY <1>3, <1>4, <1>5, <1>6, <1>7, <1>8 DEF SnapshotNext, Snapshot

THEOREM SnapshotInvariant == SnapshotSpec => []DocumentServiceInv
  BY SnapshotInitInv, SnapshotStep, PTL DEF SnapshotSpec

(* An update that was not forced replaces the revision its client has read *)
(* or one that was written while the update was on its way: the comparison *)
(* of hashes in documents.update loses nothing it could have seen.         *)
THEOREM UpdatesLoseOnlyInFlight == SnapshotSpec => []LostOnlyInFlight
<1>1. DocumentServiceInv => LostOnlyInFlight
  BY DEF DocumentServiceInv, DocumentsInv, UpdatePart
<1> QED
  BY <1>1, SnapshotInvariant, PTL

(* Whatever documents.create answers is true of what Foundry did, although *)
(* an item whose creation failed may be there: all of it, nothing of it,   *)
(* or at least what is listed as created.                                  *)
THEOREM BatchesTellTheTruth == SnapshotSpec => []BatchAnswerIsTrue
<1>1. DocumentServiceInv => BatchAnswerIsTrue
  BY DEF DocumentServiceInv, DocumentsInv, BatchPart
<1> QED
  BY <1>1, SnapshotInvariant, PTL

(* Whoever follows nextCursor to the end sees every entry that stayed under *)
(* an unchanged key exactly once, for every page size, sort and world.     *)
THEOREM ListingsMissNothing == SnapshotSpec => []SteadyListedOnce
<1>1. DocumentServiceInv => SteadyListedOnce
  BY DEF DocumentServiceInv, DocumentsInv, ListingPart, EndedListedOnce, SteadyListedOnce
<1> QED
  BY <1>1, SnapshotInvariant, PTL

(* The types, and: a snapshot that does not say that it is truncated has   *)
(* expanded every reference, whatever its limits, but for those that met   *)
(* the budget of work used up.                                             *)
THEOREM SnapshotsAreComplete == SnapshotSpec => []SnapshotsInv
<1>1. DocumentServiceInv => TypeOK
  <2> SUFFICES ASSUME DocumentServiceInv PROVE TypeOK
    OBVIOUS
  <2>1. WorldPart /\ BatchPart /\ UpdatePart /\ ListingPart
    BY DEF DocumentServiceInv, DocumentsInv
  <2>2. /\ world \in [Docs -> [name : Names, shown : BOOLEAN, rev : 0 .. writes] \cup {None}]
        /\ \A d \in Docs : Exists(d) => \A a \in Line[d] : Exists(a)
    BY <2>1 DEF WorldPart, Contents, WholeLines, Exists
  <2>3. listing.status \in {"idle", "paging", "done", "refused"}
    BY <2>1 DEF ListingPart, Listings, Idle
  <2>4. batch.status \in {"idle", "called", "creating", "failing", "answered"}
    BY <2>1 DEF BatchPart, BatchTypes, CalledBatches, CreatingBatches, Idle
  <2>5. \A u \in Updaters : update[u].status \in {"idle", "called", "calling", "sent", "answered"}
    BY <2>1 DEF UpdatePart, UpdateTypes, UpdateCalls
  <2>6. steady \subseteq Docs /\ made \subseteq Indexes
    BY <2>1 DEF ListingPart, BatchPart, BatchHistory
  <2>7. \A u \in Updaters : racing[u] \subseteq 1 .. writes
    BY <2>1 DEF UpdatePart, UpdateTypes
  <2> QED
    BY <2>2, <2>3, <2>4, <2>5, <2>6, <2>7 DEF TypeOK
<1>2. DocumentServiceInv => UntruncatedIsComplete
  BY DEF DocumentServiceInv, SnapshotPart, NoTaskAfterTheEnd, NothingForgotten, UntruncatedIsComplete,
         FieldFollowed, FieldWaits, Settled, Pending
<1> QED
  BY <1>1, <1>2, SnapshotInvariant, PTL DEF SnapshotsInv

=============================================================================
