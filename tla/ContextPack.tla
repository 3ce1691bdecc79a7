----------------------------- MODULE ContextPack ------------------------------
(***************************************************************************)
(* The context pack (packages/host/src/intelligence/context-pack.ts): what *)
(* buildContextPack takes from the tables in module Queries, and how it    *)
(* fits that into maxBytes, loop by loop.                                  *)
(*                                                                         *)
(* It runs from its first statement to its return without a pause, so that *)
(* nothing else moves meanwhile.  The client of module Queries does not    *)
(* matter to it: a pack is asked for while that client has not begun.      *)
(***************************************************************************)
EXTENDS Queries

CONSTANTS
    Sizes,      \* per payload: the bytes of its event, separators included
    Score,      \* per payload: how well it matches the words of a search, 0: not at all
    Objects,    \* snapshots that match the words: [id, size, score]
    CutSize,    \* the bytes of an event without its payload, or an object without its data
    Metadata,   \* the bytes of a pack beside its items, its byteLength and its flag
    Powers,     \* 10, 100, ...: where byteLength grows by a digit
    MaxBytes    \* the values of maxBytes

ASSUME PackAssumption ==
    /\ Sizes \in [Payloads -> Nat] /\ Score \in [Payloads -> Nat]
    /\ IsFiniteSet(Objects) /\ \A o, p \in Objects : o.id = p.id => o = p
    /\ \A o \in Objects : o.id \in Int /\ o.id <= 0 /\ o.size \in Nat /\ o.score \in Nat
    /\ CutSize \in Nat /\ Metadata \in Nat /\ MaxBytes \subseteq Nat
    /\ Powers \subseteq Nat \ {0} /\ IsFiniteSet(Powers)
    /\ \A p, q \in Powers : p < q => q - p > Cardinality(Powers)

VARIABLES
    phase,          \* which loop of buildContextPack is running; "none": no request
    request,        \* what was asked for, and the candidates
    packEvents,     \* pack.events (and pack.sourceEventIds, always changed with it)
    packObjects,    \* pack.objects (and pack.sourceObjectIds)
    packTruncated,  \* pack.truncated
    byteLength      \* pack.byteLength

packVars == <<phase, request, packEvents, packObjects, packTruncated, byteLength>>
contextVars == <<queryVars, packVars>>

NoRequest == [source |-> "none", maxBytes |-> 0, events |-> <<>>, objects |-> <<>>, more |-> FALSE]

NoPack ==
    /\ phase = "none" /\ request = NoRequest /\ packEvents = <<>> /\ packObjects = <<>>
    /\ packTruncated = FALSE /\ byteLength = 0

----------------------------------------------------------------------------
(* The candidates.                                                         *)

First(n, list) == SubSeq(list, 1, Min({n, Len(list)}))

\* ORDER BY: what was found, in the order of its keys.
InOrder(key, found) ==
    [i \in 1 .. Cardinality(found) |->
        CHOOSE r \in found : Cardinality({q \in found : Before(key[q], key[r])}) = i - 1]

ByKey(mode, found) == InOrder([r \in found |-> Key(mode, r)], found)

\* searchEvents takes the best, the newest first; searchIntelligence merges them
\* with the objects by score and key, where the ids of objects are here the
\* numbers below those of events.
EventHits(n) ==
    LET matching == {r \in rows : Score[r.ev] > 0}
    IN  First(n, InOrder([r \in matching |-> <<-Score[r.ev], -r.seq>>], matching))
AsHit(r) == [score |-> Score[r.ev], key |-> stamp[r.seq].id, of |-> r]
ObjectHit(o) == [score |-> o.score, key |-> o.id, of |-> o]
Merged(hits) == InOrder([h \in hits |-> <<-h.score, h.key>>], hits)
Hits(n) == Range(First(n, Merged({AsHit(r) : r \in Range(EventHits(n))}
                                 \cup {ObjectHit(o) : o \in Objects})))

\* The candidates of each source, and whether it says that there are more.
Candidates(source, n, o) ==
    LET hits  == Hits(n + o)
        mode  == IF source = "timeline" THEN "timeline" ELSE "sequence"
        found == Found(mode, 0, NoCursor)
        of(list) == [i \in DOMAIN list |-> list[i].of]
    IN  IF source = "search"
        THEN [events  |-> First(n, of(Merged({h \in hits : h.key > 0}))),
              objects |-> First(o, of(Merged({h \in hits : h.key <= 0}))),
              more    |-> FALSE]
        ELSE [events |-> First(n, ByKey(mode, found)), objects |-> <<>>,
              more |-> source = "timeline" /\ HasMore(n, found)]

----------------------------------------------------------------------------
(* serializedBytes.                                                        *)

EventItem(r) == [of |-> r, size |-> Sizes[r.ev], full |-> TRUE]
ObjectItem(o) == [of |-> o, size |-> o.size, full |-> TRUE]
Cut(item) == [item EXCEPT !.size = CutSize, !.full = FALSE]

\* The bytes of all items, by the item they belong to, and how many they are.
Bytes(items) == UNION {{i} \X (1 .. items[i].size) : i \in DOMAIN items}
Total(items) == Cardinality(Bytes(items))

Digits(n) == 1 + Cardinality({p \in Powers : p <= n})

\* The word false is one byte longer than true.
Size(events, objects, truncated, n) ==
    Metadata + Total(events) + Total(objects) + (IF truncated THEN 0 ELSE 1) + Digits(n)

Fits(events, objects) == Size(events, objects, packTruncated, byteLength) <= request.maxBytes

----------------------------------------------------------------------------
(* Mutated forms of the definitions below.                                 *)

MeasuredOnce == Size(packEvents, packObjects, packTruncated, byteLength)
TrimSilently ==
    /\ phase = "trim" /\ byteLength > request.maxBytes /\ packEvents # <<>>
    /\ packEvents' = Front(packEvents)
    /\ byteLength' = Size(packEvents', packObjects, packTruncated, byteLength)
    /\ UNCHANGED <<phase, request, packObjects, packTruncated>>

----------------------------------------------------------------------------
(* buildContextPack.                                                       *)

\* Each pass measures the pack with the byteLength of the one before.
MeasuredThrice ==
    LET pass(n) == Size(packEvents, packObjects, packTruncated, n)
    IN  pass(pass(pass(byteLength)))

Ask(source, n, o, b) ==
    LET from == Candidates(source, n, o)
    IN  /\ phase = "none" /\ client = Idle
        /\ phase' = "events" /\ packTruncated' = from.more
        /\ request' = [source |-> source, maxBytes |-> b,
                       events |-> from.events, objects |-> from.objects, more |-> from.more]
        /\ UNCHANGED <<packEvents, packObjects, byteLength>>

\* One turn of the first loop: the event goes in, or what is left of it without
\* its payload, or nothing; the loop goes on only after a whole one.
TakeEvent ==
    /\ phase = "events" /\ Len(packEvents) < Len(request.events)
    /\ LET next  == EventItem(request.events[Len(packEvents) + 1])
           whole == Append(packEvents, next)
           cut   == Append(packEvents, Cut(next))
       IN  \/ /\ Fits(whole, packObjects)
              /\ packEvents' = whole
              /\ UNCHANGED <<phase, packTruncated>>
           \/ /\ ~Fits(whole, packObjects)
              /\ packEvents' = IF Fits(cut, packObjects) THEN cut ELSE packEvents
              /\ packTruncated' = TRUE /\ phase' = "events stopped"
    /\ UNCHANGED <<request, packObjects, byteLength>>

CountEvents ==
    /\ phase = "events stopped" \/ (phase = "events" /\ Len(packEvents) = Len(request.events))
    /\ packTruncated' = (packTruncated \/ Len(packEvents) < Len(request.events))
    /\ phase' = "objects"
    /\ UNCHANGED <<request, packEvents, packObjects, byteLength>>

\* The second loop, of the objects.
TakeObject ==
    /\ phase = "objects" /\ Len(packObjects) < Len(request.objects)
    /\ LET next  == ObjectItem(request.objects[Len(packObjects) + 1])
           whole == Append(packObjects, next)
           cut   == Append(packObjects, Cut(next))
       IN  \/ /\ Fits(packEvents, whole)
              /\ packObjects' = whole
              /\ UNCHANGED <<phase, packTruncated>>
           \/ /\ ~Fits(packEvents, whole)
              /\ packObjects' = IF Fits(packEvents, cut) THEN cut ELSE packObjects
              /\ packTruncated' = TRUE /\ phase' = "objects stopped"
    /\ UNCHANGED <<request, packEvents, byteLength>>

CountObjects ==
    /\ phase = "objects stopped" \/ (phase = "objects" /\ Len(packObjects) = Len(request.objects))
    /\ packTruncated' = (packTruncated \/ Len(packObjects) < Len(request.objects))
    /\ phase' = "measure"
    /\ UNCHANGED <<request, packEvents, packObjects, byteLength>>

Measure ==
    /\ phase = "measure"
    /\ byteLength' = MeasuredThrice
    /\ phase' = "trim"
    /\ UNCHANGED <<request, packEvents, packObjects, packTruncated>>

\* The two trimming loops: byteLength is measured again with its own last value.
TooLong == phase = "trim" /\ byteLength > request.maxBytes

TrimEvents ==
    /\ TooLong /\ packEvents # <<>>
    /\ packEvents' = Front(packEvents) /\ packTruncated' = TRUE
    /\ byteLength' = Size(packEvents', packObjects, TRUE, byteLength)
    /\ UNCHANGED <<phase, request, packObjects>>

TrimObjects ==
    /\ TooLong /\ packEvents = <<>> /\ packObjects # <<>>
    /\ packObjects' = Front(packObjects) /\ packTruncated' = TRUE
    /\ byteLength' = Size(packEvents, packObjects', TRUE, byteLength)
    /\ UNCHANGED <<phase, request, packEvents>>

\* The last measure, and the throw if even that is too large.
Finish ==
    /\ phase = "trim" /\ (TooLong => packEvents = <<>> /\ packObjects = <<>>)
    /\ byteLength' = Size(packEvents, packObjects, packTruncated, byteLength)
    /\ phase' = IF byteLength' > request.maxBytes THEN "failed" ELSE "done"
    /\ UNCHANGED <<request, packEvents, packObjects, packTruncated>>

Return ==
    /\ phase \in {"done", "failed"}
    /\ phase' = "none" /\ request' = NoRequest /\ packEvents' = <<>> /\ packObjects' = <<>>
    /\ packTruncated' = FALSE /\ byteLength' = 0

\* Objects are candidates of a search only.
Shapes == [source : {"search"}, events : {2}, objects : {1}]
          \cup [source : {"changed-since", "timeline"}, events : {2}, objects : {0}]

Build ==
    \/ \E s \in Shapes, b \in MaxBytes : Ask(s.source, s.events, s.objects, b)
    \/ TakeEvent \/ CountEvents \/ TakeObject \/ CountObjects
    \/ Measure \/ TrimEvents \/ TrimObjects \/ Finish \/ Return

ContextInit == QueriesInit /\ NoPack

ContextNext ==
    \/ phase = "none" /\ QueriesNext /\ UNCHANGED packVars
    \/ Build /\ UNCHANGED queryVars

ContextSpec == ContextInit /\ [][ContextNext]_contextVars

----------------------------------------------------------------------------
(* Properties.                                                             *)

ShowsFirst(items, all) ==
    /\ Len(items) <= Len(all)
    /\ \A i \in DOMAIN items : items[i].of = all[i] /\ (i < Len(items) => items[i].full)

ShowsAll(items, all) == Len(items) = Len(all) /\ \A i \in DOMAIN items : items[i].full

\* A context pack is never longer than it says in its own byteLength, nor than
\* maxBytes, although byteLength is a part of what it measures.  It shows the first of
\* its candidates in their order, only the last of each kind cut; one that does not
\* say that it is truncated shows all of them in full, and of the timeline every
\* row.  None is refused as long as there is anything left to drop.
PackIsHonest ==
    /\ phase = "done" =>
        /\ Size(packEvents, packObjects, packTruncated, byteLength) <= byteLength
        /\ byteLength <= request.maxBytes
        /\ ShowsFirst(packEvents, request.events) /\ ShowsFirst(packObjects, request.objects)
        /\ ~packTruncated =>
            /\ ShowsAll(packEvents, request.events) /\ ShowsAll(packObjects, request.objects)
            /\ request.source = "timeline" => {packEvents[i].of : i \in DOMAIN packEvents} = rows
    /\ phase = "failed" => packEvents = <<>> /\ packObjects = <<>>

\* The same of every source.  The code does not keep this: changed-since drops the
\* cursor of its page, and a search says nothing of the hits beyond its limit.
UntruncatedPackIsComplete ==
    phase = "done" /\ request.source = "changed-since" /\ ~packTruncated =>
        {packEvents[i].of : i \in DOMAIN packEvents} = rows
=============================================================================
