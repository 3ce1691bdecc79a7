------------------------------ MODULE Queries ------------------------------
(***************************************************************************)
(* What is read from the event ledger while it grows and is pruned: pages  *)
(* of the timeline and of what has changed since                           *)
(* (packages/host/src/intelligence/queries.ts).                            *)
(*                                                                         *)
(* Each query is one SQL statement, so one step.  An MCP client reads in   *)
(* one of four ways: it follows the cursors of the timeline or of          *)
(* changed-since, from a sequence id or from a time, to their end, or it   *)
(* asks again and again for a context pack of what came after the last     *)
(* sequence id it has.                                                     *)
(***************************************************************************)
EXTENDS EventLedger, Sequences, SequencesExt

CONSTANTS
    Limit,     \* rows of a page
    MaxClock,  \* bound: milliseconds in which envelopes arrive
    MaxPages   \* bound: pages the client asks for

ASSUME QueriesAssumption == Limit \in Nat \ {0} /\ MaxClock \in Nat /\ MaxPages \in Nat

VARIABLES
    clock,   \* the time
    stamp,   \* per sequence id: events.id and received_at of its row, once inserted
    client   \* the MCP client: what it reads, its position, and what it has read

queryVars == <<ledgerVars, clock, stamp, client>>

Modes == {"timeline", "sequence", "timestamp", "poll"}
NoCursor == <<>>

\* from: the boundary of the next query; got: how often it has read each row;
\* steady: the rows that were there at the first page and still are; gap: a pack
\* showed a gap.
Idle == [mode |-> "none", from |-> 0, cursor |-> NoCursor, got |-> [s \in Seqs |-> 0],
         steady |-> {}, gap |-> FALSE, pages |-> 0, done |-> FALSE]

QueriesInit ==
    /\ LedgerInit /\ clock = 0 /\ client = Idle
    /\ stamp = [s \in Seqs |-> [id |-> 0, at |-> 0]]

----------------------------------------------------------------------------
(* Mutated forms.                                                          *)

LaterOnly(mode, r, cursor) == cursor = NoCursor \/ stamp[r.seq].at > cursor[1]
JobGapOnly(jobGap) == jobGap

----------------------------------------------------------------------------
(* The ledger, with the columns the queries read.                          *)

\* Rows get the next id and the time of their arrival; an id that was pruned is
\* not given again.
NextId == 1 + Cardinality({s \in Seqs : stamp[s].id > 0})
Stamped(s) == [stamp EXCEPT ![s] = [id |-> NextId, at |-> clock]]

Ingest(e, captured) ==
    /\ IngestAccepted(e, captured)
    /\ stamp' = IF captured THEN Stamped(e.seq) ELSE stamp
    /\ UNCHANGED <<clock, client>>

\* Retention goes by the time of arrival.
Prune(cutoff) ==
    /\ PruneEvents({r \in rows : stamp[r.seq].at < cutoff})
    /\ client' = [client EXCEPT !.steady = @ \cap SeqsOf(rows')]
    /\ UNCHANGED <<clock, stamp>>

Tick == /\ clock < MaxClock /\ clock' = clock + 1
        /\ UNCHANGED <<ledgerVars, stamp, client>>

----------------------------------------------------------------------------
(* Pages.                                                                  *)

Before(k, l) == k[1] < l[1] \/ (k[1] = l[1] /\ k[2] < l[2])

\* ORDER BY: the sequence id or the time of arrival, then the id.
Key(mode, r) == IF mode \in {"sequence", "poll"}
                THEN <<r.seq, stamp[r.seq].id>> ELSE <<stamp[r.seq].at, stamp[r.seq].id>>

\* The boundary of the query: afterSequenceId and afterTimestamp exclude it, from
\* includes it.
InRange(mode, r, from) ==
    CASE mode \in {"sequence", "poll"} -> r.seq > from
      [] mode = "timestamp"            -> stamp[r.seq].at > from
      [] mode = "timeline"             -> stamp[r.seq].at >= from

Beyond(mode, r, cursor) == cursor = NoCursor \/ Before(cursor, Key(mode, r))

Found(mode, from, cursor) == {r \in rows : InRange(mode, r, from) /\ Beyond(mode, r, cursor)}

\* ORDER BY and LIMIT: the rows with fewer than n before them.
PageOf(mode, n, found) ==
    {r \in found : Cardinality({q \in found : Before(Key(mode, q), Key(mode, r))}) < n}

\* One row more than the page is fetched to know whether there is a next one.
HasMore(n, found) == Cardinality(found) > n

\* The key of the last row of a page.
CursorOf(mode, page) ==
    CHOOSE k \in {Key(mode, r) : r \in page} : \A r \in page : ~Before(k, Key(mode, r))

Counted(page) == [s \in Seqs |-> IF s \in SeqsOf(page) THEN client.got[s] + 1 ELSE client.got[s]]

Asked(mode, from, steady, found) ==
    LET page == PageOf(mode, Limit, found)
        more == HasMore(Limit, found)
    IN  client' = [client EXCEPT
            !.mode = mode, !.from = from, !.steady = steady, !.pages = @ + 1,
            !.got = Counted(page),
            !.cursor = IF more THEN CursorOf(mode, page) ELSE NoCursor,
            !.done = ~more]

\* getTimeline and getChangedSincePage, the first page.
FirstPage(mode, from) ==
    LET found == Found(mode, from, NoCursor)
    IN  /\ client.mode = "none"
        /\ Asked(mode, from, SeqsOf(found), found)
        /\ UNCHANGED <<ledgerVars, clock, stamp>>

\* ... and a later one, from its cursor.
NextPage ==
    /\ client.mode \in {"timeline", "sequence", "timestamp"} /\ ~client.done
    /\ client.pages < MaxPages
    /\ Asked(client.mode, client.from, client.steady,
             Found(client.mode, client.from, client.cursor))
    /\ UNCHANGED <<ledgerVars, clock, stamp>>

----------------------------------------------------------------------------
(* Polling with intelligence.context.                                      *)

\* getIntelligenceStatus: the gap of the last reconciliation, or receipts beyond
\* a hole.
GapShown(jobGap) == jobGap \/ receipts # {}

\* Whoever polls goes on after the last sequence id it has.
NextBoundary(from, page) == IF page = {} THEN from ELSE CursorOf("poll", page)[1]

\* The pack shows the first n of its candidates (module ContextPack), and the
\* status in the same step.  A row counts as read when its payload is cut, too.
Poll(n, jobGap) ==
    LET page == PageOf("poll", n, Found("poll", client.from, NoCursor))
    IN  /\ client.mode \in {"none", "poll"} /\ client.pages < MaxPages
        /\ client' = [client EXCEPT
               !.mode = "poll", !.pages = @ + 1, !.gap = @ \/ GapShown(jobGap),
               !.from = NextBoundary(client.from, page), !.got = Counted(page)]
        /\ UNCHANGED <<ledgerVars, clock, stamp>>

QueriesNext ==
    \/ \E e \in Envelopes, captured \in BOOLEAN : Ingest(e, captured)
    \/ \E e \in Envelopes : (IngestDuplicate(e) \/ IngestRefused(e)) /\ UNCHANGED queryVars
    \/ \E cutoff \in 1 .. MaxClock : Prune(cutoff)
    \/ Tick \/ NextPage
    \/ \E mode \in Modes \ {"poll"}, from \in 0 .. 1 : FirstPage(mode, from)
    \/ \E n \in 0 .. Limit, jobGap \in BOOLEAN : Poll(n, jobGap)

QueriesSpec == QueriesInit /\ [][QueriesNext]_queryVars

----------------------------------------------------------------------------
(* Properties.                                                             *)

\* Whoever follows the cursors to the end has every row that was there all the
\* time exactly once, and none twice, whatever arrives, fills a hole or is pruned
\* meanwhile.
SteadyRowPagedOnce ==
    client.mode \in {"timeline", "sequence", "timestamp"} =>
        /\ \A s \in Seqs : client.got[s] <= 1
        /\ client.done => \A s \in client.steady : client.got[s] = 1

\* Whoever polls with the last sequence id, and was never shown a gap, has missed
\* nothing: rows that fill a hole come before the last sequence id, and a hole
\* shows as a gap in the pack that passes over it.  (Not so for whoever asks
\* changed-since and, in another request, for the status: the hole may open or be
\* filled between the two.)
PollMissesNothing ==
    client.mode = "poll" /\ ~client.gap =>
        \A r \in rows : r.seq <= client.from => client.got[r.seq] > 0
=============================================================================
