---------------------------- MODULE EventLedger ----------------------------
(***************************************************************************)
(* The host's durable event ledger for one companion connection            *)
(* (packages/host/src/intelligence/event-ledger.ts).  Three SQLite tables  *)
(* hold it: event_stream_state (the acknowledged sequence id),             *)
(* event_receipts (sequence ids received ahead of it) and events (the      *)
(* captured rows).  Every operation is one SQLite transaction, so it is    *)
(* one atomic step.                                                        *)
(***************************************************************************)
EXTENDS Integers, FiniteSets

CONSTANTS
    Seqs,           \* sequence ids an envelope may carry
    Payloads,       \* the events themselves
    MaxGap,         \* MAX_EVENT_SEQUENCE_GAP (4096)
    MaxReceipts     \* MAX_PENDING_EVENT_RECEIPTS (4096)

ASSUME SeqsAssumption == Seqs \subseteq Nat \ {0}
ASSUME WindowAssumption == /\ MaxGap \in Nat \ {0}
                           /\ MaxReceipts \in Nat
                           /\ MaxGap <= MaxReceipts

VARIABLES
    ack,            \* event_stream_state.acknowledged_sequence_id, 0 when no row
    receipts,       \* event_receipts.sequence_id
    rows,           \* events: the captured envelopes [seq, ev]
    accepted,       \* history: every envelope that was not refused or a duplicate
    pruned          \* history: every row retention has deleted

ledgerVars == <<ack, receipts, rows, accepted, pruned>>

Envelopes == [seq : Seqs, ev : Payloads]

SeqsOf(envelopes) == {e.seq : e \in envelopes}

LedgerInit ==
    /\ ack = 0
    /\ receipts = {}
    /\ rows = {}
    /\ accepted = {}
    /\ pruned = {}

----------------------------------------------------------------------------
(* Mutated forms of the definitions below, used by the mutation runs.      *)

DuplicateBelowAckOnly(s) == s <= ack
ContiguousEndAcrossHoles(held) == CHOOSE n \in held : \A m \in held : m <= n
ContiguousEndOneStep(held) == ack + 1
KeptReceiptsAll(held, reach) == held
InsertIdAsEvent(table, e) == table \cup {[e EXCEPT !.ev = e.seq]}

----------------------------------------------------------------------------
(* The resume point the host announces on every activation.                *)
ResumePoint == ack + 1

\* The gap test comes between the two duplicate tests.
Duplicate(s) == s <= ack \/ (s <= ack + MaxGap /\ s \in receipts)

WindowFull == Cardinality(receipts) >= MaxReceipts

\* The two throws of the transaction; the caller closes the socket with 1011.
Refused(s) == s > ack + MaxGap \/ WindowFull

\* The end of the run of receipts that starts at ack + 1, looked for no
\* further than MaxReceipts ids ahead.
ContiguousEnd(held) ==
    CHOOSE n \in ack + 1 .. ack + MaxReceipts :
        /\ ack + 1 .. n \subseteq held
        /\ n + 1 \in held => n = ack + MaxReceipts

KeptReceipts(held, reach) == {r \in held : r > reach}

\* INSERT OR IGNORE on the unique index (connection_id, sequence_id).
InsertOrIgnore(table, e) ==
    IF e.seq \in SeqsOf(table) THEN table ELSE table \cup {e}

IngestDuplicate(e) ==
    /\ Duplicate(e.seq)
    /\ UNCHANGED ledgerVars

IngestRefused(e) ==
    /\ ~Duplicate(e.seq)
    /\ Refused(e.seq)
    /\ UNCHANGED ledgerVars

\* `captured` is what shouldCaptureEvent decides from the envelope's category
\* and privacy flag.  A filtered event is acknowledged like a stored one.
IngestAccepted(e, captured) ==
    LET held  == receipts \cup {e.seq}
        reach == IF e.seq = ack + 1 THEN ContiguousEnd(held) ELSE ack
    IN  /\ ~Duplicate(e.seq)
        /\ ~Refused(e.seq)
        /\ rows' = IF captured THEN InsertOrIgnore(rows, e) ELSE rows
        /\ ack' = reach
        /\ receipts' = KeptReceipts(held, reach)
        /\ accepted' = accepted \cup {e}
        /\ UNCHANGED pruned

\* Retention: DELETE FROM events WHERE received_at < cutoff.  Which rows are
\* old enough depends on the clock only, so any set of rows may go.
PruneEvents(old) ==
    /\ old \subseteq rows
    /\ old # {}
    /\ rows' = rows \ old
    /\ pruned' = pruned \cup old
    /\ UNCHANGED <<ack, receipts, accepted>>

LedgerNext ==
    \/ \E e \in Envelopes : IngestDuplicate(e)
    \/ \E e \in Envelopes : IngestRefused(e)
    \/ \E e \in Envelopes, captured \in BOOLEAN : IngestAccepted(e, captured)
    \/ \E old \in SUBSET rows : PruneEvents(old)

LedgerSpec == LedgerInit /\ [][LedgerNext]_ledgerVars

----------------------------------------------------------------------------
LedgerTypeOK ==
    /\ ack \in Nat
    /\ receipts \in SUBSET Seqs
    /\ rows \in SUBSET Envelopes
    /\ accepted \in SUBSET Envelopes
    /\ pruned \in SUBSET Envelopes

\* The host has accounted for exactly the ids up to its acknowledgement plus
\* its receipts: it never acknowledges an id it was not given (the browser
\* would forget an event nobody has), and forgets none it was given.
AcknowledgedWasReceived == SeqsOf(accepted) = (1 .. ack) \cup receipts

\* Every receipt lies beyond the next expected id and inside the gap: a
\* receipt is never stranded behind the acknowledgement it should have
\* advanced.
ReceiptsAhead == \A r \in receipts : ack + 1 < r /\ r <= ack + MaxGap

\* The receipt window cannot fill up: the gap test comes first and bounds the
\* distinct ids ahead of the acknowledgement, so "pending event receipt window
\* is full" is never thrown with the code's own limits.
WindowNeverFull == ~WindowFull

\* An id is given to at most one event: a redelivered id never adds a second
\* event to the ledger, whatever payload it carries.
OneEventPerSequence == \A d, e \in accepted : d.seq = e.seq => d = e

\* A row retention deleted stays deleted: a late redelivery of its id does not
\* bring it back.
NoResurrection == SeqsOf(rows) \cap SeqsOf(pruned) = {}

\* Every row, kept or deleted, was accepted: what ties retention to the
\* acknowledgement that keeps a deleted id from being stored again.
RowsWereAccepted == rows \cup pruned \subseteq accepted

\* The ledger's tables agree: the acknowledgement and the receipts with what was
\* received, the rows with what was accepted and deleted.  (Inductive.)
LedgerInv ==
    /\ LedgerTypeOK
    /\ AcknowledgedWasReceived
    /\ ReceiptsAhead
    /\ OneEventPerSequence
    /\ RowsWereAccepted
    /\ NoResurrection

\* The acknowledgement only grows, and a receipt leaves the table only by
\* being acknowledged.
AckOnlyGrows ==
    [][ack' >= ack /\ \A r \in receipts \ receipts' : r <= ack']_ledgerVars
=============================================================================
