------------------------ MODULE IntelligenceProofs -------------------------
(***************************************************************************)
(* Proofs about what packages/host/src/intelligence keeps: modules         *)
(* EventLedger, EventStream, Queries, ContextPack and Reconciler.          *)
(*                                                                         *)
(* The ledger's safety for every number of ids, every payload set and      *)
(* every pair of limits with MaxGap <= MaxReceipts; for every window,      *)
(* every number of events and every number of faults, the numbers of the   *)
(* stream, that no event whose publish returned is dropped while the       *)
(* page's storage is kept, and that the stream implements EventDelivery;   *)
(* what readers that page or poll may rely on, and those of a context      *)
(* pack; and what the reconciler promises about the index, for every       *)
(* world, every bound and every sequence of kills, failures and changes.   *)
(***************************************************************************)
EXTENDS EventStream, ContextPack, Reconciler, FiniteSetTheorems, NaturalsInduction,
        WellFoundedInduction, TLAPS

----------------------------------------------------------------------------
(* Every non-empty set of naturals has a least element. *)
LEMMA LeastNatural ==
    ASSUME NEW S, S \subseteq Nat, S # {}
    PROVE  \E n \in S : \A m \in S : n <= m
<1>1. \A m, n \in Nat : m < n => <<m, n>> \in OpToRel(<, Nat)
    BY DEF OpToRel
<1>2. \E R : IsWellFoundedOn(R, Nat) /\ \A m, n \in Nat : m < n => <<m, n>> \in R
    BY <1>1, NatLessThanWellFounded, Zenon
<1>3. PICK R : IsWellFoundedOn(R, Nat) /\ \A m, n \in Nat : m < n => <<m, n>> \in R
    BY <1>2
<1>4. IsWellFoundedOn(R, Nat)
    BY <1>3
<1>5. \E n \in S : \A m \in S : ~ (<<m, n>> \in R)
    BY <1>4, WFMin, Zenon
<1>6. PICK n \in S : \A m \in S : ~ (<<m, n>> \in R)
    BY <1>5
<1>7. \A m \in S : ~ (m < n) /\ m \in Nat /\ n \in Nat
    BY <1>3, <1>6
<1> QED BY <1>6, <1>7

(* What the advance loop computes: the last id of the unbroken run of      *)
(* receipts that starts right after the acknowledgement.                   *)
LEMMA ContiguousEndProperties ==
    ASSUME ack \in Nat, NEW held \in SUBSET Nat, ack + 1 \in held
    PROVE  /\ ContiguousEnd(held) \in ack + 1 .. ack + MaxReceipts
           /\ ack + 1 .. ContiguousEnd(held) \subseteq held
           /\ \/ ContiguousEnd(held) + 1 \notin held
              \/ ContiguousEnd(held) = ack + MaxReceipts
<1> DEFINE limit == ack + MaxReceipts
           stops == {n \in ack + 1 .. limit : n + 1 \in held => n = limit}
<1>1. limit \in stops /\ stops \in SUBSET Nat
    BY WindowAssumption
<1>2. PICK n \in stops : \A m \in stops : n <= m
    <2>1. stops \subseteq Nat /\ stops # {}
        BY <1>1
    <2> HIDE DEF stops
    <2> QED BY <2>1, LeastNatural
<1>3. ack + 1 .. n \subseteq held
    <2> SUFFICES ASSUME NEW k \in ack + 1 .. n, k # ack + 1
                 PROVE  k \in held
        OBVIOUS
    <2>1. k - 1 \in ack + 1 .. limit /\ k - 1 < n
        BY <1>1, <1>2, WindowAssumption
    <2>2. k - 1 \notin stops
        BY <1>1, <1>2, <2>1
    <2> QED BY <2>1, <2>2
<1> QED BY <1>2, <1>3 DEF ContiguousEnd

----------------------------------------------------------------------------
(* Type correctness and the invariant hold initially. *)
LEMMA LedgerInitInv == LedgerInit => LedgerInv
<1> SUFFICES ASSUME LedgerInit PROVE LedgerInv
    OBVIOUS
<1>1. 1 .. ack = {}
    BY DEF LedgerInit
<1> QED BY <1>1
    DEF LedgerInit, LedgerInv, LedgerTypeOK, AcknowledgedWasReceived, ReceiptsAhead,
        OneEventPerSequence, RowsWereAccepted, NoResurrection, SeqsOf

(* Accepting an envelope keeps the invariant, and its acknowledgement only  *)
(* grows over receipts that were there.                                     *)
LEMMA AcceptedStep ==
    ASSUME LedgerInv, NEW e \in Envelopes, NEW captured \in BOOLEAN,
           IngestAccepted(e, captured)
    PROVE  LedgerInv' /\ ack' >= ack /\ \A r \in receipts \ receipts' : r <= ack'
<1> DEFINE held == receipts \cup {e.seq}
<1>0. /\ LedgerTypeOK /\ AcknowledgedWasReceived /\ ReceiptsAhead
      /\ OneEventPerSequence /\ RowsWereAccepted /\ NoResurrection
    BY DEF LedgerInv
<1>1. /\ e.seq \in Nat /\ e.seq > ack /\ e.seq \notin receipts
      /\ e.seq <= ack + MaxGap
      /\ held \in SUBSET Nat /\ held \in SUBSET Seqs /\ ack \in Nat
    <2>1. ~Duplicate(e.seq) /\ ~Refused(e.seq)
        BY DEF IngestAccepted
    <2>2. e.seq \in Seqs /\ receipts \in SUBSET Seqs /\ ack \in Nat
        BY <1>0 DEF LedgerTypeOK, Envelopes
    <2>3. e.seq \in Nat /\ held \in SUBSET Nat /\ held \in SUBSET Seqs
        BY <2>2, SeqsAssumption
    <2>4. e.seq <= ack + MaxGap
        BY <2>1, <2>2, <2>3, WindowAssumption DEF Refused
    <2>5. e.seq > ack /\ e.seq \notin receipts
        BY <2>1, <2>2, <2>3, <2>4 DEF Duplicate
    <2> QED BY <2>2, <2>3, <2>4, <2>5
<1>2. /\ ack' \in Nat /\ ack' >= ack
      /\ ack + 1 .. ack' \subseteq held
      /\ ack' + 1 \notin held \/ ack' = ack + MaxReceipts
      /\ receipts' = {r \in held : r > ack'}
    <2>1. CASE e.seq = ack + 1
        <3>1. ack' = ContiguousEnd(held) /\ receipts' = KeptReceipts(held, ack')
            BY <2>1 DEF IngestAccepted
        <3> QED BY <1>1, <2>1, <3>1, ContiguousEndProperties, WindowAssumption DEF KeptReceipts
    <2>2. CASE e.seq # ack + 1
        <3>1. ack' = ack /\ receipts' = KeptReceipts(held, ack')
            BY <2>2 DEF IngestAccepted
        <3> QED BY <1>0, <1>1, <2>2, <3>1 DEF KeptReceipts, ReceiptsAhead
    <2> QED BY <2>1, <2>2
<1>3. /\ rows' \subseteq rows \cup {e}
      /\ accepted' = accepted \cup {e}
      /\ pruned' = pruned
    BY DEF IngestAccepted, InsertOrIgnore
<1>4. e.seq \notin SeqsOf(accepted)
    BY <1>0, <1>1 DEF AcknowledgedWasReceived
<1>5. LedgerTypeOK'
    BY <1>0, <1>1, <1>2, <1>3 DEF LedgerTypeOK
<1>6. AcknowledgedWasReceived'
    <2>1. SeqsOf(accepted)' = SeqsOf(accepted) \cup {e.seq}
        BY <1>3 DEF SeqsOf
    <2>2. (1 .. ack) \cup held = (1 .. ack') \cup receipts'
        <3>1. \A r \in held : r \in 1 .. ack' \/ r \in receipts'
            BY <1>1, <1>2, SeqsAssumption
        <3>2. 1 .. ack \subseteq 1 .. ack'
            BY <1>1, <1>2
        <3>3. \A k \in 1 .. ack' : k \in 1 .. ack \/ k \in held
            BY <1>1, <1>2
        <3> QED BY <1>2, <3>1, <3>2, <3>3
    <2> QED BY <1>0, <2>1, <2>2 DEF AcknowledgedWasReceived
<1>7. ReceiptsAhead'
    <2>1. /\ ack' \in Nat /\ ack \in Nat /\ ack' >= ack
          /\ receipts' \subseteq held /\ held \subseteq Nat
        BY <1>1, <1>2
    <2>2. \A r \in held : r <= ack + MaxGap
        BY <1>0, <1>1 DEF ReceiptsAhead
    <2>3. \A r \in receipts' : r > ack'
        BY <1>2
    <2>4. ack' = ack + MaxReceipts => receipts' = {}
        BY <2>1, <2>2, <2>3, WindowAssumption
    <2>5. ack' + 1 \notin receipts'
        BY <1>2, <2>1, <2>4
    <2>6. PICK reach \in Nat : reach = ack'
        BY <2>1
    <2>7. \A r \in receipts' : r \in Nat /\ reach < r /\ r # reach + 1 /\ r <= ack + MaxGap
        BY <2>1, <2>2, <2>3, <2>5, <2>6
    <2>8. \A r \in receipts' : reach + 1 < r /\ r <= reach + MaxGap
        BY <2>1, <2>6, <2>7, WindowAssumption
    <2> QED BY <2>6, <2>8 DEF ReceiptsAhead
<1>8. OneEventPerSequence'
    BY <1>0, <1>3, <1>4 DEF OneEventPerSequence, SeqsOf
<1>9. RowsWereAccepted'
    BY <1>0, <1>3 DEF RowsWereAccepted
<1>10. NoResurrection'
    BY <1>0, <1>3, <1>4 DEF NoResurrection, RowsWereAccepted, SeqsOf
<1>11. \A r \in receipts \ receipts' : r <= ack'
    BY <1>1, <1>2
<1> QED BY <1>2, <1>5, <1>6, <1>7, <1>8, <1>9, <1>10, <1>11 DEF LedgerInv

(* Retention touches only the captured rows. *)
LEMMA PruneStep ==
    ASSUME LedgerInv, NEW old \in SUBSET rows, PruneEvents(old)
    PROVE  LedgerInv' /\ ack' = ack /\ receipts' = receipts
<1> USE DEF LedgerInv, PruneEvents
<1>1. LedgerTypeOK' /\ AcknowledgedWasReceived' /\ ReceiptsAhead'
    BY DEF LedgerTypeOK, AcknowledgedWasReceived, ReceiptsAhead
<1>2. OneEventPerSequence' /\ RowsWereAccepted'
    BY DEF OneEventPerSequence, RowsWereAccepted
<1>3. NoResurrection'
    BY DEF NoResurrection, OneEventPerSequence, RowsWereAccepted, SeqsOf
<1> QED BY <1>1, <1>2, <1>3

(* Every step of the ledger preserves the invariant and is monotonic. *)
LEMMA LedgerStep ==
    ASSUME LedgerInv, [LedgerNext]_ledgerVars
    PROVE  LedgerInv' /\ ack' >= ack /\ \A r \in receipts \ receipts' : r <= ack'
<1>0. ack \in Nat
    BY DEF LedgerInv, LedgerTypeOK
<1>1. CASE UNCHANGED ledgerVars
    BY <1>0, <1>1 DEF ledgerVars, LedgerInv, LedgerTypeOK, AcknowledgedWasReceived,
        ReceiptsAhead, OneEventPerSequence, RowsWereAccepted, NoResurrection
<1>2. ASSUME NEW e \in Envelopes, IngestDuplicate(e) \/ IngestRefused(e)
      PROVE  UNCHANGED ledgerVars
    BY <1>2 DEF IngestDuplicate, IngestRefused
<1>3. ASSUME NEW e \in Envelopes, NEW captured \in BOOLEAN, IngestAccepted(e, captured)
      PROVE  LedgerInv' /\ ack' >= ack /\ \A r \in receipts \ receipts' : r <= ack'
    BY <1>3, AcceptedStep
<1>4. ASSUME NEW old \in SUBSET rows, PruneEvents(old)
      PROVE  LedgerInv' /\ ack' >= ack /\ \A r \in receipts \ receipts' : r <= ack'
    BY <1>0, <1>4, PruneStep
<1> QED BY <1>1, <1>2, <1>3, <1>4 DEF LedgerNext

(* The receipts fit strictly inside the gap, and the gap is no wider than   *)
(* the window.                                                             *)
LEMMA ReceiptsFit ==
    ASSUME LedgerInv
    PROVE  WindowNeverFull
<1> DEFINE ahead == ack + 2 .. ack + MaxGap
<1>1. ack \in Nat /\ receipts \subseteq Nat /\ ReceiptsAhead
    BY SeqsAssumption DEF LedgerInv, LedgerTypeOK
<1>2. receipts \subseteq ahead
    <2> SUFFICES ASSUME NEW r \in receipts PROVE r \in ahead
        OBVIOUS
    <2>1. r \in Nat /\ ack + 1 < r /\ r <= ack + MaxGap
        BY <1>1 DEF ReceiptsAhead
    <2> QED BY <1>1, <2>1, WindowAssumption
<1>3. /\ IsFiniteSet(ahead)
      /\ Cardinality(ahead) = IF ack + 2 > ack + MaxGap
                              THEN 0 ELSE (ack + MaxGap) - (ack + 2) + 1
    <2>1. ack + 2 \in Int /\ ack + MaxGap \in Int
        BY <1>1, WindowAssumption
    <2> QED BY <2>1, FS_Interval
<1>4. Cardinality(ahead) <= MaxGap - 1 /\ Cardinality(ahead) \in Nat
    <2> HIDE DEF ahead
    <2> QED BY <1>1, <1>3, WindowAssumption
<1>5. Cardinality(receipts) <= Cardinality(ahead) /\ Cardinality(receipts) \in Nat
    <2> HIDE DEF ahead
    <2>1. IsFiniteSet(receipts) /\ Cardinality(receipts) <= Cardinality(ahead)
        BY <1>2, <1>3, FS_Subset
    <2> QED BY <2>1, FS_CardinalityType
<1> HIDE DEF ahead
<1> QED BY <1>4, <1>5, WindowAssumption DEF WindowNeverFull, WindowFull

(* The inductive invariant holds of every reachable ledger. *)
THEOREM LedgerInvariant == LedgerSpec => []LedgerInv
<1>1. LedgerInit => LedgerInv
    BY LedgerInitInv
<1>2. LedgerInv /\ [LedgerNext]_ledgerVars => LedgerInv'
    BY LedgerStep
<1> QED BY <1>1, <1>2, PTL DEF LedgerSpec

(* The ledger's variables keep their types (event-ledger.ts, the tables).  *)
THEOREM LedgerTypeCorrect == LedgerSpec => []LedgerTypeOK
<1>1. LedgerInv => LedgerTypeOK
    BY DEF LedgerInv
<1> QED BY <1>1, LedgerInvariant, PTL

(* The host's acknowledgement and receipts name exactly the ids the host   *)
(* has been given: ingestEventEnvelope never acknowledges a missing event. *)
THEOREM LedgerAcknowledgesOnlyReceived == LedgerSpec => []AcknowledgedWasReceived
<1>1. LedgerInv => AcknowledgedWasReceived
    BY DEF LedgerInv
<1> QED BY <1>1, LedgerInvariant, PTL

(* A redelivered id never brings a second event into the ledger.           *)
THEOREM LedgerOneEventPerSequence == LedgerSpec => []OneEventPerSequence
<1>1. LedgerInv => OneEventPerSequence
    BY DEF LedgerInv
<1> QED BY <1>1, LedgerInvariant, PTL

(* A row deleted by retention is never stored again.                       *)
THEOREM LedgerNoResurrection == LedgerSpec => []NoResurrection
<1>1. LedgerInv => NoResurrection
    BY DEF LedgerInv
<1> QED BY <1>1, LedgerInvariant, PTL

(* The receipt window never fills up: the receipts fit strictly inside the *)
(* gap, and the gap is no wider than the window, so the second throw of    *)
(* ingestEventEnvelope is dead code whenever MaxGap <= MaxReceipts.        *)
THEOREM LedgerWindowNeverFull == LedgerSpec => []WindowNeverFull
<1>1. LedgerInv => WindowNeverFull
    BY ReceiptsFit
<1> QED BY <1>1, LedgerInvariant, PTL

(* The acknowledgement never moves back and a receipt is only ever given   *)
(* up by being acknowledged.                                               *)
THEOREM LedgerAckOnlyGrows == LedgerSpec => AckOnlyGrows
<1>1. LedgerInv /\ [LedgerNext]_ledgerVars
        => [ack' >= ack /\ \A r \in receipts \ receipts' : r <= ack']_ledgerVars
    BY LedgerStep
<1> QED BY <1>1, LedgerInvariant, PTL DEF LedgerSpec, AckOnlyGrows

----------------------------------------------------------------------------
(* The stream.                                                             *)

Increasing(s) == \A i, j \in 1 .. Len(s) : i < j => s[i].seq < s[j].seq

EventsOf(envelopes) == {e.ev : e \in envelopes}

Frames == [type : {"events.resume", "event.ack"}, next : Nat]

\* Envelopes the page has let out of its memory, and all envelopes there are.
Sent == accepted \cup ToSet(toHost) \cup ToSet(storage.queue)
Known == Sent \cup ToSet(pendingEvents)

\* The queues are in the order of their numbers and below the next number; no
\* frame of the host announces more than it has acknowledged.
QueuesInOrder ==
    /\ storage = Image(storage.next, storage.queue)
    /\ toBrowser \in Seq(Frames)
    /\ \A f \in ToSet(toBrowser) : f.next \in 1 .. ack + 1
    /\ Increasing(pendingEvents) /\ \A e \in ToSet(pendingEvents) : e.seq < nextSeq
    /\ Increasing(storage.queue) /\ \A e \in ToSet(storage.queue) : e.seq < storage.next
    /\ sock = "active" => toHost = <<>>
    /\ storageLosses \in Nat

\* Numbers order the events as Foundry produced them, wherever they are.
NumbersOrderEvents == \A d, e \in Known : d.seq < e.seq <=> d.ev < e.ev

NumbersBelowNext ==
    /\ storage.next <= nextSeq
    /\ \A e \in Known : e.seq < nextSeq /\ e.ev <= published
    /\ \A e \in Sent : e.seq < storage.next

\* The page holds every number from the acknowledgement to its next one, in its
\* memory and on its disk.
NothingSkipped ==
    /\ \A s \in ack + 1 .. nextSeq - 1 : \E e \in ToSet(pendingEvents) : e.seq = s
    /\ \A s \in ack + 1 .. storage.next - 1 : \E e \in ToSet(storage.queue) : e.seq = s

KeptIsHeld ==
    \A ev \in kept :
        \/ ev \in Recorded
        \/ ev \in EventsOf(ToSet(pendingEvents)) /\ ev \in EventsOf(ToSet(storage.queue))

\* What a hook was promised is recorded in order.
KeptInOrder == \A d \in accepted, ev \in kept : ev < d.ev => ev \in Recorded

\* What is on the wire comes in the order of its numbers.  Either the host has
\* refused its predecessor, and will refuse every frame of this socket, or no
\* promised event is missing before it.
WireInOrder ==
    /\ Increasing(toHost)
    /\ \/ \A e \in ToSet(toHost) : e.seq > ack + MaxGap
       \/ \A e \in ToSet(toHost), ev \in kept :
              ev < e.ev => ev \in Recorded \/ ev \in EventsOf(ToSet(toHost))
    /\ sock = "resumed" => \A ev \in kept : ev \in Recorded \/ ev \in EventsOf(ToSet(toHost))

WhileStorageKept ==
    /\ NumbersOrderEvents /\ NumbersBelowNext /\ NothingSkipped
    /\ KeptIsHeld /\ KeptInOrder /\ WireInOrder

\* The inductive invariant of the stream.
StreamIInv == TypeOK /\ LedgerInv /\ QueuesInOrder /\ (StorageKept => WhileStorageKept)

----------------------------------------------------------------------------
(* Sequences: what the stream's operations on its queues hold and in which *)
(* order.                                                                  *)
LEMMA AppendHolds ==
    ASSUME NEW S, NEW s \in Seq(S), NEW e \in S
    PROVE  Append(s, e) \in Seq(S) /\ ToSet(Append(s, e)) = ToSet(s) \cup {e}
<1>1. /\ Append(s, e) \in Seq(S) /\ Len(s) \in Nat /\ Len(Append(s, e)) = Len(s) + 1
      /\ \A i \in 1 .. Len(s) : Append(s, e)[i] = s[i]
      /\ Append(s, e)[Len(s) + 1] = e
      /\ DOMAIN s = 1 .. Len(s) /\ DOMAIN Append(s, e) = 1 .. Len(s) + 1
    OBVIOUS
<1>2. PICK t : t = Append(s, e)
    OBVIOUS
<1>3. /\ DOMAIN t = DOMAIN s \cup {Len(s) + 1} /\ t[Len(s) + 1] = e
      /\ \A i \in DOMAIN s : t[i] = s[i]
    BY <1>1, <1>2
<1>4. ToSet(t) = ToSet(s) \cup {e}
    BY <1>3 DEF ToSet
<1> QED BY <1>1, <1>2, <1>4

(* A later number at the end keeps a queue in order.                       *)
LEMMA AppendIncreases ==
    ASSUME NEW s \in Seq(Envelopes), NEW e \in Envelopes, Increasing(s),
           \A d \in ToSet(s) : d.seq < e.seq
    PROVE  Increasing(Append(s, e))
<1>1. \A i \in 1 .. Len(s) : s[i].seq < e.seq
    BY DEF ToSet
<1>2. /\ Len(s) \in Nat /\ Len(Append(s, e)) = Len(s) + 1
      /\ \A i \in 1 .. Len(s) : Append(s, e)[i] = s[i]
      /\ Append(s, e)[Len(s) + 1] = e
    OBVIOUS
<1>3. PICK t : t = Append(s, e)
    OBVIOUS
<1>4. \A i, j \in 1 .. Len(s) + 1 : i < j => t[i].seq < t[j].seq
    <2> TAKE i, j \in 1 .. Len(s) + 1
    <2> HAVE i < j
    <2>1. i \in 1 .. Len(s) /\ t[i] = s[i]
        BY <1>2, <1>3
    <2>2. CASE j = Len(s) + 1
        BY <2>1, <2>2, <1>1, <1>2, <1>3
    <2>3. CASE j # Len(s) + 1
        <3>1. j \in 1 .. Len(s) /\ t[j] = s[j]
            BY <1>2, <1>3, <2>3
        <3> QED BY <2>1, <3>1 DEF Increasing
    <2> QED BY <2>2, <2>3
<1> QED BY <1>2, <1>3, <1>4 DEF Increasing

(* Reading a queue's head.                                                 *)
LEMMA TailHolds ==
    ASSUME NEW S, NEW s \in Seq(S), s # <<>>
    PROVE  /\ Head(s) \in S /\ Tail(s) \in Seq(S)
           /\ ToSet(s) = {Head(s)} \cup ToSet(Tail(s))
<1>1. /\ Head(s) \in S /\ Tail(s) \in Seq(S) /\ Len(s) \in Nat /\ Len(s) >= 1
      /\ Head(s) = s[1] /\ Len(Tail(s)) = Len(s) - 1
      /\ \A i \in 1 .. Len(s) - 1 : Tail(s)[i] = s[i + 1]
      /\ DOMAIN s = 1 .. Len(s) /\ DOMAIN Tail(s) = 1 .. Len(s) - 1
    OBVIOUS
<1>2. PICK t : t = Tail(s)
    OBVIOUS
<1>3. \A i \in DOMAIN t : i + 1 \in DOMAIN s /\ t[i] = s[i + 1]
    BY <1>1, <1>2
<1>4. \A i \in DOMAIN s : s[i] = s[1] \/ (i - 1 \in DOMAIN t /\ t[i - 1] = s[i])
    BY <1>1, <1>2
<1>5. ToSet(s) = {s[1]} \cup ToSet(t)
    <2>1. 1 \in DOMAIN s
        BY <1>1
    <2> QED BY <1>3, <1>4, <2>1 DEF ToSet
<1> QED BY <1>1, <1>2, <1>5

(* The head's number is the least.                                         *)
LEMMA TailIncreases ==
    ASSUME NEW s \in Seq(Envelopes), s # <<>>, Increasing(s)
    PROVE  Increasing(Tail(s)) /\ \A e \in ToSet(Tail(s)) : Head(s).seq < e.seq
<1>1. /\ Tail(s) \in Seq(Envelopes) /\ Len(s) \in Nat /\ Len(s) >= 1
      /\ Head(s) = s[1] /\ Len(Tail(s)) = Len(s) - 1
      /\ \A i \in 1 .. Len(s) - 1 : Tail(s)[i] = s[i + 1]
      /\ DOMAIN Tail(s) = 1 .. Len(s) - 1
    OBVIOUS
<1>2. PICK t : t = Tail(s)
    OBVIOUS
<1>3. \A i \in 1 .. Len(s) - 1 : i + 1 \in 1 .. Len(s) /\ 1 < i + 1 /\ t[i] = s[i + 1]
    BY <1>1, <1>2
<1>4. \A i, j \in 1 .. Len(s) - 1 : i < j => t[i].seq < t[j].seq
    BY <1>1, <1>3 DEF Increasing
<1>5. 1 \in 1 .. Len(s)
    BY <1>1
<1>6. \A i \in 1 .. Len(s) - 1 : s[1].seq < t[i].seq
    BY <1>3, <1>5 DEF Increasing
<1> QED BY <1>1, <1>2, <1>4, <1>6 DEF Increasing, ToSet

(* The empty sequence holds nothing, in order.                             *)
LEMMA EmptyHolds ==
    \A S : <<>> \in Seq(S) /\ ToSet(<<>>) = {} /\ Increasing(<<>>)
BY DEF ToSet, Increasing

(* What the page keeps after an announcement: the envelopes numbered from  *)
(* `next` on, in their order (the filter of #receive).                     *)
LEMMA OutstandingHolds ==
    ASSUME NEW announced \in Nat, pendingEvents \in Seq(Envelopes), Increasing(pendingEvents)
    PROVE  /\ OutstandingAfter(announced) \in Seq(Envelopes)
           /\ Increasing(OutstandingAfter(announced))
           /\ ToSet(OutstandingAfter(announced)) = {e \in ToSet(pendingEvents) : e.seq >= announced}
<1> DEFINE n == Len(pendingEvents)
           reached == {i \in 1 .. n + 1 : i <= n => pendingEvents[i].seq >= announced}
           f == FirstOutstanding(announced)
<1>1. n \in Nat /\ \A i \in 1 .. n : pendingEvents[i] \in Envelopes
    OBVIOUS
<1>2. \A e \in Envelopes : e.seq \in Nat
    BY SeqsAssumption DEF Envelopes
<1>3. PICK first \in reached : \A i \in reached : first <= i
    <2>1. n + 1 \in reached /\ reached \subseteq Nat
        BY <1>1
    <2>2. reached # {} /\ reached \subseteq Nat
        BY <2>1
    <2> HIDE DEF reached, n
    <2> QED BY <2>2, LeastNatural
<1>4. \A j \in 1 .. first - 1 : pendingEvents[j].seq < announced
    <2> TAKE j \in 1 .. first - 1
    <2>1. j \in 1 .. n /\ j < first
        BY <1>1, <1>3
    <2>2. j \notin reached
        BY <1>3, <2>1
    <2>3. ~ (pendingEvents[j].seq >= announced)
        BY <2>1, <2>2, <1>1
    <2> QED BY <1>1, <1>2, <2>1, <2>3
<1>5. /\ f \in 1 .. n + 1
      /\ \A j \in 1 .. f - 1 : pendingEvents[j].seq < announced
      /\ f <= n => pendingEvents[f].seq >= announced
    <2>1. first \in 1 .. n + 1 /\ (first <= n => pendingEvents[first].seq >= announced)
        BY <1>3
    <2> QED BY <1>4, <2>1 DEF FirstOutstanding
<1> HIDE DEF f, reached
<1>6. PICK t : t = SubSeq(pendingEvents, f, n)
    OBVIOUS
<1>7. /\ t \in Seq(Envelopes) /\ Len(t) = n + 1 - f
      /\ \A i \in 1 .. n + 1 - f : t[i] = pendingEvents[f + i - 1]
    BY <1>1, <1>5, <1>6
<1>8. \A i \in 1 .. n + 1 - f : f + i - 1 \in f .. n
    BY <1>1, <1>5
<1>9. Increasing(t)
    <2>1. \A i, j \in 1 .. n + 1 - f :
              i < j => f + i - 1 \in 1 .. n /\ f + j - 1 \in 1 .. n /\ f + i - 1 < f + j - 1
        BY <1>1, <1>5
    <2>2. \A i, j \in 1 .. n : i < j => pendingEvents[i].seq < pendingEvents[j].seq
        BY DEF Increasing
    <2> QED BY <1>7, <2>1, <2>2 DEF Increasing
<1>10. \A i \in f .. n : pendingEvents[i].seq >= announced
    <2> TAKE i \in f .. n
    <2>1. f <= n /\ f \in 1 .. n /\ i \in 1 .. n
        BY <1>1, <1>5
    <2>2. pendingEvents[f].seq >= announced /\ pendingEvents[f].seq \in Nat /\ pendingEvents[i].seq \in Nat
        BY <1>1, <1>2, <1>5, <2>1
    <2>3. f < i => pendingEvents[f].seq < pendingEvents[i].seq
        BY <2>1 DEF Increasing
    <2> QED BY <2>1, <2>2, <2>3
<1>11. ToSet(t) = {pendingEvents[i] : i \in f .. n}
    <2>1. \A i \in f .. n : i + 1 - f \in 1 .. n + 1 - f /\ t[i + 1 - f] = pendingEvents[i]
        BY <1>1, <1>5, <1>7
    <2>2. DOMAIN t = 1 .. n + 1 - f
        BY <1>7
    <2> QED BY <1>7, <1>8, <2>1, <2>2 DEF ToSet
<1>12. ToSet(pendingEvents) = {pendingEvents[i] : i \in 1 .. n}
    BY DEF ToSet
<1>13. {pendingEvents[i] : i \in f .. n} = {e \in {pendingEvents[i] : i \in 1 .. n} : e.seq >= announced}
    <2>1. \A i \in 1 .. n : pendingEvents[i].seq >= announced => i \in f .. n
        <3> TAKE i \in 1 .. n
        <3>1. pendingEvents[i].seq \in Nat
            BY <1>1, <1>2
        <3>2. i < f => pendingEvents[i].seq < announced
            BY <1>1, <1>5
        <3> QED BY <1>1, <1>5, <3>1, <3>2
    <2>2. f .. n \subseteq 1 .. n
        BY <1>5
    <2> QED BY <1>10, <2>1, <2>2
<1>14. OutstandingAfter(announced) = t
    BY <1>6 DEF OutstandingAfter, f
<1> QED BY <1>7, <1>9, <1>11, <1>12, <1>13, <1>14

----------------------------------------------------------------------------
(* Types, and the ledger's facts in the stream's terms.                    *)
LEMMA EnvelopeTypes ==
    /\ MaxPublish \in Nat
    /\ \A e \in Envelopes : /\ e.seq \in 1 .. MaxPublish /\ e.ev \in 1 .. MaxPublish
                            /\ e.seq \in Nat /\ e.ev \in Nat
BY StreamAssumption DEF Envelopes

(* What the invariant says of the sets the envelopes are in.               *)
LEMMA StreamTypes ==
    ASSUME StreamIInv
    PROVE  /\ ack \in Nat /\ ack <= MaxPublish /\ receipts \subseteq Nat
           /\ published \in Nat /\ nextSeq \in Nat /\ storage.next \in Nat
           /\ accepted \subseteq Envelopes /\ ToSet(toHost) \subseteq Envelopes
           /\ ToSet(pendingEvents) \subseteq Envelopes /\ ToSet(storage.queue) \subseteq Envelopes
           /\ Sent \subseteq Envelopes /\ Known \subseteq Envelopes
           /\ kept \subseteq Nat
<1>1. LedgerTypeOK /\ AcknowledgedWasReceived /\ TypeOK
    BY DEF StreamIInv, LedgerInv
<1>2. ack \in Nat /\ receipts \subseteq Nat /\ accepted \subseteq Envelopes
    BY <1>1, SeqsAssumption DEF LedgerTypeOK
<1>3. ack <= MaxPublish
    <2>1. CASE ack = 0
        BY <2>1, EnvelopeTypes
    <2>2. CASE ack # 0
        <3>1. ack \in SeqsOf(accepted)
            BY <1>1, <1>2, <2>2 DEF AcknowledgedWasReceived
        <3> QED BY <1>2, <3>1, EnvelopeTypes DEF SeqsOf
    <2> QED BY <2>1, <2>2
<1>4. /\ published \in Nat /\ nextSeq \in Nat /\ storage.next \in Nat /\ kept \subseteq Nat
      /\ toHost \in Seq(Envelopes) /\ pendingEvents \in Seq(Envelopes)
      /\ storage.queue \in Seq(Envelopes)
    BY <1>1, EnvelopeTypes DEF TypeOK
<1>5. \A s \in Seq(Envelopes) : ToSet(s) \subseteq Envelopes
    BY DEF ToSet
<1>6. /\ ToSet(toHost) \subseteq Envelopes /\ ToSet(pendingEvents) \subseteq Envelopes
      /\ ToSet(storage.queue) \subseteq Envelopes
    BY <1>4, <1>5
<1> QED BY <1>2, <1>3, <1>4, <1>6 DEF Sent, Known

(* While the page keeps its storage, an id the host has accounted for is   *)
(* below the page's next one, and whatever carries it is recorded.         *)
LEMMA AcknowledgedIsRecorded ==
    ASSUME StreamIInv, StorageKept
    PROVE  /\ ack < nextSeq /\ ack < storage.next
           /\ \A e \in Known : e.seq \in SeqsOf(accepted) => e.ev \in Recorded
           /\ \A e \in Known : e.seq <= ack => e.ev \in Recorded
           /\ \A r \in receipts : r < nextSeq
<1>1. /\ Known \subseteq Envelopes /\ accepted \subseteq Known /\ accepted \subseteq Sent
      /\ ack \in Nat /\ nextSeq \in Nat /\ storage.next \in Nat /\ receipts \subseteq Nat
    BY StreamTypes DEF Known, Sent
<1>2. /\ SeqsOf(accepted) = (1 .. ack) \cup receipts
      /\ NumbersOrderEvents /\ NumbersBelowNext
      /\ nextSeq >= 1 /\ storage.next >= 1
    BY EnvelopeTypes DEF StreamIInv, WhileStorageKept, LedgerInv, AcknowledgedWasReceived, TypeOK
<1>3. \A s \in SeqsOf(accepted) : s < nextSeq /\ s < storage.next
    BY <1>1, <1>2 DEF SeqsOf, NumbersBelowNext
<1>4. ack = 0 \/ ack \in SeqsOf(accepted)
    BY <1>1, <1>2
<1>5. ack < nextSeq /\ ack < storage.next
    BY <1>1, <1>2, <1>3, <1>4
<1>6. ASSUME NEW e \in Known, e.seq \in SeqsOf(accepted)
      PROVE  e.ev \in Recorded
    <2>1. PICK d \in accepted : d.seq = e.seq
        BY <1>6 DEF SeqsOf
    <2>2. d \in Known /\ d \in Envelopes /\ e \in Envelopes
        BY <1>1
    <2>3. /\ d.seq < e.seq <=> d.ev < e.ev
          /\ e.seq < d.seq <=> e.ev < d.ev
        BY <1>2, <2>2 DEF NumbersOrderEvents
    <2>4. d.ev = e.ev
        BY <2>1, <2>2, <2>3, EnvelopeTypes
    <2> QED BY <2>4 DEF Recorded
<1>7. \A e \in Known : e.seq <= ack => e.seq \in SeqsOf(accepted)
    BY <1>1, <1>2, EnvelopeTypes
<1> QED BY <1>2, <1>3, <1>5, <1>6, <1>7

(* A step that leaves the ledger alone.                                    *)
LEMMA LedgerUnchanged ==
    ASSUME LedgerInv, UNCHANGED ledgerVars
    PROVE  LedgerInv'
BY DEF ledgerVars, LedgerInv, LedgerTypeOK, AcknowledgedWasReceived,
       ReceiptsAhead, OneEventPerSequence, RowsWereAccepted, NoResurrection

----------------------------------------------------------------------------
(* publish numbers and queues the event, above everything that is known.   *)
LEMMA EnqueueEffect ==
    ASSUME StreamIInv, NEW env \in Envelopes, Enqueue(env)
    PROVE  /\ env.seq = nextSeq /\ env.ev = published + 1
           /\ nextSeq' = nextSeq + 1 /\ published' = published + 1
           /\ nextSeq' \in 1 .. MaxPublish + 1 /\ published' \in 0 .. MaxPublish
           /\ pendingEvents' \in Seq(Envelopes) /\ Increasing(pendingEvents')
           /\ ToSet(pendingEvents') = ToSet(pendingEvents) \cup {env}
           /\ \A e \in ToSet(pendingEvents') : e.seq < nextSeq'
<1>1. /\ env = [seq |-> nextSeq, ev |-> published + 1] /\ published < MaxPublish
      /\ nextSeq' = nextSeq + 1 /\ published' = published + 1
      /\ pendingEvents' = Append(pendingEvents, env)
    BY DEF Enqueue
<1>2. env.seq = nextSeq /\ env.ev = published + 1
    BY <1>1
<1>3. pendingEvents \in Seq(Envelopes) /\ Increasing(pendingEvents)
      /\ \A e \in ToSet(pendingEvents) : e.seq < nextSeq
    BY DEF StreamIInv, TypeOK, QueuesInOrder
<1>4. ToSet(pendingEvents) \subseteq Envelopes /\ nextSeq \in Nat /\ published \in Nat
    BY StreamTypes
<1>5. Append(pendingEvents, env) \in Seq(Envelopes)
      /\ ToSet(Append(pendingEvents, env)) = ToSet(pendingEvents) \cup {env}
    BY <1>3, AppendHolds
<1>6. Increasing(Append(pendingEvents, env))
    BY <1>2, <1>3, AppendIncreases
<1>7. nextSeq' \in 1 .. MaxPublish + 1 /\ published' \in 0 .. MaxPublish
    BY <1>1, <1>2, <1>4, EnvelopeTypes
<1>8. \A e \in ToSet(pendingEvents) \cup {env} : e.seq < nextSeq'
    BY <1>1, <1>2, <1>3, <1>4, EnvelopeTypes
<1> QED BY <1>1, <1>2, <1>5, <1>6, <1>7, <1>8

(* The order of numbers and events survives an event beyond both.          *)
LEMMA OrderExtends ==
    ASSUME NEW K \in SUBSET Envelopes, NEW env \in Envelopes,
           \A d, e \in K : d.seq < e.seq <=> d.ev < e.ev,
           \A e \in K : e.seq < env.seq /\ e.ev < env.ev
    PROVE  \A d, e \in K \cup {env} : d.seq < e.seq <=> d.ev < e.ev
BY EnvelopeTypes

(* The event is queued and publish throws: localStorage refused the write, *)
(* or the window is full.                                                  *)
LEMMA QueuedOnlyStep ==
    ASSUME StreamIInv, NEW env \in Envelopes, Enqueue(env),
           UNCHANGED <<ledgerVars, wireVars, storage, kept, storageLosses>>
    PROVE  StreamIInv'
<1>0. /\ TypeOK /\ LedgerInv /\ QueuesInOrder
      /\ UNCHANGED <<ack, receipts, rows, accepted, pruned>>
      /\ UNCHANGED <<sock, hostSock, toHost, toBrowser, storage, kept, storageLosses>>
    BY DEF StreamIInv, ledgerVars, wireVars
<1>1. LedgerInv'
    BY <1>0, LedgerUnchanged
<1>2. TypeOK'
    <2>1. kept' \subseteq 1 .. published'
        BY <1>0, EnqueueEffect, StreamTypes DEF TypeOK
    <2>2. LedgerTypeOK'
        BY <1>1 DEF LedgerInv
    <2> QED BY <1>0, <2>1, <2>2, EnqueueEffect DEF TypeOK
<1>3. QueuesInOrder'
    BY <1>0, EnqueueEffect DEF QueuesInOrder
<1>4. ASSUME StorageKept' PROVE WhileStorageKept'
    <2>0. StorageKept
        BY <1>0, <1>4 DEF StorageKept
    <2>1. /\ NumbersOrderEvents /\ NumbersBelowNext /\ NothingSkipped
          /\ KeptIsHeld /\ KeptInOrder /\ WireInOrder
        BY <2>0 DEF StreamIInv, WhileStorageKept
    <2>2. Sent' = Sent /\ Known' = Known \cup {env}
        BY <1>0, EnqueueEffect DEF Sent, Known
    <2>3. /\ env.seq = nextSeq /\ env.ev = published + 1
          /\ nextSeq' = nextSeq + 1 /\ published' = published + 1
          /\ ToSet(pendingEvents') = ToSet(pendingEvents) \cup {env}
          /\ published \in Nat /\ nextSeq \in Nat /\ storage.next \in Nat /\ ack \in Nat
          /\ Known \subseteq Envelopes
        BY EnqueueEffect, StreamTypes
    <2>4. \A e \in Known : e.seq < env.seq /\ e.ev < env.ev
        BY <2>1, <2>3, EnvelopeTypes DEF NumbersBelowNext
    <2>5. NumbersOrderEvents'
        <3>1. \A d, e \in Known \cup {env} : d.seq < e.seq <=> d.ev < e.ev
            BY <2>1, <2>3, <2>4, OrderExtends DEF NumbersOrderEvents
        <3> QED BY <2>2, <3>1 DEF NumbersOrderEvents
    <2>6. NumbersBelowNext'
        <3>1. storage.next <= nextSeq + 1
            BY <2>1, <2>3 DEF NumbersBelowNext
        <3>2. \A e \in Known \cup {env} : e.seq < nextSeq + 1 /\ e.ev <= published + 1
            BY <2>1, <2>3, EnvelopeTypes DEF NumbersBelowNext
        <3>3. \A e \in Sent : e.seq < storage.next
            BY <2>1 DEF NumbersBelowNext
        <3> QED BY <1>0, <2>2, <2>3, <3>1, <3>2, <3>3 DEF NumbersBelowNext
    <2>7. NothingSkipped'
        <3>1. \A s \in ack + 1 .. nextSeq : s = nextSeq \/ s \in ack + 1 .. nextSeq - 1
            BY <2>3
        <3>2. \A s \in ack + 1 .. nextSeq :
                  \E e \in ToSet(pendingEvents) \cup {env} : e.seq = s
            BY <2>1, <2>3, <3>1 DEF NothingSkipped
        <3>3. nextSeq' - 1 = nextSeq /\ ack' = ack
            BY <1>0, <2>3
        <3>4. \A s \in ack + 1 .. storage.next - 1 : \E e \in ToSet(storage.queue) : e.seq = s
            BY <2>1 DEF NothingSkipped
        <3> QED BY <1>0, <2>3, <3>2, <3>3, <3>4 DEF NothingSkipped
    <2>8. KeptIsHeld'
        BY <1>0, <2>1, <2>3 DEF KeptIsHeld, EventsOf, Recorded
    <2>9. KeptInOrder' /\ WireInOrder'
        BY <1>0, <2>1 DEF KeptInOrder, WireInOrder, EventsOf, Recorded
    <2> QED BY <2>5, <2>6, <2>7, <2>8, <2>9 DEF WhileStorageKept
<1> QED BY <1>1, <1>2, <1>3, <1>4 DEF StreamIInv

(* publish returns: the event is queued, saved and, on a live socket, sent.*)
LEMMA PublishSavedStep ==
    ASSUME StreamIInv, PublishSaved
    PROVE  StreamIInv'
<1>0. PICK env \in Envelopes :
          /\ Enqueue(env) /\ storage' = Image(nextSeq', pendingEvents')
          /\ Emit(env) /\ kept' = kept \cup {env.ev}
          /\ UNCHANGED <<ledgerVars, sock, hostSock, toBrowser, storageLosses>>
    BY DEF PublishSaved, PersistOk
<1>1. TypeOK /\ LedgerInv /\ QueuesInOrder
    BY DEF StreamIInv
<1>2. /\ env.seq = nextSeq /\ env.ev = published + 1
      /\ nextSeq' = nextSeq + 1 /\ published' = published + 1
      /\ nextSeq' \in 1 .. MaxPublish + 1 /\ published' \in 0 .. MaxPublish
      /\ pendingEvents' \in Seq(Envelopes) /\ Increasing(pendingEvents')
      /\ ToSet(pendingEvents') = ToSet(pendingEvents) \cup {env}
      /\ \A e \in ToSet(pendingEvents') : e.seq < nextSeq'
    BY <1>0, EnqueueEffect
<1>3. /\ published \in Nat /\ nextSeq \in Nat /\ storage.next \in Nat /\ ack \in Nat
      /\ Known \subseteq Envelopes /\ kept \subseteq Nat
    BY StreamTypes
<1>4. /\ storage'.next = nextSeq' /\ storage'.queue = pendingEvents'
      /\ storage' = Image(storage'.next, storage'.queue)
    BY <1>0 DEF Image
<1>5. /\ UNCHANGED <<ack, receipts, rows, accepted, pruned>>
      /\ UNCHANGED <<sock, hostSock, toBrowser, storageLosses>>
    BY <1>0 DEF ledgerVars
<1>6. /\ toHost' \in Seq(Envelopes)
      /\ sock = "resumed" => /\ toHost' = Append(toHost, env)
                             /\ ToSet(toHost') = ToSet(toHost) \cup {env}
      /\ sock # "resumed" => toHost' = toHost
    <2>1. toHost \in Seq(Envelopes)
        BY <1>1 DEF TypeOK
    <2>2. /\ Append(toHost, env) \in Seq(Envelopes)
          /\ ToSet(Append(toHost, env)) = ToSet(toHost) \cup {env}
        BY <2>1, AppendHolds
    <2> QED BY <1>0, <2>1, <2>2 DEF Emit
<1>7. LedgerInv'
    BY <1>0, <1>1, LedgerUnchanged
<1>8. TypeOK'
    <2>1. kept' \subseteq 1 .. published'
        <3>1. kept \subseteq 1 .. published
            BY <1>1 DEF TypeOK
        <3>2. 1 .. published \subseteq 1 .. published + 1 /\ env.ev \in 1 .. published + 1
            BY <1>2, <1>3
        <3> QED BY <1>0, <1>2, <3>1, <3>2
    <2>2. LedgerTypeOK'
        BY <1>7 DEF LedgerInv
    <2> QED BY <1>1, <1>2, <1>4, <1>5, <1>6, <2>1, <2>2 DEF TypeOK
<1>9. QueuesInOrder'
    BY <1>1, <1>2, <1>4, <1>5, <1>6 DEF QueuesInOrder
<1>10. ASSUME StorageKept' PROVE WhileStorageKept'
    <2>0. StorageKept
        BY <1>5, <1>10 DEF StorageKept
    <2>1. /\ NumbersOrderEvents /\ NumbersBelowNext /\ NothingSkipped
          /\ KeptIsHeld /\ KeptInOrder /\ WireInOrder
        BY <2>0 DEF StreamIInv, WhileStorageKept
    <2>2. ToSet(toHost') \subseteq ToSet(toHost) \cup {env}
        BY <1>6
    <2>3. Sent' \subseteq Known \cup {env} /\ Known' \subseteq Known \cup {env}
        BY <1>2, <1>4, <1>5, <2>2 DEF Sent, Known
    <2>4. \A e \in Known : e.seq < env.seq /\ e.ev < env.ev
        BY <1>2, <1>3, <2>1, EnvelopeTypes DEF NumbersBelowNext
    <2>5. NumbersOrderEvents'
        <3>1. \A d, e \in Known \cup {env} : d.seq < e.seq <=> d.ev < e.ev
            BY <1>3, <2>1, <2>4, OrderExtends DEF NumbersOrderEvents
        <3> QED BY <2>3, <3>1 DEF NumbersOrderEvents
    <2>6. NumbersBelowNext'
        <3>1. \A e \in Known \cup {env} : e.seq < nextSeq + 1 /\ e.ev <= published + 1
            BY <1>2, <1>3, <2>1, EnvelopeTypes DEF NumbersBelowNext
        <3> QED BY <1>2, <1>3, <1>4, <2>3, <3>1 DEF NumbersBelowNext
    <2>7. NothingSkipped'
        <3>1. \A s \in ack + 1 .. nextSeq : s = nextSeq \/ s \in ack + 1 .. nextSeq - 1
            BY <1>3
        <3>2. \A s \in ack + 1 .. nextSeq :
                  \E e \in ToSet(pendingEvents) \cup {env} : e.seq = s
            BY <1>2, <2>1, <3>1 DEF NothingSkipped
        <3>3. nextSeq' - 1 = nextSeq /\ storage'.next - 1 = nextSeq /\ ack' = ack
            BY <1>2, <1>3, <1>4, <1>5
        <3> QED BY <1>2, <1>4, <3>2, <3>3 DEF NothingSkipped
    <2>8. KeptIsHeld'
        BY <1>0, <1>2, <1>4, <1>5, <2>1 DEF KeptIsHeld, EventsOf, Recorded
    <2>9. KeptInOrder'
        <3>1. \A d \in accepted : ~ (env.ev < d.ev)
            BY <1>2, <1>3, <2>1, EnvelopeTypes DEF NumbersBelowNext, Known, Sent
        <3> QED BY <1>0, <1>5, <2>1, <3>1 DEF KeptInOrder, Recorded
    <2>10. WireInOrder'
        <3>1. CASE sock = "resumed"
            <4>1. Increasing(toHost')
                <5>1. \A e \in ToSet(toHost) : e.seq < env.seq
                    BY <2>4 DEF Known, Sent
                <5> QED BY <1>1, <1>6, <2>1, <3>1, <5>1, AppendIncreases DEF TypeOK, WireInOrder
            <4>2. \A ev \in kept' : ev \in Recorded \/ ev \in EventsOf(ToSet(toHost'))
                BY <1>0, <1>6, <2>1, <3>1 DEF WireInOrder, EventsOf
            <4> QED BY <1>5, <3>1, <4>1, <4>2 DEF WireInOrder, Recorded
        <3>2. CASE sock # "resumed"
            <4>1. \A e \in ToSet(toHost) : ~ (env.ev < e.ev)
                BY <1>2, <1>3, <2>1, EnvelopeTypes DEF NumbersBelowNext, Known, Sent
            <4> QED BY <1>0, <1>5, <1>6, <2>1, <3>2, <4>1 DEF WireInOrder, Recorded
        <3> QED BY <3>1, <3>2
    <2> QED BY <2>5, <2>6, <2>7, <2>8, <2>9, <2>10 DEF WhileStorageKept
<1> QED BY <1>7, <1>8, <1>9, <1>10 DEF StreamIInv

----------------------------------------------------------------------------
(* An announcement of the host: the page forgets what is acknowledged and, *)
(* when it resumes, replays the rest on the socket.                        *)
LEMMA AnnouncedStep ==
    ASSUME StreamIInv, toBrowser # <<>>, NEW announced, announced = Head(toBrowser).next,
           pendingEvents' = OutstandingAfter(announced), nextSeq' = NumberAfter(announced),
           toBrowser' = Tail(toBrowser),
           storage' = storage \/ storage' = Image(nextSeq', pendingEvents'),
           \/ toHost' = toHost /\ (sock' = "closing" \/ (sock' = sock /\ sock # "active"))
           \/ /\ sock = "active" /\ sock' = "resumed" /\ toHost' = toHost \o pendingEvents'
              /\ storage' = Image(nextSeq', pendingEvents'),
           UNCHANGED <<ledgerVars, hostSock, published, kept, storageLosses>>
    PROVE  StreamIInv'
<1>1. /\ TypeOK /\ LedgerInv /\ QueuesInOrder
      /\ UNCHANGED <<ack, receipts, rows, accepted, pruned>>
    BY DEF StreamIInv, ledgerVars
<1>2. /\ Head(toBrowser) \in Frames /\ Tail(toBrowser) \in Seq(Frames)
      /\ ToSet(toBrowser) = {Head(toBrowser)} \cup ToSet(Tail(toBrowser))
    BY <1>1, TailHolds DEF QueuesInOrder
<1>3. announced \in 1 .. ack + 1 /\ \A f \in ToSet(toBrowser') : f.next \in 1 .. ack + 1
    BY <1>1, <1>2 DEF QueuesInOrder
<1>4. /\ published \in Nat /\ nextSeq \in Nat /\ storage.next \in Nat /\ ack \in Nat
      /\ ack <= MaxPublish /\ Known \subseteq Envelopes /\ ToSet(pendingEvents) \subseteq Envelopes
    BY StreamTypes
<1>5. /\ pendingEvents' \in Seq(Envelopes) /\ Increasing(pendingEvents')
      /\ ToSet(pendingEvents') = {e \in ToSet(pendingEvents) : e.seq >= announced}
    <2>1. pendingEvents \in Seq(Envelopes) /\ Increasing(pendingEvents) /\ announced \in Nat
        BY <1>1, <1>3, <1>4 DEF TypeOK, QueuesInOrder
    <2> QED BY <2>1, OutstandingHolds
<1>6. /\ nextSeq' \in 1 .. MaxPublish + 1 /\ nextSeq' >= nextSeq
      /\ nextSeq' = nextSeq \/ nextSeq' = announced
    BY <1>1, <1>3, <1>4, EnvelopeTypes DEF NumberAfter, TypeOK
<1>7. \A e \in ToSet(pendingEvents') : e.seq < nextSeq'
    BY <1>1, <1>4, <1>5, <1>6, EnvelopeTypes DEF QueuesInOrder
<1>8. /\ \/ storage'.next = storage.next /\ storage'.queue = storage.queue
         \/ storage'.next = nextSeq' /\ storage'.queue = pendingEvents'
      /\ storage' = Image(storage'.next, storage'.queue)
    <2>1. CASE storage' = storage
        BY <1>1, <2>1 DEF QueuesInOrder
    <2>2. CASE storage' = Image(nextSeq', pendingEvents')
        BY <2>2 DEF Image
    <2> QED BY <2>1, <2>2
<1>9. /\ \/ toHost' = toHost /\ (sock' = "closing" \/ (sock' = sock /\ sock # "active"))
         \/ /\ sock = "active" /\ sock' = "resumed" /\ toHost' = pendingEvents' /\ toHost = <<>>
            /\ storage'.next = nextSeq' /\ storage'.queue = pendingEvents'
      /\ toHost' \in Seq(Envelopes)
    <2>1. sock = "active" => toHost = <<>>
        BY <1>1 DEF QueuesInOrder
    <2>2. <<>> \o pendingEvents' = pendingEvents'
        BY <1>5
    <2>3. CASE toHost' = toHost /\ (sock' = "closing" \/ (sock' = sock /\ sock # "active"))
        BY <1>1, <2>3 DEF TypeOK
    <2>4. CASE /\ sock = "active" /\ sock' = "resumed" /\ toHost' = toHost \o pendingEvents'
               /\ storage' = Image(nextSeq', pendingEvents')
        <3>1. storage'.next = nextSeq' /\ storage'.queue = pendingEvents'
            BY <2>4 DEF Image
        <3>2. toHost' = pendingEvents'
            BY <2>1, <2>2, <2>4
        <3> QED BY <1>5, <2>1, <2>4, <3>1, <3>2
    <2> QED BY <2>3, <2>4
<1>10. LedgerInv'
    BY <1>1, LedgerUnchanged
<1>11. TypeOK'
    <2>1. LedgerTypeOK'
        BY <1>10 DEF LedgerInv
    <2>2. storage'.next \in 1 .. MaxPublish + 1 /\ storage'.queue \in Seq(Envelopes)
        BY <1>1, <1>5, <1>6, <1>8 DEF TypeOK
    <2>3. \A i \in 1 .. Len(toBrowser') : toBrowser'[i] \in Frames
        BY <1>2
    <2>4. sock' \in SocketStates
        BY <1>1, <1>9 DEF TypeOK, SocketStates
    <2> QED BY <1>1, <1>5, <1>6, <1>9, <2>1, <2>2, <2>3, <2>4 DEF TypeOK, Frames
<1>12. QueuesInOrder'
    <2>1. Increasing(storage'.queue) /\ \A e \in ToSet(storage'.queue) : e.seq < storage'.next
        BY <1>1, <1>5, <1>7, <1>8 DEF QueuesInOrder
    <2> QED BY <1>1, <1>2, <1>3, <1>5, <1>7, <1>8, <1>9, <2>1 DEF QueuesInOrder
<1>13. ASSUME StorageKept' PROVE WhileStorageKept'
    <2>0. StorageKept
        BY <1>13 DEF StorageKept
    <2>1. /\ NumbersOrderEvents /\ NumbersBelowNext /\ NothingSkipped
          /\ KeptIsHeld /\ KeptInOrder /\ WireInOrder
        BY <2>0 DEF StreamIInv, WhileStorageKept
    <2>2. /\ ack < nextSeq /\ ack < storage.next
          /\ \A e \in Known : e.seq <= ack => e.ev \in Recorded
        BY <2>0, AcknowledgedIsRecorded
    <2>3. nextSeq' = nextSeq
        BY <1>3, <1>4, <2>2 DEF NumberAfter
    <2>4. ToSet(pendingEvents') \subseteq ToSet(pendingEvents)
        BY <1>5
    <2>5. Sent' \subseteq Known /\ Known' \subseteq Known
        <3>1. ToSet(storage'.queue) \subseteq ToSet(storage.queue) \cup ToSet(pendingEvents)
            BY <1>8, <2>4
        <3>2. ToSet(toHost') \subseteq ToSet(toHost) \cup ToSet(pendingEvents)
            BY <1>9, <2>4
        <3> QED BY <1>1, <2>4, <3>1, <3>2 DEF Sent, Known
    <2>6. NumbersOrderEvents'
        BY <2>1, <2>5 DEF NumbersOrderEvents
    <2>7. NumbersBelowNext'
        <3>1. CASE storage'.next = nextSeq' /\ storage'.queue = pendingEvents'
            BY <1>4, <2>1, <2>3, <2>5, <3>1 DEF NumbersBelowNext
        <3>2. CASE storage'.next = storage.next /\ storage'.queue = storage.queue
            <4>1. ASSUME toHost' = toHost
                  PROVE  Sent' \subseteq Sent
                BY <1>1, <3>2, <4>1 DEF Sent
            <4>2. CASE toHost' = toHost
                BY <2>1, <2>3, <2>5, <3>2, <4>1, <4>2 DEF NumbersBelowNext
            <4>3. CASE sock' = "resumed" /\ sock = "active"
                <5>1. storage'.next = nextSeq'
                    BY <1>9, <4>3
                <5> QED BY <1>4, <2>1, <2>3, <2>5, <5>1 DEF NumbersBelowNext
            <4> QED BY <1>9, <4>2, <4>3
        <3> QED BY <1>8, <3>1, <3>2
    <2>8. NothingSkipped'
        <3>1. \A s \in ack + 1 .. nextSeq - 1 : \E e \in ToSet(pendingEvents') : e.seq = s
            BY <1>3, <1>4, <1>5, <2>1 DEF NothingSkipped
        <3>2. CASE storage'.next = nextSeq' /\ storage'.queue = pendingEvents'
            BY <1>1, <2>3, <3>1, <3>2 DEF NothingSkipped
        <3>3. CASE storage'.next = storage.next /\ storage'.queue = storage.queue
            BY <1>1, <2>1, <2>3, <3>1, <3>3 DEF NothingSkipped
        <3> QED BY <1>8, <3>2, <3>3
    <2>9. KeptIsHeld'
        <3>1. \A e \in ToSet(pendingEvents) : e \in ToSet(pendingEvents') \/ e.ev \in Recorded
            <4> TAKE e \in ToSet(pendingEvents)
            <4>1. e \in Known /\ e.seq \in Nat
                BY <1>4, EnvelopeTypes DEF Known
            <4>2. e.seq >= announced \/ e.seq <= ack
                BY <1>3, <1>4, <4>1
            <4> QED BY <1>5, <2>2, <4>1, <4>2
        <3>2. \A ev \in kept : ev \in Recorded \/ ev \in EventsOf(ToSet(pendingEvents'))
            BY <2>1, <3>1 DEF KeptIsHeld, EventsOf
        <3>3. \A ev \in kept : ev \in Recorded \/ ev \in EventsOf(ToSet(storage'.queue))
            BY <1>8, <2>1, <3>2 DEF KeptIsHeld
        <3> QED BY <1>1, <3>2, <3>3 DEF KeptIsHeld, Recorded
    <2>10. KeptInOrder'
        BY <1>1, <2>1 DEF KeptInOrder, Recorded
    <2>11. WireInOrder'
        <3>1. CASE toHost' = toHost /\ (sock' = "closing" \/ sock' = sock)
            BY <1>1, <2>1, <3>1 DEF WireInOrder, Recorded
        <3>2. CASE toHost' = pendingEvents'
            <4>1. \A ev \in kept : ev \in Recorded \/ ev \in EventsOf(ToSet(toHost'))
                BY <1>1, <2>9, <3>2 DEF KeptIsHeld, Recorded
            <4> QED BY <1>1, <1>5, <3>2, <4>1 DEF WireInOrder, Recorded
        <3> QED BY <1>9, <3>1, <3>2
    <2> QED BY <2>6, <2>7, <2>8, <2>9, <2>10, <2>11 DEF WhileStorageKept
<1> QED BY <1>10, <1>11, <1>12, <1>13 DEF StreamIInv

(* events.resume and event.ack are two such announcements.                 *)
LEMMA HandleStep ==
    ASSUME StreamIInv, HandleResume \/ HandleAck
    PROVE  StreamIInv'
<1>1. CASE HandleResume
    BY <1>1, AnnouncedStep DEF HandleResume, PersistOk, PersistFails, Replay
<1>2. CASE HandleAck
    BY <1>2, AnnouncedStep DEF HandleAck, PersistOk, PersistFails
<1> QED BY <1>1, <1>2

----------------------------------------------------------------------------
(* The host reads the next frame of the socket.                            *)
LEMMA AcknowledgeEffect ==
    ASSUME StreamIInv, ack' \in Nat, ack' >= ack,
           toBrowser' = Append(toBrowser, AckFrame(ack')) \/ toBrowser' = toBrowser
    PROVE  toBrowser' \in Seq(Frames) /\ \A f \in ToSet(toBrowser') : f.next \in 1 .. ack' + 1
<1>1. /\ toBrowser \in Seq(Frames) /\ ack \in Nat
      /\ \A f \in ToSet(toBrowser) : f.next \in 1 .. ack' + 1
    <2>1. /\ toBrowser \in Seq(Frames) /\ ack \in Nat
          /\ \A f \in ToSet(toBrowser) : f.next \in 1 .. ack + 1
        BY StreamTypes DEF StreamIInv, QueuesInOrder
    <2> QED BY <2>1
<1>2. AckFrame(ack') \in Frames /\ AckFrame(ack').next \in 1 .. ack' + 1
    <2>1. \A n \in Nat : AckFrame(n) \in Frames /\ AckFrame(n).next = n + 1
        BY DEF AckFrame, Frames
    <2> QED BY <2>1
<1>3. /\ Append(toBrowser, AckFrame(ack')) \in Seq(Frames)
      /\ ToSet(Append(toBrowser, AckFrame(ack'))) = ToSet(toBrowser) \cup {AckFrame(ack')}
    BY <1>1, <1>2, AppendHolds
<1> QED BY <1>1, <1>2, <1>3

(* The frame the host reads is the oldest on the wire, in number and event.*)
LEMMA FrameRead ==
    ASSUME StreamIInv, toHost # <<>>
    PROVE  /\ Head(toHost) \in Envelopes /\ Tail(toHost) \in Seq(Envelopes)
           /\ ToSet(toHost) = {Head(toHost)} \cup ToSet(Tail(toHost))
           /\ Head(toHost) \in Sent /\ Head(toHost) \in Known
           /\ StorageKept => /\ Increasing(Tail(toHost))
                             /\ \A e \in ToSet(Tail(toHost)) : /\ Head(toHost).seq < e.seq
                                                               /\ Head(toHost).ev < e.ev
<1>1. toHost \in Seq(Envelopes)
    BY DEF StreamIInv, TypeOK
<1>2. /\ Head(toHost) \in Envelopes /\ Tail(toHost) \in Seq(Envelopes)
      /\ ToSet(toHost) = {Head(toHost)} \cup ToSet(Tail(toHost))
    BY <1>1, TailHolds
<1>3. Head(toHost) \in Sent /\ Head(toHost) \in Known /\ ToSet(Tail(toHost)) \subseteq Known
    BY <1>2 DEF Sent, Known
<1>4. ASSUME StorageKept
      PROVE  /\ Increasing(Tail(toHost))
             /\ \A e \in ToSet(Tail(toHost)) : Head(toHost).seq < e.seq /\ Head(toHost).ev < e.ev
    <2>1. NumbersOrderEvents /\ Increasing(toHost)
        BY <1>4 DEF StreamIInv, WhileStorageKept, WireInOrder
    <2>2. Increasing(Tail(toHost)) /\ \A e \in ToSet(Tail(toHost)) : Head(toHost).seq < e.seq
        BY <1>1, <2>1, TailIncreases
    <2> QED BY <1>3, <2>1, <2>2 DEF NumbersOrderEvents
<1> QED BY <1>2, <1>3, <1>4

\* The frame leaves the socket, and an acknowledgement may be sent back on it.
ReadsFrame(e) ==
    /\ toHost # <<>> /\ e = Head(toHost) /\ toHost' = Tail(toHost)
    /\ toBrowser' = Append(toBrowser, AckFrame(ack')) \/ toBrowser' = toBrowser

(* What a frame's reading leaves of the invariant, whatever the ledger     *)
(* answered: a frame that is not refused is recorded now, a refused one and*)
(* all its successors lie beyond the gap.                                  *)
LEMMA FrameReadStep ==
    ASSUME StreamIInv, NEW e, ReadsFrame(e), LedgerInv', ack' >= ack,
           sock' = sock \/ sock' = "closing",
           \/ accepted' = accepted \cup {e} /\ e.seq <= ack + MaxGap
           \/ /\ accepted' = accepted /\ e.seq <= ack + MaxGap
              /\ StorageKept => e.ev \in Recorded
           \/ /\ accepted' = accepted /\ ack' = ack
              /\ e.seq > ack + MaxGap /\ sock' # "resumed",
           UNCHANGED <<browserVars, hostSock, faultVars>>
    PROVE  StreamIInv'
<1>1. /\ TypeOK /\ QueuesInOrder
      /\ UNCHANGED <<nextSeq, pendingEvents, storage, published, kept>>
      /\ UNCHANGED <<hostSock, drops, quotaFailures, storageLosses>>
    BY DEF StreamIInv, browserVars, faultVars
<1>2. /\ published \in Nat /\ nextSeq \in Nat /\ storage.next \in Nat /\ ack \in Nat
      /\ Known \subseteq Envelopes /\ MaxGap \in Nat
    BY StreamTypes, WindowAssumption
<1>3. ack' \in Nat /\ LedgerTypeOK'
    BY DEF LedgerInv, LedgerTypeOK
<1>4. toBrowser' \in Seq(Frames) /\ \A f \in ToSet(toBrowser') : f.next \in 1 .. ack' + 1
    BY <1>3, AcknowledgeEffect DEF ReadsFrame
<1>5. /\ e \in Envelopes /\ toHost' \in Seq(Envelopes)
      /\ ToSet(toHost) = {e} \cup ToSet(toHost')
      /\ e \in Sent /\ e \in Known
      /\ StorageKept => /\ Increasing(toHost')
                        /\ \A d \in ToSet(toHost') : e.seq < d.seq /\ e.ev < d.ev
    BY FrameRead DEF ReadsFrame
<1>6. TypeOK'
    <2>1. \A i \in 1 .. Len(toBrowser') : toBrowser'[i] \in Frames
        BY <1>4
    <2>2. sock' \in SocketStates
        BY <1>1 DEF TypeOK, SocketStates
    <2> QED BY <1>1, <1>3, <1>5, <2>1, <2>2 DEF TypeOK, Frames
<1>7. QueuesInOrder'
    <2>1. sock' # "active"
        BY <1>1 DEF QueuesInOrder, ReadsFrame
    <2> QED BY <1>1, <1>4, <2>1 DEF QueuesInOrder
<1>8. ASSUME StorageKept' PROVE WhileStorageKept'
    <2>0. StorageKept
        BY <1>1, <1>8 DEF StorageKept
    <2>1. /\ NumbersOrderEvents /\ NumbersBelowNext /\ NothingSkipped
          /\ KeptIsHeld /\ KeptInOrder /\ WireInOrder
        BY <2>0 DEF StreamIInv, WhileStorageKept
    <2>2. /\ accepted \subseteq accepted' /\ accepted' \subseteq accepted \cup {e}
          /\ Recorded \subseteq Recorded'
        BY DEF Recorded
    <2>3. Sent' \subseteq Sent /\ Known' \subseteq Known
        BY <1>1, <1>5, <2>2 DEF Sent, Known
    <2>4. NumbersOrderEvents'
        BY <2>1, <2>3 DEF NumbersOrderEvents
    <2>5. NumbersBelowNext'
        BY <1>1, <2>1, <2>3 DEF NumbersBelowNext
    <2>6. NothingSkipped'
        <3>1. /\ ack' + 1 .. nextSeq - 1 \subseteq ack + 1 .. nextSeq - 1
              /\ ack' + 1 .. storage.next - 1 \subseteq ack + 1 .. storage.next - 1
            <4>1. \A a, b, n \in Nat : b >= a => b + 1 .. n - 1 \subseteq a + 1 .. n - 1
                OBVIOUS
            <4> QED BY <1>2, <1>3, <4>1
        <3>2. \A s \in ack' + 1 .. nextSeq - 1 : \E d \in ToSet(pendingEvents) : d.seq = s
            BY <2>1, <3>1 DEF NothingSkipped
        <3>3. \A s \in ack' + 1 .. storage.next - 1 : \E d \in ToSet(storage.queue) : d.seq = s
            BY <2>1, <3>1 DEF NothingSkipped
        <3> QED BY <1>1, <3>2, <3>3 DEF NothingSkipped
    <2>7. KeptIsHeld'
        BY <1>1, <2>1, <2>2 DEF KeptIsHeld
    <2>8. CASE e.seq <= ack + MaxGap
        <3>1. e.ev \in Recorded'
            <4>1. ~ (e.seq > ack + MaxGap)
                BY <1>2, <1>5, <2>8, EnvelopeTypes
            <4>2. e \in accepted' => e.ev \in Recorded'
                BY DEF Recorded
            <4>3. e \in accepted' \/ (accepted' = accepted /\ e.ev \in Recorded)
                BY <2>0, <4>1
            <4> QED BY <2>2, <4>2, <4>3
        <3>2. \A d \in ToSet(toHost), ev \in kept :
                  ev < d.ev => ev \in Recorded \/ ev \in EventsOf(ToSet(toHost))
            <4>1. e \in ToSet(toHost) /\ ~ (e.seq > ack + MaxGap)
                BY <1>2, <1>5, <2>8, EnvelopeTypes
            <4>2. ~ \A d \in ToSet(toHost) : d.seq > ack + MaxGap
                BY <4>1
            <4> QED BY <2>1, <4>2 DEF WireInOrder
        <3>3. \A ev \in EventsOf(ToSet(toHost)) : ev = e.ev \/ ev \in EventsOf(ToSet(toHost'))
            BY <1>5 DEF EventsOf
        <3>4. WireInOrder'
            <4>1. \A d \in ToSet(toHost'), ev \in kept :
                      ev < d.ev => ev \in Recorded' \/ ev \in EventsOf(ToSet(toHost'))
                BY <1>5, <2>2, <3>1, <3>2, <3>3
            <4>2. sock' = "resumed" =>
                      \A ev \in kept : ev \in Recorded' \/ ev \in EventsOf(ToSet(toHost'))
                BY <2>1, <2>2, <3>1, <3>3 DEF WireInOrder
            <4>3. Increasing(toHost')
                BY <1>5, <2>0
            <4> QED BY <1>1, <4>1, <4>2, <4>3 DEF WireInOrder
        <3>5. KeptInOrder'
            <4>1. \A ev \in kept : ev < e.ev => ev \in Recorded'
                <5> SUFFICES ASSUME NEW ev \in kept, ev < e.ev, ev \notin Recorded
                             PROVE  FALSE
                    BY <2>2
                <5>1. ev \in EventsOf(ToSet(toHost))
                    BY <1>5, <3>2
                <5>2. PICK d \in ToSet(toHost) : d.ev = ev
                    BY <5>1 DEF EventsOf
                <5>3. d = e \/ e.ev < d.ev
                    BY <1>5, <2>0
                <5>4. d \in Envelopes
                    BY <1>2, <5>2 DEF Known, Sent
                <5> QED BY <1>5, <5>2, <5>3, <5>4, EnvelopeTypes
            <4> QED BY <1>1, <2>1, <2>2, <4>1 DEF KeptInOrder
        <3> QED BY <2>4, <2>5, <2>6, <2>7, <3>4, <3>5 DEF WhileStorageKept
    <2>9. CASE e.seq > ack + MaxGap
        <3>1. accepted' = accepted /\ ack' = ack /\ sock' # "resumed"
            BY <1>2, <1>5, <2>9, EnvelopeTypes
        <3>2. \A d \in ToSet(toHost') : d.seq > ack + MaxGap
            <4> TAKE d \in ToSet(toHost')
            <4>1. e.seq < d.seq /\ d \in Envelopes
                BY <1>2, <1>5, <2>0 DEF Known, Sent
            <4> QED BY <1>2, <1>5, <2>9, <4>1, EnvelopeTypes
        <3>3. WireInOrder'
            BY <1>5, <2>0, <3>1, <3>2 DEF WireInOrder
        <3>4. KeptInOrder'
            BY <1>1, <2>1, <3>1 DEF KeptInOrder, Recorded
        <3> QED BY <2>4, <2>5, <2>6, <2>7, <3>3, <3>4 DEF WhileStorageKept
    <2> QED BY <1>2, <1>5, <2>8, <2>9, EnvelopeTypes
<1> QED BY <1>6, <1>7, <1>8 DEF StreamIInv

(* The ledger's three answers.                                             *)
LEMMA IngestStep ==
    ASSUME StreamIInv, IngestFrame
    PROVE  StreamIInv'
<1> DEFINE e == Head(toHost)
<1>1. /\ toHost # <<>> /\ toHost' = Tail(toHost) /\ LedgerInv
      /\ UNCHANGED <<browserVars, hostSock, faultVars>>
    BY DEF IngestFrame, StreamIInv
<1>2. /\ e \in Envelopes /\ e \in Known /\ e.seq \in Nat /\ e.seq >= 1
      /\ ack \in Nat /\ MaxGap \in Nat /\ receipts \subseteq Nat
    BY <1>1, FrameRead, StreamTypes, EnvelopeTypes, WindowAssumption
<1>3. CASE /\ IngestDuplicate(e)
           /\ toBrowser' = Append(toBrowser, AckFrame(ack')) \/ toBrowser' = toBrowser
           /\ UNCHANGED sock
    <2>1. UNCHANGED ledgerVars /\ Duplicate(e.seq)
        BY <1>3 DEF IngestDuplicate
    <2>2. LedgerInv' /\ ack' = ack /\ accepted' = accepted
        BY <1>1, <2>1, LedgerUnchanged DEF ledgerVars
    <2>3. e.seq <= ack + MaxGap
        BY <1>2, <2>1 DEF Duplicate
    <2>4. e.seq \in SeqsOf(accepted)
        BY <1>1, <1>2, <2>1 DEF Duplicate, LedgerInv, AcknowledgedWasReceived
    <2>5. StorageKept => e.ev \in Recorded
        BY <1>2, <2>4, AcknowledgedIsRecorded
    <2>6. ack' >= ack
        BY <1>2, <2>2
    <2> HIDE DEF e
    <2> QED BY <1>1, <1>3, <2>2, <2>3, <2>5, <2>6, FrameReadStep DEF e, ReadsFrame
<1>4. ASSUME NEW captured \in BOOLEAN, IngestAccepted(e, captured),
             toBrowser' = Append(toBrowser, AckFrame(ack')) \/ toBrowser' = toBrowser,
             UNCHANGED sock
      PROVE  StreamIInv'
    <2>1. LedgerInv' /\ ack' >= ack
        BY <1>1, <1>2, <1>4, AcceptedStep
    <2>2. accepted' = accepted \cup {e} /\ ~Refused(e.seq)
        BY <1>4 DEF IngestAccepted
    <2>3. e.seq <= ack + MaxGap
        BY <1>2, <2>2 DEF Refused
    <2> HIDE DEF e
    <2> QED BY <1>1, <1>4, <2>1, <2>2, <2>3, FrameReadStep DEF e, ReadsFrame
<1>5. CASE /\ IngestRefused(e)
           /\ sock' = IF sock \in {"active", "resumed"} THEN "closing" ELSE sock
           /\ UNCHANGED toBrowser
    <2>1. UNCHANGED ledgerVars /\ Refused(e.seq)
        BY <1>5 DEF IngestRefused
    <2>2. LedgerInv' /\ ack' = ack /\ accepted' = accepted /\ ack' >= ack
        BY <1>1, <1>2, <2>1, LedgerUnchanged DEF ledgerVars
    <2>3. e.seq > ack + MaxGap
        BY <1>1, <2>1, ReceiptsFit DEF Refused, WindowNeverFull
    <2>4. (sock' = sock \/ sock' = "closing") /\ sock' # "resumed"
        BY <1>5
    <2> HIDE DEF e
    <2> QED BY <1>1, <1>5, <2>2, <2>3, <2>4, FrameReadStep DEF e, ReadsFrame
<1> HIDE DEF e
<1> QED BY <1>3, <1>4, <1>5 DEF IngestFrame, e

----------------------------------------------------------------------------
(* The socket is made or lost: what was on it is still there or gone, and  *)
(* nothing else changes.                                                   *)
LEMMA SocketStep ==
    ASSUME StreamIInv, UNCHANGED <<ledgerVars, browserVars, storageLosses>>,
           hostSock' \in BOOLEAN,
           \/ toHost' = toHost /\ sock' \in {"none", "connecting", "closing"}
           \/ toHost' = <<>> /\ sock' \in {"none", "active", "closing"},
           \/ toBrowser' = toBrowser
           \/ toBrowser' = <<>>
           \/ toBrowser' = <<ResumeFrame(ResumePoint)>>
    PROVE  StreamIInv'
<1>1. /\ TypeOK /\ LedgerInv /\ QueuesInOrder
      /\ UNCHANGED <<ack, receipts, rows, accepted, pruned>>
      /\ UNCHANGED <<nextSeq, pendingEvents, storage, published, kept>>
    BY DEF StreamIInv, ledgerVars, browserVars
<1>2. ack \in Nat
    BY StreamTypes
<1>3. toBrowser' \in Seq(Frames) /\ \A f \in ToSet(toBrowser') : f.next \in 1 .. ack + 1
    <2>1. CASE toBrowser' = toBrowser
        BY <1>1, <2>1 DEF QueuesInOrder
    <2>2. CASE toBrowser' = <<>>
        BY <2>2, EmptyHolds
    <2>3. CASE toBrowser' = <<ResumeFrame(ResumePoint)>>
        <3>1. \A n \in Nat : ResumeFrame(n + 1) \in Frames /\ ResumeFrame(n + 1).next = n + 1
            BY DEF ResumeFrame, Frames
        <3>2. ResumeFrame(ResumePoint) \in Frames /\ ResumeFrame(ResumePoint).next = ack + 1
            BY <1>2, <3>1 DEF ResumePoint
        <3>3. \A f \in Frames : <<f>> \in Seq(Frames) /\ ToSet(<<f>>) = {f}
            BY DEF ToSet
        <3>4. ack + 1 \in 1 .. ack + 1
            BY <1>2
        <3> QED BY <2>3, <3>2, <3>3, <3>4
    <2> QED BY <2>1, <2>2, <2>3
<1>4. /\ toHost' \in Seq(Envelopes) /\ ToSet(toHost') \subseteq ToSet(toHost)
      /\ toHost' = toHost \/ (toHost' = <<>> /\ ToSet(toHost') = {} /\ Increasing(toHost'))
    <2>1. CASE toHost' = toHost
        BY <1>1, <2>1 DEF TypeOK
    <2>2. CASE toHost' = <<>>
        BY <2>2, EmptyHolds
    <2> QED BY <2>1, <2>2
<1>5. sock' \in SocketStates /\ sock' # "resumed" /\ (sock' = "active" => toHost' = <<>>)
    BY DEF SocketStates
<1>6. LedgerInv'
    BY <1>1, LedgerUnchanged
<1>7. TypeOK'
    <2>1. LedgerTypeOK'
        BY <1>6 DEF LedgerInv
    <2>2. \A i \in 1 .. Len(toBrowser') : toBrowser'[i] \in Frames
        BY <1>3
    <2> QED BY <1>1, <1>4, <1>5, <2>1, <2>2 DEF TypeOK, Frames
<1>8. QueuesInOrder'
    BY <1>1, <1>3, <1>5 DEF QueuesInOrder
<1>9. ASSUME StorageKept' PROVE WhileStorageKept'
    <2>1. /\ NumbersOrderEvents /\ NumbersBelowNext /\ NothingSkipped
          /\ KeptIsHeld /\ KeptInOrder /\ WireInOrder
        BY <1>9 DEF StreamIInv, WhileStorageKept, StorageKept
    <2>2. Sent' \subseteq Sent /\ Known' \subseteq Known
        BY <1>1, <1>4 DEF Sent, Known
    <2>3. NumbersOrderEvents' /\ NumbersBelowNext'
        BY <1>1, <2>1, <2>2 DEF NumbersOrderEvents, NumbersBelowNext
    <2>4. NothingSkipped'
        BY <1>1, <2>1 DEF NothingSkipped
    <2>5. KeptIsHeld' /\ KeptInOrder'
        BY <1>1, <2>1 DEF KeptIsHeld, KeptInOrder, Recorded
    <2>6. WireInOrder'
        BY <1>1, <1>4, <1>5, <2>1 DEF WireInOrder, Recorded
    <2> QED BY <2>3, <2>4, <2>5, <2>6 DEF WhileStorageKept
<1> QED BY <1>6, <1>7, <1>8, <1>9 DEF StreamIInv

(* A new page starts from what localStorage holds.                         *)
LEMMA ReloadStep ==
    ASSUME StreamIInv, PageReload
    PROVE  StreamIInv'
<1>1. /\ TypeOK /\ LedgerInv /\ QueuesInOrder
      /\ UNCHANGED <<ack, receipts, rows, accepted, pruned>>
      /\ UNCHANGED <<storage, hostSock, toHost, published, kept, storageLosses>>
      /\ pendingEvents' = storage.queue /\ nextSeq' = storage.next
      /\ sock' = "none" /\ toBrowser' = <<>>
    BY DEF StreamIInv, PageReload, LoadState, ledgerVars
<1>2. toBrowser' \in Seq(Frames) /\ ToSet(toBrowser') = {} /\ Len(toBrowser') = 0
    BY <1>1, EmptyHolds
<1>3. LedgerInv'
    BY <1>1, LedgerUnchanged DEF ledgerVars
<1>4. TypeOK'
    <2>1. LedgerTypeOK'
        BY <1>3 DEF LedgerInv
    <2>2. \A i \in 1 .. Len(toBrowser') : toBrowser'[i] \in Frames
        BY <1>2
    <2> QED BY <1>1, <2>1, <2>2 DEF TypeOK, Frames, SocketStates
<1>5. QueuesInOrder'
    BY <1>1, <1>2 DEF QueuesInOrder
<1>6. ASSUME StorageKept' PROVE WhileStorageKept'
    <2>1. /\ NumbersOrderEvents /\ NumbersBelowNext /\ NothingSkipped
          /\ KeptIsHeld /\ KeptInOrder /\ WireInOrder
        BY <1>1, <1>6 DEF StreamIInv, WhileStorageKept, StorageKept
    <2>2. Sent' = Sent /\ Known' = Sent /\ Sent \subseteq Known
        BY <1>1 DEF Sent, Known
    <2>3. NumbersOrderEvents'
        BY <2>1, <2>2 DEF NumbersOrderEvents
    <2>4. NumbersBelowNext'
        <3>1. storage.next <= storage.next
            BY StreamTypes
        <3> QED BY <1>1, <2>1, <2>2, <3>1 DEF NumbersBelowNext
    <2>5. NothingSkipped'
        BY <1>1, <2>1 DEF NothingSkipped
    <2>6. KeptIsHeld' /\ KeptInOrder'
        BY <1>1, <2>1 DEF KeptIsHeld, KeptInOrder, Recorded
    <2>7. WireInOrder'
        BY <1>1, <2>1 DEF WireInOrder, Recorded
    <2> QED BY <2>3, <2>4, <2>5, <2>6, <2>7 DEF WhileStorageKept
<1> QED BY <1>3, <1>4, <1>5, <1>6 DEF StreamIInv

(* The browser's storage is cleared, and what only the page could promise  *)
(* is promised no more.                                                    *)
LEMMA StorageLostStep ==
    ASSUME StreamIInv, StorageLost
    PROVE  StreamIInv'
<1>1. /\ TypeOK /\ LedgerInv /\ QueuesInOrder
      /\ UNCHANGED <<ack, receipts, rows, accepted, pruned>>
      /\ UNCHANGED <<hostSock, toHost, published>>
      /\ pendingEvents' = <<>> /\ nextSeq' = 1 /\ storage' = EmptyImage
      /\ sock' = "none" /\ toBrowser' = <<>> /\ kept' \subseteq kept
      /\ storageLosses' = storageLosses + 1
    BY DEF StreamIInv, StorageLost, ledgerVars
<1>2. /\ toBrowser' \in Seq(Frames) /\ ToSet(toBrowser') = {} /\ Len(toBrowser') = 0
      /\ pendingEvents' \in Seq(Envelopes) /\ ToSet(pendingEvents') = {}
      /\ Increasing(pendingEvents')
    BY <1>1, EmptyHolds
<1>3. /\ storage'.next = 1 /\ storage'.queue = pendingEvents'
      /\ storage' = Image(storage'.next, storage'.queue)
    BY <1>1 DEF EmptyImage, Image
<1>4. LedgerInv'
    BY <1>1, LedgerUnchanged DEF ledgerVars
<1>5. TypeOK'
    <2>1. LedgerTypeOK'
        BY <1>4 DEF LedgerInv
    <2>2. \A i \in 1 .. Len(toBrowser') : toBrowser'[i] \in Frames
        BY <1>2
    <2>3. 1 \in 1 .. MaxPublish + 1
        BY EnvelopeTypes
    <2> QED BY <1>1, <1>2, <1>3, <2>1, <2>2, <2>3 DEF TypeOK, Frames, SocketStates
<1>6. QueuesInOrder'
    BY <1>1, <1>2, <1>3 DEF QueuesInOrder
<1>7. ~StorageKept'
    BY <1>1 DEF StorageKept, QueuesInOrder
<1> QED BY <1>4, <1>5, <1>6, <1>7 DEF StreamIInv

(* Retention touches only the captured rows.                               *)
LEMMA RetentionStep ==
    ASSUME StreamIInv, Retention
    PROVE  StreamIInv'
<1>1. PICK old \in SUBSET rows : PruneEvents(old)
    BY DEF Retention
<1>2. /\ TypeOK /\ LedgerInv /\ QueuesInOrder
      /\ UNCHANGED <<ack, receipts, accepted>>
      /\ UNCHANGED <<nextSeq, pendingEvents, storage, published, kept>>
      /\ UNCHANGED <<sock, hostSock, toHost, toBrowser, storageLosses>>
    BY <1>1 DEF StreamIInv, Retention, PruneEvents, browserVars, wireVars, faultVars
<1>3. LedgerInv' /\ LedgerTypeOK'
    BY <1>1, <1>2, PruneStep DEF LedgerInv
<1>4. TypeOK' /\ QueuesInOrder'
    BY <1>2, <1>3 DEF TypeOK, QueuesInOrder
<1>5. ASSUME StorageKept' PROVE WhileStorageKept'
    BY <1>2, <1>5 DEF StreamIInv, StorageKept, WhileStorageKept, Known, Sent, Recorded,
        NumbersOrderEvents, NumbersBelowNext, NothingSkipped, KeptIsHeld, KeptInOrder, WireInOrder
<1> QED BY <1>3, <1>4, <1>5 DEF StreamIInv

(* A step of somebody else.                                                *)
LEMMA StutterStep ==
    ASSUME StreamIInv, UNCHANGED vars
    PROVE  StreamIInv'
<1>1. /\ TypeOK /\ LedgerInv /\ QueuesInOrder
      /\ UNCHANGED ledgerVars /\ UNCHANGED <<ack, receipts, accepted>>
      /\ UNCHANGED <<nextSeq, pendingEvents, storage, published, kept>>
      /\ UNCHANGED <<sock, hostSock, toHost, toBrowser, storageLosses>>
    BY DEF StreamIInv, vars, ledgerVars, browserVars, wireVars, faultVars
<1>2. LedgerInv' /\ LedgerTypeOK'
    BY <1>1, LedgerUnchanged DEF LedgerInv
<1>3. TypeOK' /\ QueuesInOrder'
    BY <1>1, <1>2 DEF TypeOK, QueuesInOrder
<1>4. ASSUME StorageKept' PROVE WhileStorageKept'
    BY <1>1, <1>4 DEF StreamIInv, StorageKept, WhileStorageKept, Known, Sent, Recorded,
        NumbersOrderEvents, NumbersBelowNext, NothingSkipped, KeptIsHeld, KeptInOrder, WireInOrder
<1> QED BY <1>2, <1>3, <1>4 DEF StreamIInv

----------------------------------------------------------------------------
(* The stream starts with nothing known and nothing skipped.               *)
LEMMA StreamInit == Init => StreamIInv
<1> SUFFICES ASSUME Init PROVE StreamIInv
    OBVIOUS
<1>1. /\ LedgerInv /\ LedgerTypeOK /\ ack = 0 /\ accepted = {}
      /\ nextSeq = 1 /\ pendingEvents = <<>> /\ storage = EmptyImage
      /\ sock = "none" /\ hostSock = FALSE /\ toHost = <<>> /\ toBrowser = <<>>
      /\ published = 0 /\ kept = {} /\ storageLosses = 0
    BY LedgerInitInv DEF Init, LedgerInit, LedgerInv
<1>2. storage.next = 1 /\ storage.queue = <<>> /\ storage = Image(storage.next, storage.queue)
    BY <1>1 DEF EmptyImage, Image
<1>3. /\ <<>> \in Seq(Envelopes) /\ <<>> \in Seq(Frames) /\ Len(<<>>) = 0
      /\ ToSet(<<>>) = {} /\ Increasing(<<>>)
    BY EmptyHolds
<1>4. TypeOK
    <2>1. 1 \in 1 .. MaxPublish + 1 /\ 0 \in 0 .. MaxPublish
        BY EnvelopeTypes
    <2>2. 1 .. Len(toBrowser) = {}
        BY <1>1, <1>3
    <2>3. \A i \in 1 .. Len(toBrowser) :
              toBrowser[i].type \in {"events.resume", "event.ack"} /\ toBrowser[i].next \in Nat
        BY <2>2
    <2> QED BY <1>1, <1>2, <1>3, <2>1, <2>3 DEF TypeOK, SocketStates
<1>5. QueuesInOrder
    BY <1>1, <1>2, <1>3 DEF QueuesInOrder
<1>6. Sent = {} /\ Known = {}
    BY <1>1, <1>2, <1>3 DEF Sent, Known
<1>7. NumbersOrderEvents /\ NumbersBelowNext /\ KeptIsHeld /\ KeptInOrder /\ WireInOrder
    BY <1>1, <1>2, <1>3, <1>6
    DEF NumbersOrderEvents, NumbersBelowNext, KeptIsHeld, KeptInOrder, WireInOrder
<1>8. NothingSkipped
    <2>1. ack + 1 .. nextSeq - 1 = {} /\ ack + 1 .. storage.next - 1 = {}
        BY <1>1, <1>2
    <2> QED BY <2>1 DEF NothingSkipped
<1> QED BY <1>1, <1>4, <1>5, <1>7, <1>8 DEF StreamIInv, WhileStorageKept

(* Every step of the stream preserves the invariant.                       *)
LEMMA StreamStep == StreamIInv /\ [Next]_vars => StreamIInv'
<1> SUFFICES ASSUME StreamIInv, [Next]_vars PROVE StreamIInv'
    OBVIOUS
<1>1. CASE PublishSaved
    BY <1>1, PublishSavedStep
<1>2. CASE PublishUnsaved \/ PublishOverflow
    BY <1>2, QueuedOnlyStep DEF PublishUnsaved, PublishOverflow, PersistFails, faultVars
<1>3. CASE HandleResume \/ HandleAck
    BY <1>3, HandleStep
<1>4. CASE IngestFrame
    BY <1>4, IngestStep
<1>5. CASE Connect \/ Activate \/ SocketClosed \/ HostDrop \/ BrowserDrop
    <2>1. hostSock \in BOOLEAN
        BY DEF StreamIInv, TypeOK
    <2>2. UNCHANGED <<ledgerVars, browserVars, storageLosses>> /\ hostSock' \in BOOLEAN
        BY <1>5, <2>1 DEF Connect, Activate, SocketClosed, HostDrop, BrowserDrop, faultVars
    <2>3. \/ toHost' = toHost /\ sock' \in {"none", "connecting", "closing"}
          \/ toHost' = <<>> /\ sock' \in {"none", "active", "closing"}
        BY <1>5 DEF Connect, Activate, SocketClosed, HostDrop, BrowserDrop, Dying
    <2>4. \/ toBrowser' = toBrowser
          \/ toBrowser' = <<>>
          \/ toBrowser' = <<ResumeFrame(ResumePoint)>>
        BY <1>5 DEF Connect, Activate, SocketClosed, HostDrop, BrowserDrop
    <2> QED BY <2>2, <2>3, <2>4, SocketStep
<1>6. CASE PageReload
    BY <1>6, ReloadStep
<1>7. CASE StorageLost
    BY <1>7, StorageLostStep
<1>8. CASE Retention
    BY <1>8, RetentionStep
<1>9. CASE UNCHANGED vars
    BY <1>9, StutterStep
<1> QED BY <1>1, <1>2, <1>3, <1>4, <1>5, <1>6, <1>7, <1>8, <1>9 DEF Next

(* The inductive invariant holds of every reachable state of the stream.   *)
THEOREM StreamInductive == Spec => []StreamIInv
BY StreamInit, StreamStep, PTL DEF Spec

(* The stream's numbers keep their types, one number never stands for two  *)
(* events, and a hole in the host's sequence is always an event whose      *)
(* publish failed and that the page still holds                            *)
(* (companion-client.ts, publish and the two announcement handlers).       *)
THEOREM StreamNumbersHold == Spec => []StreamInv
<1>1. ASSUME StreamIInv PROVE StreamInv
    <2>1. TypeOK
        BY <1>1 DEF StreamIInv
    <2>2. Known \subseteq Envelopes /\ ack \in Nat /\ nextSeq \in Nat /\ receipts \subseteq Nat
        BY <1>1, StreamTypes
    <2>3. SequenceNamesOneEvent
        <3> SUFFICES ASSUME StorageKept, NEW d \in Known, NEW e \in Known
                     PROVE  d.seq = e.seq <=> d.ev = e.ev
            BY DEF SequenceNamesOneEvent, Known, Sent
        <3>1. /\ d.seq < e.seq <=> d.ev < e.ev
              /\ e.seq < d.seq <=> e.ev < d.ev
            BY <1>1 DEF StreamIInv, WhileStorageKept, NumbersOrderEvents
        <3> QED BY <2>2, <3>1, EnvelopeTypes
    <2>4. HolesAreWithheldEvents
        <3> SUFFICES ASSUME StorageKept, NEW r \in receipts
                     PROVE  \E i \in 1 .. Len(pendingEvents) :
                                /\ pendingEvents[i].seq = ack + 1
                                /\ pendingEvents[i].ev \notin kept
            BY DEF HolesAreWithheldEvents
        <3>1. /\ SeqsOf(accepted) = (1 .. ack) \cup receipts /\ ReceiptsAhead
              /\ NumbersOrderEvents /\ NothingSkipped /\ KeptInOrder
            BY <1>1 DEF StreamIInv, WhileStorageKept, LedgerInv, AcknowledgedWasReceived
        <3>2. ack + 1 < r /\ r < nextSeq
            BY <1>1, <3>1, AcknowledgedIsRecorded DEF ReceiptsAhead
        <3>3. PICK e \in ToSet(pendingEvents) : e.seq = ack + 1
            <4>1. ack + 1 \in ack + 1 .. nextSeq - 1
                BY <2>2, <3>2
            <4> QED BY <3>1, <4>1 DEF NothingSkipped
        <3>4. PICK d \in accepted : d.seq = r
            BY <3>1 DEF SeqsOf
        <3>5. e \in Known /\ d \in Known /\ accepted \subseteq Known
            BY DEF Known, Sent
        <3>6. e.ev < d.ev
            BY <3>1, <3>2, <3>3, <3>4, <3>5 DEF NumbersOrderEvents
        <3>7. e.ev \notin Recorded
            <4> SUFFICES ASSUME NEW f \in accepted, f.ev = e.ev PROVE FALSE
                BY DEF Recorded
            <4>1. /\ f.seq < e.seq <=> f.ev < e.ev
                  /\ e.seq < f.seq <=> e.ev < f.ev
                BY <3>1, <3>5 DEF NumbersOrderEvents
            <4>2. f.seq = ack + 1
                BY <2>2, <3>3, <3>5, <4>1, EnvelopeTypes
            <4>3. ack + 1 \in SeqsOf(accepted)
                BY <4>2 DEF SeqsOf
            <4> QED BY <2>2, <3>1, <4>3 DEF ReceiptsAhead
        <3>8. e.ev \notin kept
            BY <3>1, <3>6, <3>7 DEF KeptInOrder
        <3>9. PICK i \in 1 .. Len(pendingEvents) : pendingEvents[i] = e
            BY <2>1 DEF ToSet, TypeOK
        <3> QED BY <3>3, <3>8, <3>9
    <2> QED BY <2>1, <2>3, <2>4 DEF StreamInv
<1> QED BY <1>1, StreamInductive, PTL

(* An event whose publish returned is never lost: until the host has it,   *)
(* the page still holds it, whatever sockets died, writes failed or pages  *)
(* reloaded in between.                                                    *)
THEOREM StreamDropsNothing == Spec => []NoUnacknowledgedDrop
<1>1. ASSUME StreamIInv PROVE NoUnacknowledgedDrop
    <2> SUFFICES ASSUME StorageKept, NEW ev \in kept
                 PROVE  ev \in Recorded \/ ev \in Pending
        BY DEF NoUnacknowledgedDrop
    <2>1. ev \in Recorded \/ ev \in EventsOf(ToSet(pendingEvents))
        BY <1>1 DEF StreamIInv, WhileStorageKept, KeptIsHeld
    <2>2. DOMAIN pendingEvents = 1 .. Len(pendingEvents)
        BY <1>1 DEF StreamIInv, TypeOK
    <2> QED BY <2>1, <2>2 DEF EventsOf, ToSet, Pending
<1> QED BY <1>1, StreamInductive, PTL

----------------------------------------------------------------------------
(* The stream implements the delivery service.                             *)
LEMMA AcceptedRecords ==
    ASSUME StreamIInv, StorageKept, toHost # <<>>, NEW captured \in BOOLEAN,
           IngestAccepted(Head(toHost), captured), UNCHANGED published
    PROVE  Delivery!Record
<1> DEFINE e == Head(toHost)
<1>1. /\ e \in Known /\ e \in Envelopes /\ Known \subseteq Envelopes /\ accepted \subseteq Known
      /\ published \in Nat /\ ack \in Nat /\ receipts \subseteq Nat
    BY FrameRead, StreamTypes DEF Known, Sent
<1>2. accepted' = accepted \cup {e} /\ ~Duplicate(e.seq) /\ ~Refused(e.seq)
    BY DEF IngestAccepted
<1>3. NumbersOrderEvents /\ NumbersBelowNext /\ AcknowledgedWasReceived
    BY DEF StreamIInv, WhileStorageKept, LedgerInv
<1>4. e.seq \notin SeqsOf(accepted)
    BY <1>1, <1>2, <1>3, EnvelopeTypes, WindowAssumption
    DEF Duplicate, Refused, AcknowledgedWasReceived
<1>5. e.ev \in 1 .. published
    BY <1>1, <1>3, EnvelopeTypes DEF NumbersBelowNext
<1>6. ASSUME NEW d \in accepted
      PROVE  d.ev # e.ev /\ d.seq # e.seq /\ Delivery!InOrder(d, e)
    <2>1. /\ d.seq < e.seq <=> d.ev < e.ev
          /\ e.seq < d.seq <=> e.ev < d.ev
        BY <1>1, <1>3 DEF NumbersOrderEvents
    <2>2. d.seq # e.seq
        BY <1>4 DEF SeqsOf
    <2>3. d \in Envelopes
        BY <1>1
    <2>4. d.ev # e.ev
        BY <1>1, <2>1, <2>2, <2>3, EnvelopeTypes
    <2> QED BY <2>1, <2>2, <2>4 DEF Delivery!InOrder
<1> HIDE DEF e
<1> QED BY <1>2, <1>5, <1>6 DEF Delivery!Record

(* While the page keeps its storage, every step of the stream is a step of *)
(* the delivery service or leaves it alone: publish produces an event, the *)
(* ledger's acceptance of a frame records one, under a number of its own   *)
(* and in the order of the events.                                         *)
THEOREM StreamImplementsDelivery == Spec => DeliverySpec
<1>1. Init => Delivery!Init
    BY DEF Init, LedgerInit, Delivery!Init
<1>2. ASSUME StreamIInv, [Next]_vars
      PROVE  [StorageKept => Delivery!Next]_<<published, accepted>>
    <2>1. ASSUME NEW env \in Envelopes, Enqueue(env), UNCHANGED ledgerVars
          PROVE  Delivery!Produce
        BY <2>1 DEF Enqueue, ledgerVars, Delivery!Produce
    <2>2. CASE PublishSaved \/ PublishUnsaved \/ PublishOverflow
        BY <2>1, <2>2 DEF PublishSaved, PublishUnsaved, PublishOverflow, Delivery!Next
    <2>3. CASE IngestFrame
        <3>1. toHost # <<>> /\ UNCHANGED published
            BY <2>3 DEF IngestFrame, browserVars
        <3>2. CASE IngestDuplicate(Head(toHost)) \/ IngestRefused(Head(toHost))
            BY <3>1, <3>2 DEF IngestDuplicate, IngestRefused, ledgerVars
        <3>3. CASE \E captured \in BOOLEAN : IngestAccepted(Head(toHost), captured)
            BY <1>2, <3>1, <3>3, AcceptedRecords DEF Delivery!Next
        <3> QED BY <2>3, <3>2, <3>3 DEF IngestFrame
    <2>4. CASE \/ Connect \/ Activate \/ HandleResume \/ HandleAck \/ SocketClosed
               \/ HostDrop \/ BrowserDrop \/ PageReload \/ StorageLost \/ Retention
               \/ UNCHANGED vars
        <3>1. published' = published
            BY <2>4 DEF Connect, Activate, HandleResume, HandleAck, SocketClosed, HostDrop,
                BrowserDrop, PageReload, StorageLost, Retention, vars, browserVars
        <3>2. accepted' = accepted
            BY <2>4 DEF Connect, Activate, HandleResume, HandleAck, SocketClosed, HostDrop,
                BrowserDrop, PageReload, StorageLost, Retention, PruneEvents, vars, ledgerVars
        <3> QED BY <3>1, <3>2
    <2> QED BY <1>2, <2>2, <2>3, <2>4 DEF Next
<1> QED BY <1>1, <1>2, StreamInductive, PTL DEF Spec, DeliverySpec

----------------------------------------------------------------------------
(* The readers of the ledger.                                              *)

StampedSeqs == {s \in Seqs : stamp[s].id > 0}

\* The column id tells the rows apart, also those that retention has deleted;
\* each has the id after those given before.
StampsTellApart ==
    /\ stamp \in [Seqs -> [id : Nat, at : Nat]] /\ clock \in Nat
    /\ IsFiniteSet(StampedSeqs) /\ IsFiniteSet(rows)
    /\ \A s \in StampedSeqs : stamp[s].id <= Cardinality(StampedSeqs)
    /\ \A s, t \in StampedSeqs : stamp[s].id = stamp[t].id => s = t
    /\ SeqsOf(rows) \subseteq StampedSeqs /\ StampedSeqs \subseteq SeqsOf(accepted)

\* The key of a row by its sequence id: deleted rows keep theirs.
KeyOf(mode, s) == IF mode \in {"sequence", "poll"}
                  THEN <<s, stamp[s].id>> ELSE <<stamp[s].at, stamp[s].id>>
Keys == Nat \X Nat

Clients ==
    [mode : Modes \cup {"none"}, from : Nat, cursor : Keys \cup {NoCursor}, got : [Seqs -> Nat],
     steady : SUBSET Seqs, gap : BOOLEAN, pages : Nat, done : BOOLEAN]

Pages == client.mode \in {"timeline", "sequence", "timestamp"}

NothingReadYet ==
    client.mode = "none" => client.from = 0 /\ \A s \in Seqs : client.got[s] = 0

\* What a reader of pages has read it has read once, and its cursor has passed it.
ReadIsBehind ==
    Pages => \A s \in Seqs : client.got[s] > 0 =>
        /\ client.got[s] = 1 /\ s \in StampedSeqs
        /\ ~client.done => ~Before(client.cursor, KeyOf(client.mode, s))

\* A row that stayed was read, or the cursor will come to it.
SteadyIsAhead ==
    /\ client.steady \subseteq SeqsOf(rows)
    /\ Pages =>
          /\ ~client.done => client.cursor \in Keys
          /\ \A r \in rows : r.seq \in client.steady =>
                \/ client.got[r.seq] > 0
                \/ /\ ~client.done /\ InRange(client.mode, r, client.from)
                   /\ Before(client.cursor, KeyOf(client.mode, r.seq))

\* As long as no gap was shown, everything up to the position of a polling
\* client was acknowledged, so that what arrives later is beyond it.
PollIsAcknowledged ==
    client.mode = "poll" /\ ~client.gap =>
        /\ client.from <= ack
        /\ \A r \in rows : r.seq <= client.from => client.got[r.seq] > 0

ClientInv == client \in Clients /\ NothingReadYet /\ ReadIsBehind /\ SteadyIsAhead /\ PollIsAcknowledged

ReadersInv == LedgerInv /\ StampsTellApart /\ ClientInv

LEMMA BeforeOrdersKeys ==
    \A k, l, m \in Keys :
        /\ ~Before(k, k)
        /\ Before(k, l) /\ Before(l, m) => Before(k, m)
        /\ k # l => Before(k, l) \/ Before(l, k)
BY DEF Before, Keys

(* No two rows have the same key.                                          *)
LEMMA RowsHaveKeys ==
    ASSUME LedgerInv, StampsTellApart, NEW mode
    PROVE  /\ \A s \in Seqs : KeyOf(mode, s) \in Keys
           /\ \A r \in rows : /\ Key(mode, r) = KeyOf(mode, r.seq) /\ Key(mode, r) \in Keys
                              /\ r \in Envelopes /\ r.seq \in StampedSeqs
           /\ \A q, r \in rows : Key(mode, q) = Key(mode, r) => q = r
<1>1. \A s \in Seqs : KeyOf(mode, s) \in Keys /\ KeyOf(mode, s)[2] = stamp[s].id
  BY SeqsAssumption DEF KeyOf, Keys, StampsTellApart
<1>2. ASSUME NEW r \in rows
      PROVE  Key(mode, r) = KeyOf(mode, r.seq) /\ r \in Envelopes /\ r.seq \in StampedSeqs
  BY DEF Key, KeyOf, StampsTellApart, SeqsOf, LedgerInv, LedgerTypeOK
<1>3. \A r \in rows : r.seq \in Seqs
  BY <1>2 DEF StampedSeqs
<1>4. ASSUME NEW q \in rows, NEW r \in rows, Key(mode, q) = Key(mode, r) PROVE q = r
  <2>1. stamp[q.seq].id = stamp[r.seq].id
    BY <1>1, <1>2, <1>3, <1>4
  <2>2. q.seq = r.seq
    BY <1>2, <2>1 DEF StampsTellApart
  <2> QED
    BY <2>2 DEF LedgerInv, OneEventPerSequence, RowsWereAccepted
<1> QED
  BY <1>1, <1>2, <1>3, <1>4

----------------------------------------------------------------------------
(* A page is the first rows found, and its cursor is the key of the last.  *)
Preceding(mode, found, r) == {q \in found : Before(Key(mode, q), Key(mode, r))}

LEMMA LaterHasMorePreceding ==
    ASSUME LedgerInv, StampsTellApart, NEW mode, NEW found \in SUBSET rows,
           NEW q \in found, NEW r \in found
    PROVE  /\ Cardinality(Preceding(mode, found, q)) \in Nat
           /\ Cardinality(Preceding(mode, found, q)) < Cardinality(found)
           /\ Before(Key(mode, q), Key(mode, r)) =>
                Cardinality(Preceding(mode, found, q)) < Cardinality(Preceding(mode, found, r))
<1> DEFINE E(x) == Preceding(mode, found, x)
<1>0. \A x \in found : Key(mode, x) \in Keys
  BY RowsHaveKeys
<1>1. IsFiniteSet(found)
  BY FS_Subset DEF StampsTellApart
<1>2. E(q) \in SUBSET found /\ E(r) \in SUBSET found /\ q \notin E(q)
  BY <1>0, BeforeOrdersKeys DEF Preceding
<1>3. IsFiniteSet(E(q)) /\ IsFiniteSet(E(r))
  BY <1>1, <1>2, FS_Subset
<1>4. Cardinality(E(q)) \in Nat /\ Cardinality(E(r)) \in Nat /\ Cardinality(found) \in Nat
  BY <1>1, <1>3, FS_CardinalityType
<1>5. /\ Cardinality(E(q)) <= Cardinality(found)
      /\ Cardinality(E(q)) = Cardinality(found) => E(q) = found
  BY <1>1, <1>2, FS_Subset
<1>6. ASSUME Before(Key(mode, q), Key(mode, r)) PROVE Cardinality(E(q)) < Cardinality(E(r))
  <2>1. E(q) \in SUBSET E(r)
    BY <1>0, <1>6, BeforeOrdersKeys DEF Preceding
  <2>2. q \in E(r)
    BY <1>6 DEF Preceding
  <2>3. /\ Cardinality(E(q)) <= Cardinality(E(r))
        /\ Cardinality(E(q)) = Cardinality(E(r)) => E(q) = E(r)
    BY <1>3, <2>1, FS_Subset
  <2> QED
    BY <1>2, <1>4, <2>2, <2>3
<1> QED
  BY <1>2, <1>4, <1>5, <1>6

(* A page holds rows if there are any, and all of them if it leaves out    *)
(* none; its cursor is at or after its rows and before those left out.     *)
LEMMA PageIsFirstRows ==
    ASSUME LedgerInv, StampsTellApart, NEW mode, NEW found \in SUBSET rows,
           NEW n \in Nat
    PROVE  LET shown == PageOf(mode, n, found)
               last == CursorOf(mode, shown)
           IN  /\ shown \subseteq found
               /\ ~HasMore(n, found) => shown = found
               /\ HasMore(n, found) /\ n # 0 => shown # {}
               /\ shown # {} =>
                    /\ \E m \in shown : last = Key(mode, m)
                    /\ \A r \in shown : ~Before(last, Key(mode, r))
                    /\ \A r \in found \ shown : Before(last, Key(mode, r))
<1> DEFINE N(r) == Cardinality(Preceding(mode, found, r))
           P == PageOf(mode, n, found)
<1>1. P = {r \in found : N(r) < n}
  BY DEF PageOf, Preceding
<1>2. \A r \in found : N(r) \in Nat /\ N(r) < Cardinality(found)
                       /\ \A q \in found : Before(Key(mode, r), Key(mode, q)) => N(r) < N(q)
  BY LaterHasMorePreceding
<1>3. IsFiniteSet(found) /\ Cardinality(found) \in Nat
  BY FS_Subset, FS_CardinalityType DEF StampsTellApart
<1>4. ~HasMore(n, found) => P = found
  BY <1>1, <1>2, <1>3 DEF HasMore
<1>5. ASSUME HasMore(n, found), n # 0 PROVE P # {}
  <2>1. found # {}
    BY <1>5, FS_EmptySet DEF HasMore
  <2>2. {N(r) : r \in found} \subseteq Nat /\ {N(r) : r \in found} # {}
    BY <1>2, <2>1
  <2>3. PICK k \in {N(r) : r \in found} : \A m \in {N(r) : r \in found} : k <= m
    BY <2>2, LeastNatural
  <2>4. PICK r \in found : N(r) = k
    BY <2>3
  <2>5. Preceding(mode, found, r) = {}
    <3>1. ASSUME NEW q \in Preceding(mode, found, r) PROVE FALSE
      <4>1. q \in found /\ Before(Key(mode, q), Key(mode, r))
        BY DEF Preceding
      <4>2. N(q) < N(r) /\ N(q) \in Nat /\ N(r) \in Nat
        BY <4>1, <1>2
      <4>3. k <= N(q)
        BY <4>1, <2>3
      <4> QED
        BY <4>2, <4>3, <2>4
    <3> QED
      BY <3>1
  <2>6. N(r) = 0
    BY <2>5, FS_EmptySet
  <2> QED
    BY <1>1, <1>5, <2>6
<1>6. ASSUME P # {}
      PROVE  /\ \E m \in P : CursorOf(mode, P) = Key(mode, m)
             /\ \A r \in P : ~Before(CursorOf(mode, P), Key(mode, r))
             /\ \A r \in found \ P : Before(CursorOf(mode, P), Key(mode, r))
  <2>1. \E k \in {Key(mode, r) : r \in P} : \A r \in P : ~Before(k, Key(mode, r))
    <3> DEFINE Distance == {n - N(r) : r \in P}
    <3>1. Distance \subseteq Nat /\ Distance # {}
      BY <1>1, <1>2, <1>6
    <3>2. \E k \in Distance : \A m \in Distance : k <= m
      <4> HIDE DEF Distance
      <4> QED BY <3>1, LeastNatural
    <3>3. PICK r \in P : \A q \in P : n - N(r) <= n - N(q)
      BY <3>2
    <3>4. \A q \in P : ~Before(Key(mode, r), Key(mode, q))
      BY <1>1, <1>2, <3>3
    <3> QED
      BY <3>4
  <2>2. /\ CursorOf(mode, P) \in {Key(mode, r) : r \in P}
        /\ \A r \in P : ~Before(CursorOf(mode, P), Key(mode, r))
    <3> HIDE DEF P
    <3> QED BY <2>1 DEF CursorOf
  <2>3. PICK m \in P : CursorOf(mode, P) = Key(mode, m)
    BY <2>2
  <2>4. ASSUME NEW r \in found \ P PROVE Before(Key(mode, m), Key(mode, r))
    <3>1. m \in found /\ ~(N(r) < n) /\ N(r) \in Nat /\ N(m) \in Nat /\ N(m) < n
      BY <1>1, <1>2
    <3>2. ~(N(r) < N(m))
      BY <3>1
    <3>3. ~Before(Key(mode, r), Key(mode, m))
      BY <3>1, <3>2, <1>2
    <3>4. Key(mode, r) # Key(mode, m) /\ Key(mode, r) \in Keys /\ Key(mode, m) \in Keys
      <4>1. r # m /\ r \in rows /\ m \in rows
        BY <3>1
      <4> QED
        BY <4>1, RowsHaveKeys
    <3> QED
      BY <3>3, <3>4, BeforeOrdersKeys
  <2> QED
    BY <2>2, <2>3, <2>4
<1> QED
  BY <1>1, <1>4, <1>5, <1>6

----------------------------------------------------------------------------
(* Steps.                                                                  *)

(* What others do to the ledger: rows may go, and rows may come that are   *)
(* new to everybody; a reader keeps what it has.                           *)
LEMMA OthersKeepReaders ==
    ASSUME ReadersInv,
           \A s \in StampedSeqs : s \in StampedSeqs' /\ stamp'[s] = stamp[s],
           \A r \in rows' : r \in rows \/ (r.seq > ack /\ r.seq \in Seqs /\ r.seq \notin StampedSeqs),
           ack \in Nat, ack' \in Nat, ack' >= ack,
           client' = [client EXCEPT !.steady = client.steady \cap SeqsOf(rows')]
    PROVE  ClientInv'
<1>1. /\ client \in Clients /\ NothingReadYet /\ ReadIsBehind /\ SteadyIsAhead /\ PollIsAcknowledged
      /\ SeqsOf(rows) \subseteq StampedSeqs
  BY DEF ReadersInv, ClientInv, StampsTellApart
<1>2. /\ client'.mode = client.mode /\ client'.from = client.from /\ client'.cursor = client.cursor
      /\ client'.got = client.got /\ client'.gap = client.gap /\ client'.done = client.done
      /\ client'.steady = client.steady \cap SeqsOf(rows')
      /\ client' \in Clients /\ client.from \in Nat /\ client.steady \subseteq Seqs
      /\ client.got \in [Seqs -> Nat]
  BY <1>1 DEF Clients
<1>3. \A mode : \A s \in StampedSeqs : KeyOf(mode, s)' = KeyOf(mode, s)
  BY DEF KeyOf
<1>4. NothingReadYet'
  BY <1>1, <1>2 DEF NothingReadYet
<1>5. ReadIsBehind'
  BY <1>1, <1>2, <1>3 DEF ReadIsBehind, Pages
<1>6. SteadyIsAhead'
  <2>0. client'.steady \subseteq SeqsOf(rows')
    BY <1>2
  <2> SUFFICES ASSUME Pages PROVE SteadyIsAhead'
    BY <1>2, <2>0 DEF SteadyIsAhead, Pages
  <2>1. ASSUME NEW r \in rows', r.seq \in client'.steady
        PROVE  \/ client.got[r.seq] > 0
               \/ /\ ~client.done /\ InRange(client.mode, r, client.from)'
                  /\ Before(client.cursor, KeyOf(client.mode, r.seq))'
    <3>1. r.seq \in client.steady /\ r.seq \in SeqsOf(rows) /\ r.seq \in StampedSeqs
      BY <1>1, <1>2, <2>1 DEF SteadyIsAhead
    <3>2. r \in rows
      BY <3>1
    <3>3. stamp'[r.seq] = stamp[r.seq]
      BY <3>1
    <3>4. InRange(client.mode, r, client.from)' <=> InRange(client.mode, r, client.from)
      BY <1>2, <3>3 DEF InRange
    <3>5. Before(client.cursor, KeyOf(client.mode, r.seq))' <=> Before(client.cursor, KeyOf(client.mode, r.seq))
      BY <1>2, <1>3, <3>1 DEF Before
    <3> QED
      BY <1>1, <3>1, <3>2, <3>4, <3>5 DEF SteadyIsAhead
  <2> QED
    BY <1>1, <1>2, <2>0, <2>1 DEF SteadyIsAhead, Pages
<1>7. PollIsAcknowledged'
  <2> SUFFICES ASSUME client.mode = "poll", ~client.gap
               PROVE  /\ client.from <= ack'
                      /\ \A r \in rows' : r.seq <= client.from => client.got[r.seq] > 0
    BY <1>2 DEF PollIsAcknowledged
  <2>1. client.from <= ack /\ \A r \in rows : r.seq <= client.from => client.got[r.seq] > 0
    BY <1>1 DEF PollIsAcknowledged
  <2>2. client.from <= ack'
    BY <1>2, <2>1
  <2>3. ASSUME NEW r \in rows', r.seq <= client.from PROVE client.got[r.seq] > 0
    <3>1. CASE r \in rows
      BY <2>1, <2>3, <3>1
    <3>2. CASE r \notin rows
      <4>1. r.seq > ack /\ r.seq \in Nat
        BY <3>2, SeqsAssumption
      <4> QED
        BY <1>2, <2>1, <2>3, <4>1
    <3> QED
      BY <3>1, <3>2
  <2> QED
    BY <2>2, <2>3
<1> QED
  BY <1>2, <1>4, <1>5, <1>6, <1>7 DEF ClientInv

LEMMA ClientUntouched ==
    ASSUME ReadersInv, client' = client, SeqsOf(rows) \subseteq SeqsOf(rows')
    PROVE  client' = [client EXCEPT !.steady = client.steady \cap SeqsOf(rows')]
<1>1. client \in Clients /\ client.mode = client'.mode
  BY DEF ReadersInv, ClientInv
<1>2. client.steady \cap SeqsOf(rows') = client.steady
  BY DEF ReadersInv, ClientInv, SteadyIsAhead
<1> QED
  BY <1>1, <1>2 DEF Clients


(* An envelope that is accepted has a sequence id nobody has seen, and its *)
(* row a new id.                                                           *)
LEMMA IngestKeepsReaders ==
    ASSUME ReadersInv, NEW e \in Envelopes, NEW captured \in BOOLEAN, Ingest(e, captured)
    PROVE  ReadersInv'
<1> DEFINE T == StampedSeqs
<1>1. LedgerInv /\ StampsTellApart /\ ack \in Nat /\ receipts \subseteq Seqs /\ e.seq \in Seqs
  BY DEF ReadersInv, LedgerInv, LedgerTypeOK, Envelopes
<1>2. /\ IngestAccepted(e, captured) /\ clock' = clock /\ client' = client
      /\ stamp' = IF captured THEN Stamped(e.seq) ELSE stamp
  BY DEF Ingest
<1>3. LedgerInv' /\ ack' >= ack
  BY <1>1, <1>2, AcceptedStep
<1>4. /\ ~Duplicate(e.seq) /\ ~Refused(e.seq) /\ accepted' = accepted \cup {e}
      /\ rows' = IF captured THEN InsertOrIgnore(rows, e) ELSE rows
  BY <1>2 DEF IngestAccepted
<1>5. e.seq \notin SeqsOf(accepted) /\ e.seq > ack /\ e.seq \notin SeqsOf(rows) /\ e.seq \notin T
  <2>0. /\ ~(e.seq <= ack) /\ ~(e.seq <= ack + MaxGap /\ e.seq \in receipts)
        /\ ~(e.seq > ack + MaxGap)
    BY <1>4, Zenon DEF Duplicate, Refused
  <2>1. e.seq \in Nat /\ e.seq > ack /\ e.seq \notin receipts
    <3>1. e.seq \in Nat /\ MaxGap \in Nat /\ ack \in Nat
      BY <1>1, SeqsAssumption, WindowAssumption
    <3> QED
      BY <3>1, <2>0
  <2>2. SeqsOf(accepted) = (1 .. ack) \cup receipts
    BY <1>1 DEF LedgerInv, AcknowledgedWasReceived
  <2>3. e.seq \notin SeqsOf(accepted)
    BY <2>1, <2>2, <1>1
  <2> QED
    BY <2>1, <2>3, <1>1 DEF StampsTellApart
<1>6. StampsTellApart' /\ \A s \in T : s \in T' /\ stamp'[s] = stamp[s]
  <2>1. SeqsOf(accepted) \subseteq SeqsOf(accepted')
    BY <1>4 DEF SeqsOf
  <2>2. CASE ~captured
    <3>1. stamp' = stamp /\ rows' = rows
      BY <1>2, <1>4, <2>2
    <3>2. T' = T
      BY <3>1 DEF StampedSeqs
    <3> QED
      BY <1>1, <1>2, <2>1, <3>1, <3>2 DEF StampsTellApart
  <2>3. CASE captured
    <3> DEFINE n == Cardinality(T)
    <3>1. rows' = rows \cup {e}
      BY <1>4, <1>5, <2>3 DEF InsertOrIgnore
    <3>2. n \in Nat /\ IsFiniteSet(T)
      BY <1>1, FS_CardinalityType DEF StampsTellApart
    <3>3. stamp' = [stamp EXCEPT ![e.seq] = [id |-> 1 + n, at |-> clock]]
      BY <1>2, <2>3 DEF Stamped, NextId, StampedSeqs
    <3>4. /\ stamp' \in [Seqs -> [id : Nat, at : Nat]]
          /\ stamp'[e.seq].id = 1 + n
          /\ \A s \in Seqs \ {e.seq} : stamp'[s] = stamp[s]
      BY <1>1, <3>2, <3>3 DEF StampsTellApart
    <3>5. T' = T \cup {e.seq}
      BY <1>1, <3>2, <3>4 DEF StampedSeqs
    <3>6. IsFiniteSet(T') /\ Cardinality(T') = n + 1
      BY <1>5, <3>2, <3>5, FS_AddElement
    <3>7. IsFiniteSet(rows')
      BY <1>1, <3>1, FS_AddElement DEF StampsTellApart
    <3>8. /\ \A s \in T : s \in Seqs /\ s # e.seq /\ stamp'[s] = stamp[s]
          /\ \A s \in T : stamp[s].id \in Nat /\ stamp[s].id <= n
      BY <1>1, <1>5, <3>4 DEF StampedSeqs, StampsTellApart
    <3>9. \A s \in T' : stamp'[s].id <= n + 1
      BY <3>2, <3>4, <3>5, <3>8
    <3>10. \A s, t \in T' : stamp'[s].id = stamp'[t].id => s = t
      <4>1. \A s, t \in T : stamp[s].id = stamp[t].id => s = t
        BY <1>1 DEF StampsTellApart
      <4>2. \A s \in T : stamp'[s].id # 1 + n
        BY <3>2, <3>8
      <4> QED
        BY <3>4, <3>5, <3>8, <4>1, <4>2
    <3>11. SeqsOf(rows') \subseteq T' /\ T' \subseteq SeqsOf(accepted')
      BY <1>1, <1>4, <2>1, <3>1, <3>5 DEF SeqsOf, StampsTellApart
    <3>12. clock' \in Nat
      BY <1>1, <1>2 DEF StampsTellApart
    <3>13. \A s \in T' : stamp'[s].id <= Cardinality(T')
      BY <3>6, <3>9
    <3>14. StampsTellApart'
      BY <3>4, <3>6, <3>7, <3>10, <3>11, <3>12, <3>13 DEF StampsTellApart
    <3> QED
      BY <3>5, <3>8, <3>14
  <2> QED
    BY <2>2, <2>3
<1>7. /\ rows \subseteq rows'
      /\ \A r \in rows' : r \in rows \/ (r.seq > ack /\ r.seq \in Seqs /\ r.seq \notin T)
  BY <1>1, <1>4, <1>5 DEF InsertOrIgnore
<1>8. client' = [client EXCEPT !.steady = client.steady \cap SeqsOf(rows')]
  BY <1>2, <1>7, ClientUntouched DEF SeqsOf
<1>9. ack' \in Nat
  BY <1>3 DEF LedgerInv, LedgerTypeOK
<1>10. ClientInv'
  BY <1>1, <1>3, <1>6, <1>7, <1>8, <1>9, OthersKeepReaders
<1> QED
  BY <1>3, <1>6, <1>10 DEF ReadersInv

(* Retention takes rows, and their ids stay theirs.                        *)
LEMMA PruneKeepsReaders ==
    ASSUME ReadersInv, NEW cutoff, Prune(cutoff)
    PROVE  ReadersInv'
<1> DEFINE old == {r \in rows : stamp[r.seq].at < cutoff}
<1>1. LedgerInv /\ StampsTellApart /\ ack \in Nat
  BY DEF ReadersInv, LedgerInv, LedgerTypeOK
<1>2. /\ PruneEvents(old) /\ clock' = clock /\ stamp' = stamp
      /\ client' = [client EXCEPT !.steady = client.steady \cap SeqsOf(rows')]
  BY DEF Prune
<1>3. old \in SUBSET rows
  OBVIOUS
<1>4. LedgerInv' /\ ack' = ack
  <2> HIDE DEF old
  <2> QED BY <1>1, <1>2, <1>3, PruneStep
<1>5. rows' \subseteq rows /\ accepted' = accepted
  BY <1>2 DEF PruneEvents
<1>6. StampedSeqs' = StampedSeqs /\ SeqsOf(rows') \subseteq SeqsOf(rows)
  BY <1>2, <1>5 DEF StampedSeqs, SeqsOf
<1>7. IsFiniteSet(rows')
  BY <1>1, <1>5, FS_Subset DEF StampsTellApart
<1>8. StampsTellApart'
  BY <1>1, <1>2, <1>5, <1>6, <1>7 DEF StampsTellApart
<1>9. ClientInv'
  BY <1>1, <1>2, <1>4, <1>5, <1>6, OthersKeepReaders
<1> QED
  BY <1>4, <1>8, <1>9 DEF ReadersInv

(* The clock moves, or nothing does.                                       *)
LEMMA RestKeepsReaders ==
    ASSUME ReadersInv, clock' \in Nat, UNCHANGED <<ledgerVars, stamp, client>>
    PROVE  ReadersInv'
<1>1. LedgerInv /\ StampsTellApart /\ ack \in Nat
  BY DEF ReadersInv, LedgerInv, LedgerTypeOK
<1>2. /\ ack' = ack /\ receipts' = receipts /\ rows' = rows /\ accepted' = accepted
      /\ pruned' = pruned /\ stamp' = stamp /\ client' = client
  BY DEF ledgerVars
<1>3. LedgerInv'
  BY <1>1, <1>2, LedgerStep DEF ledgerVars
<1>4. StampedSeqs' = StampedSeqs
  BY <1>2 DEF StampedSeqs
<1>5. StampsTellApart'
  BY <1>1, <1>2, <1>4 DEF StampsTellApart
<1>6. client' = [client EXCEPT !.steady = client.steady \cap SeqsOf(rows')]
  BY <1>2, ClientUntouched
<1>7. /\ \A s \in StampedSeqs : s \in StampedSeqs' /\ stamp'[s] = stamp[s]
      /\ \A r \in rows' : r \in rows
      /\ ack' \in Nat /\ ack' >= ack
  BY <1>1, <1>2, <1>4
<1>8. ClientInv'
  BY <1>1, <1>6, <1>7, OthersKeepReaders
<1> QED
  BY <1>3, <1>5, <1>8 DEF ReadersInv

(* What a page does to its reader.                                         *)
LEMMA AskedSays ==
    ASSUME client \in Clients, NEW mode \in Modes, NEW from \in Nat, NEW stayed \in SUBSET Seqs,
           NEW found, Asked(mode, from, stayed, found),
           HasMore(Limit, found) => CursorOf(mode, PageOf(mode, Limit, found)) \in Keys
    PROVE  LET shown == PageOf(mode, Limit, found)
               more == HasMore(Limit, found)
           IN  /\ client' \in Clients
               /\ client'.mode = mode /\ client'.steady = stayed /\ client'.from = from
               /\ client'.got = [s \in Seqs |-> IF s \in SeqsOf(shown) THEN client.got[s] + 1
                                                                     ELSE client.got[s]]
               /\ more => client'.cursor = CursorOf(mode, shown)
               /\ client'.done <=> ~more
<1> DEFINE shown == PageOf(mode, Limit, found)
           more == HasMore(Limit, found)
<1>1. PICK d \in BOOLEAN : d = ~more
  OBVIOUS
<1>2. PICK c : c = IF more THEN CursorOf(mode, shown) ELSE NoCursor
  OBVIOUS
<1>3. PICK got : got = [s \in Seqs |-> IF s \in SeqsOf(shown) THEN client.got[s] + 1
                                                            ELSE client.got[s]]
  OBVIOUS
<1>4. PICK n : n = client.pages + 1
  OBVIOUS
<1>5. client' = [client EXCEPT !.mode = mode, !.from = from, !.steady = stayed, !.pages = n,
                               !.got = got, !.cursor = c, !.done = d]
  BY <1>1, <1>2, <1>3, <1>4, Zenon DEF Asked, Counted
<1>6. client.got \in [Seqs -> Nat] /\ client.pages \in Nat
  BY DEF Clients
<1>7. got \in [Seqs -> Nat]
  BY <1>3, <1>6
<1>8. n \in Nat /\ c \in Keys \cup {NoCursor}
  BY <1>2, <1>4, <1>6
<1>9. /\ client'.mode = mode /\ client'.steady = stayed /\ client'.from = from
      /\ client'.got = got /\ client'.cursor = c /\ client'.done = d /\ client' \in Clients
  BY <1>5, <1>7, <1>8 DEF Clients
<1> QED
  BY <1>1, <1>2, <1>3, <1>9


(* A query changes nothing but its reader.                                 *)
LEMMA QueryKeepsTables ==
    ASSUME ReadersInv, UNCHANGED <<ledgerVars, clock, stamp>>
    PROVE  /\ LedgerInv' /\ StampsTellApart' /\ StampedSeqs' = StampedSeqs
           /\ rows' = rows /\ ack' = ack
<1>1. LedgerInv /\ StampsTellApart
  BY DEF ReadersInv
<1>2. /\ ack' = ack /\ receipts' = receipts /\ rows' = rows /\ accepted' = accepted
      /\ pruned' = pruned /\ stamp' = stamp /\ clock' = clock
  BY DEF ledgerVars
<1>3. LedgerInv'
  BY <1>1, LedgerStep DEF ledgerVars
<1>4. StampedSeqs' = StampedSeqs
  BY <1>2 DEF StampedSeqs
<1>5. StampsTellApart'
  BY <1>1, <1>2, <1>4 DEF StampsTellApart
<1> QED
  BY <1>2, <1>3, <1>4, <1>5

LEMMA NoCursorIsNoKey == NoCursor \notin Keys
  BY DEF NoCursor, Keys

(* A page, asked for with the cursor of what was read before it.           *)
LEMMA PageKeepsReaders ==
    ASSUME ReadersInv, UNCHANGED <<ledgerVars, clock, stamp>>,
           NEW mode \in {"timeline", "sequence", "timestamp"}, NEW from \in Nat,
           NEW position \in Keys \cup {NoCursor}, NEW stayed \in SUBSET SeqsOf(rows),
           Asked(mode, from, stayed, Found(mode, from, position)),
           \A s \in Seqs : client.got[s] > 0 =>
               /\ client.got[s] = 1 /\ s \in StampedSeqs
               /\ position \in Keys /\ ~Before(position, KeyOf(mode, s)),
           \A r \in rows : r.seq \in stayed =>
               client.got[r.seq] > 0 \/ r \in Found(mode, from, position)
    PROVE  ReadersInv'
<1> DEFINE found == Found(mode, from, position)
           shown == PageOf(mode, Limit, found)
           more == HasMore(Limit, found)
           last == CursorOf(mode, shown)
<1>0. stamp' = stamp
  OBVIOUS
<1>1. LedgerInv' /\ StampsTellApart' /\ StampedSeqs' = StampedSeqs /\ rows' = rows
  BY QueryKeepsTables
<1>2. /\ LedgerInv /\ StampsTellApart /\ client \in Clients /\ client.got \in [Seqs -> Nat]
      /\ mode \in Modes /\ mode # "poll" /\ Limit \in Nat \ {0}
  BY QueriesAssumption DEF ReadersInv, ClientInv, Clients, Modes
<1>3. found \in SUBSET rows /\ \A r \in found : InRange(mode, r, from) /\ Beyond(mode, r, position)
  BY DEF Found
<1>4. /\ \A s \in Seqs : KeyOf(mode, s) \in Keys
      /\ \A r \in rows : /\ Key(mode, r) = KeyOf(mode, r.seq) /\ Key(mode, r) \in Keys
                         /\ r.seq \in StampedSeqs
      /\ \A q, r \in rows : q.seq = r.seq => q = r
  <2>1. \A q, r \in rows : q.seq = r.seq => q = r
    BY <1>2 DEF LedgerInv, OneEventPerSequence, RowsWereAccepted
  <2> QED
    BY <1>2, <2>1, RowsHaveKeys
<1>5. /\ shown \subseteq found
      /\ ~more => shown = found
      /\ more => shown # {}
      /\ shown # {} =>
           /\ \E m \in shown : last = Key(mode, m)
           /\ \A r \in shown : ~Before(last, Key(mode, r))
           /\ \A r \in found \ shown : Before(last, Key(mode, r))
  <2> HIDE DEF found
  <2> QED BY <1>2, <1>3, PageIsFirstRows
<1>6. more => last \in Keys
  BY <1>3, <1>4, <1>5
<1>8. stayed \in SUBSET Seqs
  BY <1>4 DEF SeqsOf, StampedSeqs
<1>9. /\ client' \in Clients /\ client'.mode = mode /\ client'.steady = stayed
      /\ client'.from = from
      /\ client'.got = [s \in Seqs |-> IF s \in SeqsOf(shown) THEN client.got[s] + 1
                                                            ELSE client.got[s]]
      /\ more => client'.cursor = last
      /\ client'.done <=> ~more
  <2>1. Asked(mode, from, stayed, found)
    OBVIOUS
  <2> HIDE DEF found
  <2> QED BY <2>1, <1>2, <1>6, <1>8, AskedSays
<1> DEFINE got == client'.got
<1>10. \A s \in Seqs : /\ got[s] = IF s \in SeqsOf(shown) THEN client.got[s] + 1 ELSE client.got[s]
                       /\ client.got[s] \in Nat
  BY <1>2, <1>9
<1> HIDE DEF shown, more, last, found, got
<1>11. ReadIsBehind'
  <2>1. ASSUME NEW s \in Seqs, got[s] > 0
        PROVE  got[s] = 1 /\ s \in StampedSeqs /\ (more => ~Before(last, KeyOf(mode, s)))
    <3>1. CASE s \in SeqsOf(shown)
      <4>1. PICK r \in shown : r.seq = s
        BY <3>1 DEF SeqsOf
      <4>2. r \in found /\ r \in rows /\ Beyond(mode, r, position) /\ Key(mode, r) = KeyOf(mode, s)
            /\ s \in StampedSeqs
        BY <4>1, <1>3, <1>4, <1>5
      <4>3. ~(client.got[s] > 0)
        BY <4>2, NoCursorIsNoKey DEF Beyond
      <4>4. ~Before(last, KeyOf(mode, s))
        BY <1>5, <4>1, <4>2
      <4> QED
        BY <3>1, <4>2, <4>3, <4>4, <1>10
    <3>2. CASE s \notin SeqsOf(shown)
      <4>1. got[s] = client.got[s]
        BY <1>10, <3>2
      <4>2. got[s] = 1 /\ s \in StampedSeqs /\ position \in Keys /\ ~Before(position, KeyOf(mode, s))
        BY <4>1, <2>1
      <4>3. ASSUME more PROVE ~Before(last, KeyOf(mode, s))
        <5>1. PICK m \in shown : last = Key(mode, m)
          BY <4>3, <1>5
        <5>2. m \in found /\ m \in rows
          BY <1>3, <1>5
        <5>3. Before(position, last)
          BY <5>1, <5>2, <1>3, <4>2, NoCursorIsNoKey DEF Beyond
        <5> QED
          BY <5>3, <4>2, <4>3, <1>4, <1>6, BeforeOrdersKeys
      <4> QED
        BY <4>2, <4>3
    <3> QED
      BY <3>1, <3>2
  <2>2. ASSUME NEW s \in Seqs, client'.got[s] > 0
        PROVE  /\ client'.got[s] = 1 /\ s \in StampedSeqs'
               /\ ~client'.done => ~Before(client'.cursor, KeyOf(client.mode, s)')
    <3>1. KeyOf(client.mode, s)' = KeyOf(mode, s) /\ s \in StampedSeqs' /\ got[s] = 1
          /\ (more => ~Before(last, KeyOf(mode, s)))
      BY <1>0, <1>1, <1>9, <2>1, <2>2 DEF got, KeyOf
    <3> QED
      BY <3>1, <1>9 DEF got
  <2> QED
    BY <2>2 DEF ReadIsBehind
<1>12. SteadyIsAhead'
  <2>1. ASSUME NEW r \in rows, r.seq \in stayed
        PROVE  got[r.seq] > 0 \/ (more /\ InRange(mode, r, from) /\ Before(last, KeyOf(mode, r.seq)))
    <3>0. r.seq \in Seqs
      BY <1>4 DEF StampedSeqs
    <3>1. CASE client.got[r.seq] > 0
      BY <1>10, <3>0, <3>1
    <3>2. CASE r \in shown
      BY <1>10, <3>0, <3>2 DEF SeqsOf
    <3>3. CASE r \in found \ shown
      BY <1>3, <1>4, <1>5, <3>3
    <3>4. client.got[r.seq] > 0 \/ r \in found
      BY <2>1 DEF found
    <3> QED
      BY <3>1, <3>2, <3>3, <3>4
  <2>2. ASSUME NEW r \in rows', r.seq \in client'.steady
        PROVE  \/ client'.got[r.seq] > 0
               \/ /\ ~client'.done /\ InRange(client.mode, r, client.from)'
                  /\ Before(client'.cursor, KeyOf(client.mode, r.seq)')
    <3>1. r \in rows /\ r.seq \in stayed
      BY <1>1, <1>9, <2>2
    <3>2. KeyOf(client.mode, r.seq)' = KeyOf(mode, r.seq)
          /\ (InRange(client.mode, r, client.from)' <=> InRange(mode, r, from))
      BY <1>0, <1>9 DEF KeyOf, InRange
    <3>3. got[r.seq] > 0 \/ (more /\ InRange(mode, r, from) /\ Before(last, KeyOf(mode, r.seq)))
      BY <2>1, <3>1
    <3> QED
      BY <1>9, <3>2, <3>3 DEF got
  <2>3. (~client'.done => client'.cursor \in Keys) /\ client'.steady \subseteq SeqsOf(rows')
    BY <1>1, <1>6, <1>9
  <2> QED
    BY <2>2, <2>3 DEF SteadyIsAhead
<1>13. NothingReadYet' /\ PollIsAcknowledged'
  BY <1>2, <1>9 DEF NothingReadYet, PollIsAcknowledged
<1> QED
  BY <1>1, <1>9, <1>11, <1>12, <1>13 DEF ReadersInv, ClientInv

(* A poll.  When no gap shows, all that was accepted is acknowledged.      *)
LEMMA PollKeepsReaders ==
    ASSUME ReadersInv, NEW n \in Nat, NEW jobGap \in BOOLEAN, Poll(n, jobGap)
    PROVE  ReadersInv'
<1> DEFINE from == client.from
           found == Found("poll", from, NoCursor)
           shown == PageOf("poll", n, found)
           last == CursorOf("poll", shown)
           position == NextBoundary(from, shown)
<1>0. /\ client.mode \in {"none", "poll"} /\ UNCHANGED <<ledgerVars, clock, stamp>>
      /\ client' = [client EXCEPT
            !.mode = "poll", !.pages = client.pages + 1, !.gap = client.gap \/ GapShown(jobGap),
            !.from = position, !.got = Counted(shown)]
  BY DEF Poll
<1>1. /\ LedgerInv' /\ StampsTellApart' /\ rows' = rows /\ ack' = ack
  BY <1>0, QueryKeepsTables
<1>2. /\ LedgerInv /\ StampsTellApart /\ client \in Clients /\ client.got \in [Seqs -> Nat]
      /\ "poll" \in Modes /\ ack \in Nat /\ from \in Nat /\ client.pages \in Nat
      /\ client.steady \in SUBSET SeqsOf(rows)
  BY DEF ReadersInv, ClientInv, Clients, Modes, LedgerInv, LedgerTypeOK, SteadyIsAhead
<1>3. found = {r \in rows : r.seq > from}
  BY DEF Found, InRange, Beyond
<1>4. \A r \in rows : /\ r.seq \in Seqs /\ r.seq \in Nat /\ r.seq > 0 /\ stamp[r.seq].id \in Nat
                      /\ Key("poll", r) = <<r.seq, stamp[r.seq].id>> /\ Key("poll", r) \in Keys
  <2>1. \A r \in rows : r.seq \in Seqs /\ Key("poll", r) \in Keys
    BY <1>2, RowsHaveKeys DEF StampedSeqs
  <2>2. \A s \in Seqs : s \in Nat /\ s > 0
    BY SeqsAssumption
  <2>3. \A r \in rows : stamp[r.seq].id \in Nat
    BY <2>1, <1>2 DEF StampsTellApart
  <2> QED
    BY <2>1, <2>2, <2>3 DEF Key
<1>5. \A q, r \in rows : q.seq = r.seq => q = r
  BY <1>2 DEF LedgerInv, OneEventPerSequence, RowsWereAccepted
<1>6. /\ shown \subseteq found
      /\ shown # {} =>
           /\ \E m \in shown : last = Key("poll", m)
           /\ \A r \in found \ shown : Before(last, Key("poll", r))
  <2>1. found \in SUBSET rows
    BY <1>3
  <2> HIDE DEF found
  <2> QED BY <1>2, <2>1, PageIsFirstRows
<1>7. \/ shown = {} /\ position = from
      \/ \E m \in shown : last = Key("poll", m) /\ position = m.seq
  <2>1. CASE shown = {}
    BY <2>1 DEF NextBoundary
  <2>2. CASE shown # {}
    <3>1. PICK m \in shown : last = Key("poll", m)
      BY <2>2, <1>6
    <3>2. last = <<m.seq, stamp[m.seq].id>>
      BY <3>1, <1>3, <1>4, <1>6
    <3>3. position = last[1]
      BY <2>2 DEF NextBoundary
    <3> QED
      BY <3>1, <3>2, <3>3
  <2> QED
    BY <2>1, <2>2
<1>8. position \in Nat
  BY <1>2, <1>3, <1>4, <1>6, <1>7
<1>9. ~client.gap => from <= ack /\ \A r \in rows : r.seq <= from => client.got[r.seq] > 0
  <2>1. CASE client.mode = "poll"
    BY <2>1 DEF ReadersInv, ClientInv, PollIsAcknowledged
  <2>2. CASE client.mode = "none"
    <3>1. from = 0
      BY <2>2 DEF ReadersInv, ClientInv, NothingReadYet
    <3> QED
      BY <1>2, <1>4, <3>1
  <2> QED
    BY <1>0, <2>1, <2>2
<1>10. PICK g \in BOOLEAN : g = (client.gap \/ GapShown(jobGap))
  OBVIOUS
<1>11. PICK got : got = [s \in Seqs |-> IF s \in SeqsOf(shown) THEN client.got[s] + 1 ELSE client.got[s]]
  OBVIOUS
<1>12. got \in [Seqs -> Nat]
  BY <1>2, <1>11
<1>13. PICK pages : pages = client.pages + 1
  OBVIOUS
<1>14. client' = [client EXCEPT !.mode = "poll", !.pages = pages, !.gap = g,
                                 !.from = position, !.got = got]
  BY <1>0, <1>10, <1>11, <1>13, Zenon DEF Counted
<1>15. pages \in Nat
  BY <1>2, <1>13
<1> HIDE DEF shown, last, found, position, from
<1>16. /\ client' \in Clients /\ client'.mode = "poll" /\ client'.steady = client.steady
       /\ client'.from = position /\ client'.gap = g /\ client'.got = got
  BY <1>2, <1>8, <1>12, <1>14, <1>15 DEF Clients
<1>17. \A s \in Seqs : /\ got[s] = IF s \in SeqsOf(shown) THEN client.got[s] + 1 ELSE client.got[s]
                       /\ client.got[s] \in Nat
  BY <1>2, <1>11
<1>18. ASSUME ~client'.gap
       PROVE  position <= ack /\ \A r \in rows : r.seq <= position => got[r.seq] > 0
  <2>1. ~client.gap /\ receipts = {}
    BY <1>10, <1>16, <1>18 DEF GapShown
  <2>2. \A r \in rows : r.seq <= ack
    <3>1. SeqsOf(accepted) = 1 .. ack /\ rows \subseteq accepted
      BY <1>2, <2>1 DEF LedgerInv, AcknowledgedWasReceived, RowsWereAccepted
    <3> QED
      BY <1>2, <3>1 DEF SeqsOf
  <2>3. position <= ack
    BY <1>3, <1>6, <1>7, <1>9, <2>1, <2>2
  <2>4. ASSUME NEW r \in rows, r.seq <= position PROVE got[r.seq] > 0
    <3>1. CASE r.seq <= from
      BY <1>4, <1>9, <1>17, <2>1, <3>1
    <3>2. CASE r \in shown
      BY <1>4, <1>17, <3>2 DEF SeqsOf
    <3>3. ASSUME ~(r.seq <= from), r \notin shown PROVE FALSE
      <4>1. r \in found
        BY <1>2, <1>3, <1>4, <3>3
      <4>2. PICK m \in shown : last = Key("poll", m) /\ position = m.seq
        BY <1>7, <2>4, <3>3
      <4>3. Before(last, Key("poll", r)) /\ m \in rows
        BY <1>3, <1>6, <3>3, <4>1, <4>2
      <4>4. /\ last = <<m.seq, stamp[m.seq].id>> /\ Key("poll", r) = <<r.seq, stamp[r.seq].id>>
            /\ m.seq \in Nat /\ r.seq \in Nat /\ r.seq <= m.seq
        BY <1>4, <2>4, <4>2, <4>3
      <4>5. r.seq # m.seq
        BY <1>5, <3>3, <4>2, <4>3
      <4> QED
        BY <4>3, <4>4, <4>5 DEF Before
    <3> QED
      BY <3>1, <3>2, <3>3
  <2> QED
    BY <2>3, <2>4
<1>19. PollIsAcknowledged'
  BY <1>1, <1>16, <1>18 DEF PollIsAcknowledged
<1>20. NothingReadYet' /\ ReadIsBehind' /\ SteadyIsAhead'
  BY <1>1, <1>2, <1>16 DEF NothingReadYet, ReadIsBehind, SteadyIsAhead, Pages
<1> QED
  BY <1>1, <1>16, <1>19, <1>20 DEF ReadersInv, ClientInv


LEMMA FirstPageKeepsReaders ==
    ASSUME ReadersInv, NEW mode \in {"timeline", "sequence", "timestamp"}, NEW from \in Nat,
           FirstPage(mode, from)
    PROVE  ReadersInv'
<1> DEFINE found == Found(mode, from, NoCursor)
<1>1. /\ client.mode = "none" /\ Asked(mode, from, SeqsOf(found), found)
      /\ UNCHANGED <<ledgerVars, clock, stamp>>
  BY DEF FirstPage
<1>2. LedgerInv /\ \A s \in Seqs : ~(client.got[s] > 0)
  BY <1>1 DEF ReadersInv, ClientInv, NothingReadYet
<1>3. SeqsOf(found) \in SUBSET SeqsOf(rows)
  BY DEF Found, SeqsOf
<1>4. \A r \in rows : r.seq \in SeqsOf(found) => r \in found
  BY <1>2 DEF Found, SeqsOf, LedgerInv, OneEventPerSequence, RowsWereAccepted
<1> QED
  BY <1>1, <1>2, <1>3, <1>4, PageKeepsReaders

LEMMA NextPageKeepsReaders ==
    ASSUME ReadersInv, NextPage
    PROVE  ReadersInv'
<1> DEFINE found == Found(client.mode, client.from, client.cursor)
<1>1. /\ client.mode \in {"timeline", "sequence", "timestamp"} /\ ~client.done
      /\ Asked(client.mode, client.from, client.steady, found)
      /\ UNCHANGED <<ledgerVars, clock, stamp>>
  BY DEF NextPage
<1>2. /\ Pages /\ client \in Clients /\ ReadIsBehind /\ SteadyIsAhead /\ StampsTellApart /\ LedgerInv
  BY <1>1 DEF ReadersInv, ClientInv, Pages
<1>3. /\ client.from \in Nat /\ client.cursor \in Keys
      /\ client.steady \in SUBSET SeqsOf(rows)
  BY <1>1, <1>2 DEF Clients, SteadyIsAhead
<1>4. ASSUME NEW s \in Seqs, client.got[s] > 0
      PROVE  client.got[s] = 1 /\ s \in StampedSeqs /\ ~Before(client.cursor, KeyOf(client.mode, s))
  BY <1>1, <1>2, <1>4 DEF ReadIsBehind
<1>5. ASSUME NEW r \in rows, r.seq \in client.steady
      PROVE  client.got[r.seq] > 0 \/ r \in found
  <2>1. Key(client.mode, r) = KeyOf(client.mode, r.seq)
    BY <1>2, RowsHaveKeys
  <2> QED
    BY <1>2, <1>5, <2>1 DEF SteadyIsAhead, Found, Beyond
<1> QED
  BY <1>1, <1>3, <1>4, <1>5, PageKeepsReaders

LEMMA ReadersStep ==
    ASSUME ReadersInv, [QueriesNext]_queryVars
    PROVE  ReadersInv'
<1>0. clock \in Nat
  BY DEF ReadersInv, StampsTellApart
<1>1. CASE \E e \in Envelopes, captured \in BOOLEAN : Ingest(e, captured)
  BY <1>1, IngestKeepsReaders
<1>2. CASE UNCHANGED queryVars
  BY <1>0, <1>2, RestKeepsReaders DEF queryVars
<1>3. CASE \E cutoff \in 1 .. MaxClock : Prune(cutoff)
  BY <1>3, PruneKeepsReaders
<1>4. CASE Tick
  BY <1>0, <1>4, RestKeepsReaders DEF Tick
<1>5. CASE NextPage
  BY <1>5, NextPageKeepsReaders
<1>6. CASE \E n \in 0 .. Limit, jobGap \in BOOLEAN : Poll(n, jobGap)
  <2>1. 0 .. Limit \subseteq Nat
    BY QueriesAssumption
  <2> QED
    BY <1>6, <2>1, PollKeepsReaders
<1>7. CASE \E mode \in Modes \ {"poll"}, from \in 0 .. 1 : FirstPage(mode, from)
  <2>1. Modes \ {"poll"} = {"timeline", "sequence", "timestamp"} /\ 0 .. 1 \subseteq Nat
    BY DEF Modes
  <2> QED
    BY <1>7, <2>1, FirstPageKeepsReaders
<1> QED
  BY <1>1, <1>2, <1>3, <1>4, <1>5, <1>6, <1>7 DEF QueriesNext

LEMMA ReadersInitInv == QueriesInit => ReadersInv
<1> SUFFICES ASSUME QueriesInit PROVE ReadersInv
  OBVIOUS
<1>1. /\ LedgerInit /\ clock = 0 /\ client = Idle
      /\ stamp = [s \in Seqs |-> [id |-> 0, at |-> 0]] /\ rows = {}
  BY DEF QueriesInit, LedgerInit
<1>2. LedgerInv
  BY <1>1, LedgerInitInv
<1>3. StampedSeqs = {} /\ SeqsOf({}) = {}
  BY <1>1 DEF StampedSeqs, SeqsOf
<1>4. StampsTellApart
  BY <1>1, <1>3, FS_EmptySet DEF StampsTellApart
<1>5. ClientInv
  BY <1>1, <1>3 DEF Idle, Clients, ClientInv, NothingReadYet, ReadIsBehind, SteadyIsAhead,
                    PollIsAcknowledged, Pages
<1> QED
  BY <1>2, <1>4, <1>5 DEF ReadersInv

----------------------------------------------------------------------------
(* What the readers of the ledger may rely on, for every number of rows,   *)
(* pages of every size, and every interleaving with arrivals and           *)
(* retention.                                                              *)
THEOREM ReadersInvariant == QueriesSpec => []ReadersInv
<1>1. QueriesInit => ReadersInv
  BY ReadersInitInv
<1>2. ReadersInv /\ [QueriesNext]_queryVars => ReadersInv'
  BY ReadersStep
<1> QED
  BY <1>1, <1>2, PTL DEF QueriesSpec

(* Whoever follows the cursors of getTimeline or getChangedSincePage to the *)
(* end has every row that was there all the time exactly once.             *)
THEOREM SteadyRowsPagedOnce == QueriesSpec => []SteadyRowPagedOnce
<1>1. ReadersInv => SteadyRowPagedOnce
  <2> SUFFICES ASSUME ReadersInv, Pages PROVE SteadyRowPagedOnce
    BY DEF SteadyRowPagedOnce, Pages
  <2>1. client \in Clients /\ ReadIsBehind /\ SteadyIsAhead
    BY DEF ReadersInv, ClientInv
  <2>2. \A s \in Seqs : client.got[s] \in Nat /\ (client.got[s] > 0 => client.got[s] = 1)
    BY <2>1 DEF Clients, ReadIsBehind
  <2>3. \A s \in Seqs : client.got[s] <= 1
    BY <2>2
  <2>4. ASSUME client.done, NEW s \in client.steady PROVE client.got[s] = 1
    <3>1. PICK r \in rows : r.seq = s
      BY <2>1 DEF SteadyIsAhead, SeqsOf
    <3>2. client.got[s] > 0 /\ s \in Seqs
      BY <2>1, <2>4, <3>1 DEF SteadyIsAhead, Clients
    <3> QED
      BY <2>2, <3>2
  <2> QED
    BY <2>3, <2>4 DEF SteadyRowPagedOnce
<1> QED
  BY <1>1, ReadersInvariant, PTL

(* Whoever polls for context packs with the last sequence id it has, and   *)
(* is never shown a gap in one, has missed no row up to that id.           *)
THEOREM PollsMissNothing == QueriesSpec => []PollMissesNothing
<1>1. ReadersInv => PollMissesNothing
  BY DEF ReadersInv, ClientInv, PollIsAcknowledged, PollMissesNothing
<1> QED
  BY <1>1, ReadersInvariant, PTL

----------------------------------------------------------------------------
(* The context pack.                                                       *)

(* A list in the order of its keys is a list of exactly what was found, if *)
(* no two of them have the same key.                                       *)
LEMMA InOrderListsAll ==
    ASSUME NEW found, IsFiniteSet(found), NEW key \in [found -> Int \X Int],
           \A q, r \in found : key[q] = key[r] => q = r
    PROVE  /\ InOrder(key, found) \in Seq(found)
           /\ Len(InOrder(key, found)) = Cardinality(found)
           /\ \A r \in found : \E i \in 1 .. Cardinality(found) : InOrder(key, found)[i] = r
<1> DEFINE E(r) == {q \in found : Before(key[q], key[r])}
           n == Cardinality(found)
           place == [r \in found |-> Cardinality(E(r)) + 1]
           list == InOrder(key, found)
<1>1. n \in Nat
  BY FS_CardinalityType
<1>2. \A r \in found : IsFiniteSet(E(r)) /\ Cardinality(E(r)) \in Nat
  BY FS_Subset, FS_CardinalityType
<1>3. ASSUME NEW r \in found PROVE Cardinality(E(r)) < n
  <2>1. r \notin E(r)
    BY DEF Before
  <2>2. E(r) \in SUBSET found
    OBVIOUS
  <2>3. Cardinality(E(r)) <= n /\ (n = Cardinality(E(r)) => E(r) = found)
    BY <2>2, FS_Subset
  <2>4. Cardinality(E(r)) \in Nat
    BY <1>2
  <2> HIDE DEF E
  <2> QED
    BY <1>1, <2>1, <2>3, <2>4
<1>4. ASSUME NEW q \in found, NEW r \in found, Before(key[q], key[r])
      PROVE  Cardinality(E(q)) < Cardinality(E(r))
  <2>1. key[q] \in Int \X Int /\ key[r] \in Int \X Int
    OBVIOUS
  <2>2. q \in E(r) /\ q \notin E(q)
    BY <1>4, <2>1 DEF Before
  <2>3. ASSUME NEW x \in E(q) PROVE x \in E(r)
    <3>1. key[x] \in Int \X Int /\ Before(key[x], key[q])
      OBVIOUS
    <3> QED
      BY <1>4, <2>1, <3>1 DEF Before
  <2>4. E(q) \in SUBSET E(r)
    BY <2>3
  <2>5. /\ Cardinality(E(q)) <= Cardinality(E(r))
        /\ Cardinality(E(r)) = Cardinality(E(q)) => E(r) = E(q)
    BY <1>2, <2>4, FS_Subset
  <2> QED
    BY <1>2, <2>2, <2>5
<1> HIDE DEF E
<1>5. place \in [found -> 1 .. n]
  <2>1. \A r \in found : Cardinality(E(r)) + 1 \in 1 .. n
    BY <1>1, <1>2, <1>3
  <2> QED
    BY <2>1
<1>6. \A q, r \in found : place[q] = place[r] => q = r
  <2> SUFFICES ASSUME NEW q \in found, NEW r \in found, place[q] = place[r], q # r
               PROVE  FALSE
    OBVIOUS
  <2>1. key[q] # key[r] /\ key[q] \in Int \X Int /\ key[r] \in Int \X Int
    OBVIOUS
  <2>2. Before(key[q], key[r]) \/ Before(key[r], key[q])
    BY <2>1 DEF Before
  <2>3. Cardinality(E(q)) = Cardinality(E(r))
    <3>1. Cardinality(E(q)) + 1 = Cardinality(E(r)) + 1
      OBVIOUS
    <3> QED
      BY <1>2, <3>1
  <2> QED
    BY <1>2, <1>4, <2>2, <2>3
<1>7. place \in Injection(found, 1 .. n)
  BY <1>5, <1>6 DEF Injection, IsInjective
<1>8. IsFiniteSet(1 .. n) /\ Cardinality(1 .. n) = n
  BY <1>1, FS_Interval
<1>9. place \in Surjection(found, 1 .. n)
  BY <1>7, <1>8, FS_Injection, Zenon
<1>10. \A i \in 1 .. n : \E r \in found : Cardinality(E(r)) = i - 1
  <2>1. \A i \in 1 .. n : \E r \in found : place[r] = i
    BY <1>9 DEF Surjection
  <2> QED
    BY <1>2, <2>1
<1>11. list = [i \in 1 .. n |-> CHOOSE r \in found : Cardinality(E(r)) = i - 1]
  BY DEF InOrder, E
<1>12. ASSUME NEW i \in 1 .. n PROVE list[i] \in found /\ Cardinality(E(list[i])) = i - 1
  <2>1. list[i] = CHOOSE r \in found : Cardinality(E(r)) = i - 1
    BY <1>11
  <2>2. \E r \in found : Cardinality(E(r)) = i - 1
    BY <1>10
  <2> HIDE DEF list
  <2> QED
    BY <2>1, <2>2
<1>13. list \in [1 .. n -> found]
  BY <1>11, <1>12
<1>14. list \in Seq(found) /\ Len(list) = n
  <2> HIDE DEF list, n
  <2> QED BY <1>1, <1>13
<1>15. ASSUME NEW r \in found PROVE \E i \in 1 .. n : list[i] = r
  <2>1. place[r] \in 1 .. n
    BY <1>5
  <2>2. /\ list[place[r]] \in found
        /\ Cardinality(E(list[place[r]])) = place[r] - 1
    BY <1>12, <2>1
  <2>3. place[list[place[r]]] = place[r]
    <3>1. place[list[place[r]]] = Cardinality(E(list[place[r]])) + 1
      BY <2>2
    <3>2. place[r] \in Nat
      BY <1>1, <2>1
    <3> QED
      BY <2>2, <3>1, <3>2
  <2>4. list[place[r]] = r
    BY <1>6, <2>2, <2>3
  <2> QED
    BY <2>1, <2>4
<1> QED
  BY <1>14, <1>15

(* The first n of a list.                                                  *)
LEMMA FirstTakes ==
    ASSUME NEW T, NEW list \in Seq(T), NEW n \in Nat
    PROVE  /\ First(n, list) \in Seq(T)
           /\ Len(First(n, list)) = IF n <= Len(list) THEN n ELSE Len(list)
           /\ \A i \in 1 .. Len(First(n, list)) : First(n, list)[i] = list[i]
<1> DEFINE m == IF n <= Len(list) THEN n ELSE Len(list)
<1>1. Len(list) \in Nat /\ m \in Nat /\ m <= Len(list)
  OBVIOUS
<1>2. Min({n, Len(list)}) = m
  <2>1. m \in {n, Len(list)} /\ \A x \in {n, Len(list)} : m <= x
    BY <1>1
  <2>2. \A x \in {n, Len(list)} : (\A y \in {n, Len(list)} : x <= y) => x = m
    BY <1>1, <2>1
  <2> QED
    BY <2>1, <2>2 DEF Min
<1>3. First(n, list) = SubSeq(list, 1, m)
  BY <1>2 DEF First
<1> HIDE DEF m
<1>4. /\ SubSeq(list, 1, m) \in Seq(T) /\ Len(SubSeq(list, 1, m)) = m
      /\ \A i \in 1 .. m : SubSeq(list, 1, m)[i] = list[i]
  BY <1>1
<1> QED
  BY <1>3, <1>4 DEF m

LEMMA ElementsOf ==
    ASSUME NEW T, NEW list \in Seq(T)
    PROVE  Len(list) \in Nat /\ \A i \in 1 .. Len(list) : list[i] \in T
OBVIOUS

(* Items of a pack, and the bytes of them.                                 *)
Items(V) == [of : V, size : Nat, full : BOOLEAN]

LEMMA BytesCount ==
    ASSUME NEW V, NEW items \in Seq(Items(V))
    PROVE  IsFiniteSet(Bytes(items)) /\ Total(items) \in Nat
<1> DEFINE share(i) == {i} \X (1 .. items[i].size)
           shares == {share(i) : i \in DOMAIN items}
<1>1. DOMAIN items = 1 .. Len(items) /\ Len(items) \in Nat
  OBVIOUS
<1>2. IsFiniteSet(DOMAIN items)
  BY <1>1, FS_Interval
<1>3. IsFiniteSet(shares)
  <2> DEFINE f == [i \in DOMAIN items |-> share(i)]
  <2> HIDE DEF share
  <2>1. f \in Surjection(DOMAIN items, shares)
    BY DEF Surjection
  <2> HIDE DEF f, shares
  <2> QED
    BY <1>2, <2>1, FS_Surjection
<1>4. ASSUME NEW i \in DOMAIN items PROVE IsFiniteSet(share(i))
  <2>1. items[i] \in Items(V)
    BY <1>1
  <2>2. items[i].size \in Nat
    BY <2>1 DEF Items
  <2>3. IsFiniteSet({i})
    BY FS_Singleton
  <2>4. ASSUME NEW k \in Nat PROVE IsFiniteSet(1 .. k)
    BY FS_Interval
  <2> QED
    BY <2>2, <2>3, <2>4, FS_Product
<1>5. IsFiniteSet(UNION shares)
  <2>1. \A T \in shares : IsFiniteSet(T)
    BY <1>4
  <2> HIDE DEF shares
  <2> QED BY <1>3, <2>1, FS_UNION
<1>6. Bytes(items) = UNION shares
  BY DEF Bytes
<1> QED
  BY <1>5, <1>6, FS_CardinalityType DEF Total

(* One item more, taken from the candidates in their order.                *)
LEMMA AppendShowsFirst ==
    ASSUME NEW V, NEW all \in Seq(V), NEW items \in Seq(Items(V)), ShowsFirst(items, all),
           Len(items) < Len(all), \A i \in DOMAIN items : items[i].full,
           NEW x \in Items(V), x.of = all[Len(items) + 1]
    PROVE  /\ Append(items, x) \in Seq(Items(V)) /\ ShowsFirst(Append(items, x), all)
           /\ x.full => \A i \in DOMAIN Append(items, x) : Append(items, x)[i].full
<1> DEFINE n == Len(items)
           more == Append(items, x)
<1>1. /\ n \in Nat /\ Len(all) \in Nat /\ DOMAIN items = 1 .. n /\ DOMAIN more = 1 .. n + 1
      /\ Len(more) = n + 1 /\ more \in Seq(Items(V))
      /\ more[n + 1] = x /\ \A i \in 1 .. n : more[i] = items[i]
  OBVIOUS
<1>2. \A i \in 1 .. n : items[i].of = all[i] /\ items[i].full
  BY <1>1 DEF ShowsFirst
<1> HIDE DEF more
<1>3. ASSUME NEW i \in 1 .. n + 1
      PROVE  /\ more[i].of = all[i] /\ (i < n + 1 => more[i].full) /\ (x.full => more[i].full)
  <2>1. CASE i = n + 1
    BY <1>1, <2>1
  <2>2. CASE i \in 1 .. n
    BY <1>1, <1>2, <2>2
  <2> QED
    BY <1>1, <2>1, <2>2
<1>4. n + 1 <= Len(all)
  BY <1>1
<1> QED
  BY <1>1, <1>3, <1>4 DEF ShowsFirst, more

(* The last item taken off.                                                *)
LEMMA FrontShowsFirst ==
    ASSUME NEW V, NEW all \in Seq(V), NEW items \in Seq(Items(V)), ShowsFirst(items, all),
           items # <<>>
    PROVE  /\ Front(items) \in Seq(Items(V)) /\ ShowsFirst(Front(items), all)
           /\ Total(Front(items)) \in Nat /\ Total(Front(items)) <= Total(items)
<1> DEFINE n == Len(items)
           less == Front(items)
<1>1. n \in Nat /\ n > 0 /\ Len(all) \in Nat /\ DOMAIN items = 1 .. n
  OBVIOUS
<1>2. /\ less \in Seq(Items(V)) /\ Len(less) = n - 1 /\ DOMAIN less = 1 .. n - 1
      /\ \A i \in 1 .. n - 1 : less[i] = items[i]
  BY <1>1 DEF Front
<1> HIDE DEF less
<1>3. ShowsFirst(less, all)
  BY <1>1, <1>2 DEF ShowsFirst
<1>4. Bytes(less) \in SUBSET Bytes(items)
  <2>1. ASSUME NEW p \in Bytes(less) PROVE p \in Bytes(items)
    <3>1. PICK i \in 1 .. n - 1 : p \in {i} \X (1 .. less[i].size)
      BY <1>2 DEF Bytes
    <3>2. i \in DOMAIN items /\ p \in {i} \X (1 .. items[i].size)
      BY <1>1, <1>2, <3>1
    <3> QED
      BY <3>2 DEF Bytes
  <2> QED
    BY <2>1
<1>5. IsFiniteSet(Bytes(items)) /\ Total(less) \in Nat
  BY <1>2, BytesCount
<1>6. Total(less) <= Total(items)
  BY <1>4, <1>5, FS_Subset DEF Total
<1> QED
  BY <1>2, <1>3, <1>5, <1>6 DEF less

(* byteLength has the more digits the larger it is.                        *)
LEMMA DigitsGrow ==
    ASSUME NEW m \in Int, NEW n \in Int, m <= n
    PROVE  /\ Digits(m) \in Nat /\ Digits(n) \in Nat /\ 1 <= Digits(m) /\ Digits(m) <= Digits(n)
           /\ Digits(n) <= 1 + Cardinality(Powers) /\ Cardinality(Powers) \in Nat
           /\ Digits(m) < Digits(n) => \E p \in Powers : m < p /\ p <= n
<1> DEFINE M == {p \in Powers : p <= m}
           N == {p \in Powers : p <= n}
<1>1. IsFiniteSet(Powers) /\ Powers \subseteq Int
  BY PackAssumption
<1>2. M \in SUBSET N /\ N \in SUBSET Powers
  <2>1. \A p \in Powers : p \in Int
    BY <1>1
  <2>2. \A p \in Int : p <= m => p <= n
    OBVIOUS
  <2> QED
    BY <2>1, <2>2
<1>3. IsFiniteSet(N) /\ IsFiniteSet(M)
  BY <1>1, <1>2, FS_Subset
<1>4. /\ Cardinality(M) <= Cardinality(N) /\ Cardinality(N) <= Cardinality(Powers)
      /\ Cardinality(M) \in Nat /\ Cardinality(N) \in Nat /\ Cardinality(Powers) \in Nat
  BY <1>1, <1>2, <1>3, FS_Subset, FS_CardinalityType
<1>5. Digits(m) = 1 + Cardinality(M) /\ Digits(n) = 1 + Cardinality(N)
  BY DEF Digits
<1>6. ASSUME Digits(m) < Digits(n) PROVE \E p \in Powers : m < p /\ p <= n
  <2>1. M # N
    BY <1>4, <1>5, <1>6
  <2>2. PICK p \in N : p \notin M
    BY <1>2, <2>1
  <2> QED
    BY <1>1, <2>2
<1> HIDE DEF M, N
<1> QED
  BY <1>4, <1>5, <1>6

LEMMA ZeroHasOneDigit == Digits(0) = 1
<1>1. \A p \in Powers : p \in Nat \ {0}
  BY PackAssumption
<1>2. \A p \in Nat \ {0} : ~(p <= 0)
  OBVIOUS
<1>3. {p \in Powers : p <= 0} = {}
  BY <1>1, <1>2
<1> QED
  BY <1>3, FS_EmptySet DEF Digits

(* Three passes are enough: the number they end with is the size of a pack *)
(* that carries it, whatever the rest of it measures.                      *)
LEMMA ThreePassesSettle ==
    ASSUME NEW S \in Nat
    PROVE  LET last == S + Digits(S + Digits(S + Digits(0)))
           IN  last \in Nat /\ S + Digits(last) <= last
<1> DEFINE b1 == S + Digits(0)
           b2 == S + Digits(b1)
           b3 == S + Digits(b2)
<1>1. b1 = S + 1
  BY ZeroHasOneDigit
<1>2. b1 \in Nat
  BY <1>1
<1>3. Digits(b1) \in Nat /\ 1 <= Digits(b1)
  BY <1>2, DigitsGrow
<1>4. b2 \in Nat /\ b1 <= b2
  BY <1>1, <1>3
<1>5. Digits(b2) \in Nat /\ Digits(b1) <= Digits(b2) /\ Digits(b2) <= 1 + Cardinality(Powers)
      /\ Cardinality(Powers) \in Nat
  BY <1>2, <1>4, DigitsGrow
<1>6. b3 \in Nat /\ b2 <= b3
  BY <1>3, <1>5
<1>7. Digits(b3) \in Nat /\ Digits(b2) <= Digits(b3)
  BY <1>4, <1>6, DigitsGrow
<1>8. ASSUME Digits(b2) < Digits(b3) PROVE FALSE
  <2>1. PICK q \in Powers : b2 < q /\ q <= b3
    BY <1>4, <1>6, <1>8, DigitsGrow
  <2>2. Digits(b1) < Digits(b2)
    <3>1. q \in Int /\ b2 < b3
      BY <1>4, <1>6, <2>1, PackAssumption
    <3> QED
      BY <1>3, <1>5, <3>1
  <2>3. PICK p \in Powers : b1 < p /\ p <= b2
    BY <1>2, <1>4, <2>2, DigitsGrow
  <2>4. p \in Int /\ q \in Int /\ p < q
    BY <1>4, <2>1, <2>3, PackAssumption
  <2>5. q - p > Cardinality(Powers)
    BY <2>4, PackAssumption
  <2>6. b3 - b1 <= Cardinality(Powers)
    BY <1>1, <1>5
  <2> QED
    BY <1>2, <1>4, <1>5, <1>6, <2>1, <2>3, <2>4, <2>5, <2>6
<1>9. Digits(b3) = Digits(b2)
  BY <1>5, <1>7, <1>8
<1>10. S + Digits(b3) = b3
  BY <1>9
<1> QED
  BY <1>6, <1>10

(* What is left of a list when each hit is replaced by what it stands for. *)
LEMMA OfWhatWasHit ==
    ASSUME NEW H, NEW V, NEW list \in Seq(H), \A h \in H : h.of \in V
    PROVE  [i \in DOMAIN list |-> list[i].of] \in Seq(V)
<1>1. Len(list) \in Nat /\ DOMAIN list = 1 .. Len(list) /\ \A i \in 1 .. Len(list) : list[i] \in H
  OBVIOUS
<1>2. [i \in DOMAIN list |-> list[i].of] \in [1 .. Len(list) -> V]
  BY <1>1
<1> QED
  BY <1>1, <1>2

(* The hits of a search: rows, and objects, told apart by their keys.      *)
LEMMA HitsAreRowsOrObjects ==
    ASSUME LedgerInv, StampsTellApart, NEW n \in Nat
    PROVE  /\ IsFiniteSet(Hits(n))
           /\ \A h \in Hits(n) :
                 /\ h.score \in Int /\ h.key \in Int
                 /\ h.key > 0 => h.of \in rows
                 /\ h.key <= 0 => h.of \in Objects
           /\ \A g, h \in Hits(n) : g.key = h.key => g = h
<1> DEFINE matching == {r \in rows : Score[r.ev] > 0}
           key == [r \in matching |-> <<-Score[r.ev], -r.seq>>]
           all == {AsHit(r) : r \in Range(EventHits(n))} \cup {ObjectHit(o) : o \in Objects}
           merit == [h \in all |-> <<-h.score, h.key>>]
<1>1. \A r \in rows :
         /\ Score[r.ev] \in Nat /\ r.seq \in Nat
         /\ stamp[r.seq].id \in Nat /\ stamp[r.seq].id > 0
         /\ r.seq \in StampedSeqs
  BY RowsHaveKeys, PackAssumption, SeqsAssumption DEF Envelopes, StampedSeqs, StampsTellApart
<1>2. \A q, r \in rows : q.seq = r.seq => q = r
  BY DEF LedgerInv, OneEventPerSequence, RowsWereAccepted
<1>3. IsFiniteSet(matching) /\ IsFiniteSet(rows)
  BY FS_Subset DEF StampsTellApart
<1>4. EventHits(n) \in Seq(rows)
  <2>1. key \in [matching -> Int \X Int]
    <3>1. \A r \in matching : -Score[r.ev] \in Int /\ -r.seq \in Int
      BY <1>1
    <3> QED
      BY <3>1
  <2>2. ASSUME NEW q \in matching, NEW r \in matching, key[q] = key[r] PROVE q = r
    <3>1. -q.seq = -r.seq
      BY <2>2
    <3>2. q.seq = r.seq
      BY <1>1, <3>1
    <3> QED
      BY <1>2, <3>2
  <2>3. InOrder(key, matching) \in Seq(matching)
    <3> HIDE DEF matching, key
    <3> QED BY <1>3, <2>1, <2>2, InOrderListsAll
  <2>4. First(n, InOrder(key, matching)) \in Seq(matching)
    BY <2>3, FirstTakes
  <2>5. EventHits(n) = First(n, InOrder(key, matching))
    BY DEF EventHits
  <2> HIDE DEF matching, key
  <2>6. EventHits(n) \in Seq(matching)
    BY <2>4, <2>5
  <2>7. matching \subseteq rows
    BY DEF matching
  <2> QED
    BY <2>6, <2>7
<1>5. Range(EventHits(n)) \subseteq rows
  BY <1>4 DEF Range
<1>6. ASSUME NEW h \in all
      PROVE  \/ \E r \in rows : h = AsHit(r)
             \/ \E o \in Objects : h = ObjectHit(o)
  BY <1>5
<1>7. IsFiniteSet(all)
  <2>1. IsFiniteSet(Range(EventHits(n)))
    BY <1>3, <1>5, FS_Subset
  <2>2. ASSUME NEW S, IsFiniteSet(S), NEW T, NEW f \in Surjection(S, T) PROVE IsFiniteSet(T)
    BY <2>2, FS_Surjection
  <2>3. /\ [r \in Range(EventHits(n)) |-> AsHit(r)] \in
             Surjection(Range(EventHits(n)), {AsHit(r) : r \in Range(EventHits(n))})
        /\ [o \in Objects |-> ObjectHit(o)] \in Surjection(Objects, {ObjectHit(o) : o \in Objects})
    BY DEF Surjection
  <2>4. IsFiniteSet({AsHit(r) : r \in Range(EventHits(n))})
    BY <2>1, <2>2, <2>3
  <2>5. IsFiniteSet({ObjectHit(o) : o \in Objects})
    BY <2>2, <2>3, PackAssumption
  <2> QED
    BY <2>4, <2>5, FS_Union
<1>8. ASSUME NEW h \in all
      PROVE  /\ h.score \in Int /\ h.key \in Int
             /\ h.key > 0 => h.of \in rows
             /\ h.key <= 0 => h.of \in Objects
  <2>1. CASE \E r \in rows : h = AsHit(r)
    BY <1>1, <2>1 DEF AsHit
  <2>2. CASE \E o \in Objects : h = ObjectHit(o)
    BY <2>2, PackAssumption DEF ObjectHit
  <2> QED
    BY <1>6, <2>1, <2>2
<1>9. ASSUME NEW g \in all, NEW h \in all, g.key = h.key PROVE g = h
  <2>1. ASSUME NEW r \in rows, NEW o \in Objects PROVE AsHit(r).key # ObjectHit(o).key
    BY <1>1, PackAssumption DEF AsHit, ObjectHit
  <2>2. ASSUME NEW q \in rows, NEW r \in rows, AsHit(q).key = AsHit(r).key PROVE q = r
    <3>1. stamp[q.seq].id = stamp[r.seq].id
      BY <2>2 DEF AsHit
    <3> QED
      BY <1>1, <1>2, <3>1 DEF StampsTellApart
  <2>3. ASSUME NEW o \in Objects, NEW p \in Objects, ObjectHit(o).key = ObjectHit(p).key PROVE o = p
    BY <2>3, PackAssumption DEF ObjectHit
  <2> HIDE DEF all
  <2> QED
    BY <1>6, <1>9, <2>1, <2>2, <2>3
<1>10. InOrder(merit, all) \in Seq(all)
  <2>1. merit \in [all -> Int \X Int]
    <3>1. \A h \in all : -h.score \in Int /\ h.key \in Int
      BY <1>8
    <3> HIDE DEF all
    <3> QED BY <3>1
  <2>2. ASSUME NEW g \in all, NEW h \in all, merit[g] = merit[h] PROVE g = h
    <3>1. g.key = h.key
      BY <2>2
    <3> QED
      BY <1>9, <3>1
  <2> HIDE DEF merit, all
  <2> QED
    BY <1>7, <2>1, <2>2, InOrderListsAll
<1>11. Hits(n) = Range(First(n, InOrder(merit, all)))
  BY DEF Hits, Merged
<1> HIDE DEF all, merit
<1>12. First(n, InOrder(merit, all)) \in Seq(all)
  BY <1>10, FirstTakes
<1>13. Hits(n) \subseteq all
  BY <1>11, <1>12 DEF Range
<1>14. IsFiniteSet(Hits(n))
  BY <1>7, <1>13, FS_Subset
<1> QED
  BY <1>8, <1>9, <1>13, <1>14

(* A selection of hits, in their order, as the rows or objects they are.   *)
LEMMA MergedHits ==
    ASSUME LedgerInv, StampsTellApart, NEW n \in Nat, NEW H \in SUBSET Hits(n)
    PROVE  Merged(H) \in Seq(H)
<1> DEFINE merit == [h \in H |-> <<-h.score, h.key>>]
<1>1. IsFiniteSet(H)
  BY HitsAreRowsOrObjects, FS_Subset
<1>2. \A h \in H : -h.score \in Int /\ h.key \in Int
  BY HitsAreRowsOrObjects
<1>3. merit \in [H -> Int \X Int]
  BY <1>2
<1>4. ASSUME NEW g \in H, NEW h \in H, merit[g] = merit[h] PROVE g = h
  <2>1. g.key = h.key
    BY <1>4
  <2> QED
    BY <2>1, HitsAreRowsOrObjects
<1>5. Merged(H) = InOrder(merit, H)
  BY DEF Merged
<1> HIDE DEF merit
<1> QED
  BY <1>1, <1>3, <1>4, <1>5, InOrderListsAll

(* The candidates of every source are rows and objects; a timeline that    *)
(* does not say that there is more has every row.                          *)
LEMMA CandidatesAre ==
    ASSUME LedgerInv, StampsTellApart, NEW s \in Shapes
    PROVE  LET from == Candidates(s.source, s.events, s.objects)
           IN  /\ from.events \in Seq(rows) /\ from.objects \in Seq(Objects)
               /\ from.more \in BOOLEAN
               /\ s.source = "timeline" /\ ~from.more =>
                     \A r \in rows : \E i \in 1 .. Len(from.events) : from.events[i] = r
<1> DEFINE n == s.events
           o == s.objects
           from == Candidates(s.source, n, o)
<1>1. /\ n \in Nat /\ o \in Nat /\ n + o \in Nat
      /\ s.source \in {"search", "changed-since", "timeline"}
  BY DEF Shapes
<1> HIDE DEF n, o
<1>2. CASE s.source = "search"
  <2> DEFINE of(list) == [i \in DOMAIN list |-> list[i].of]
             E == {h \in Hits(n + o) : h.key > 0}
             O == {h \in Hits(n + o) : h.key <= 0}
  <2>1. E \in SUBSET Hits(n + o) /\ O \in SUBSET Hits(n + o)
    OBVIOUS
  <2>2. (\A h \in E : h.of \in rows) /\ (\A h \in O : h.of \in Objects)
    BY <1>1, HitsAreRowsOrObjects
  <2>3. /\ from.events = First(n, of(Merged(E))) /\ from.objects = First(o, of(Merged(O)))
    BY <1>2 DEF Candidates
  <2> HIDE DEF E, O
  <2>4. Merged(E) \in Seq(E) /\ Merged(O) \in Seq(O)
    BY <1>1, <2>1, MergedHits
  <2>5. of(Merged(E)) \in Seq(rows) /\ of(Merged(O)) \in Seq(Objects)
    BY <2>2, <2>4, OfWhatWasHit
  <2> HIDE DEF of
  <2>6. from.events \in Seq(rows) /\ from.objects \in Seq(Objects)
    BY <1>1, <2>3, <2>5, FirstTakes
  <2>7. from.more = FALSE
    BY <1>2 DEF Candidates
  <2> QED
    BY <1>2, <2>6, <2>7 DEF n, o
<1>3. CASE s.source # "search"
  <2> DEFINE mode == IF s.source = "timeline" THEN "timeline" ELSE "sequence"
             found == Found(mode, 0, NoCursor)
             key == [r \in found |-> Key(mode, r)]
             list == ByKey(mode, found)
  <2>1. found \in SUBSET rows
    BY DEF Found
  <2>2. IsFiniteSet(found) /\ Cardinality(found) \in Nat
    BY <2>1, FS_Subset, FS_CardinalityType DEF StampsTellApart
  <2>3. key \in [found -> Int \X Int] /\ \A q, r \in found : key[q] = key[r] => q = r
    <3> HIDE DEF mode
    <3>1. \A r \in rows : Key(mode, r) \in Nat \X Nat
      BY RowsHaveKeys DEF Keys
    <3>2. \A r \in rows : Key(mode, r) \in Int \X Int
      BY <3>1
    <3>3. \A q, r \in rows : Key(mode, q) = Key(mode, r) => q = r
      BY RowsHaveKeys
    <3> HIDE DEF found
    <3> QED
      BY <2>1, <3>2, <3>3
  <2>4. list = InOrder(key, found)
    BY DEF ByKey
  <2>5. /\ from.events = First(n, list) /\ from.objects = <<>>
        /\ from.more = (s.source = "timeline" /\ HasMore(n, found))
    BY <1>3 DEF Candidates
  <2>6. ASSUME s.source = "timeline" PROVE found = rows
    <3>1. mode = "timeline"
      BY <2>6
    <3>2. \A r \in rows : stamp[r.seq].at >= 0
      <4>1. \A r \in rows : r.seq \in Seqs
        BY RowsHaveKeys DEF StampedSeqs
      <4> QED
        BY <4>1 DEF StampsTellApart
    <3> QED
      BY <3>1, <3>2 DEF Found, InRange, Beyond
  <2> HIDE DEF mode, found, key, list
  <2>7. /\ list \in Seq(found) /\ Len(list) = Cardinality(found)
        /\ \A r \in found : \E i \in 1 .. Cardinality(found) : list[i] = r
    BY <2>2, <2>3, <2>4, InOrderListsAll
  <2>8. /\ from.events \in Seq(found)
        /\ Len(from.events) = IF n <= Len(list) THEN n ELSE Len(list)
        /\ \A i \in 1 .. Len(from.events) : from.events[i] = list[i]
    BY <1>1, <2>5, <2>7, FirstTakes
  <2>9. from.events \in Seq(rows) /\ from.objects \in Seq(Objects)
    BY <2>1, <2>5, <2>8
  <2>10. ASSUME s.source = "timeline", ~from.more, NEW r \in rows
         PROVE  \E i \in 1 .. Len(from.events) : from.events[i] = r
    <3>1. ~HasMore(n, found)
      BY <2>5, <2>10
    <3>2. Cardinality(found) <= n
      BY <1>1, <2>2, <3>1 DEF HasMore
    <3>3. Len(from.events) = Cardinality(found)
      BY <1>1, <2>2, <2>7, <2>8, <3>2
    <3> QED
      BY <2>6, <2>7, <2>8, <2>10, <3>3
  <2>11. from.more \in BOOLEAN
    BY <2>5 DEF HasMore
  <2> QED
    BY <2>9, <2>10, <2>11 DEF n, o
<1> QED
  BY <1>2, <1>3

(* The inductive invariant of buildContextPack.  All that went into the    *)
(* pack so far is the first of the candidates; up to the loop that stops,  *)
(* they are whole, and after each loop the pack is complete or its flag is *)
(* set; once it is measured, it is no longer than its byteLength, which    *)
(* every item that goes only makes easier.                                 *)
PackTypeOK ==
    /\ phase \in {"events", "events stopped", "objects", "objects stopped", "measure", "trim",
                  "done", "failed"}
    /\ request.maxBytes \in Nat
    /\ request.events \in Seq(rows) /\ request.objects \in Seq(Objects)
    /\ packEvents \in Seq(Items(rows)) /\ packObjects \in Seq(Items(Objects))
    /\ packTruncated \in BOOLEAN /\ byteLength \in Nat

Full(items) == \A i \in DOMAIN items : items[i].full

FirstLoop == {"events", "events stopped"}
SecondLoop == {"objects", "objects stopped"}

CandidatesKnown ==
    /\ request.more => packTruncated
    /\ request.source = "timeline" /\ ~request.more =>
          \A r \in rows : \E i \in 1 .. Len(request.events) : request.events[i] = r

EventsRight ==
    /\ ShowsFirst(packEvents, request.events)
    /\ phase = "events" => Full(packEvents)
    /\ phase = "events stopped" => packTruncated
    /\ phase \notin FirstLoop => packTruncated \/ ShowsAll(packEvents, request.events)

ObjectsRight ==
    /\ ShowsFirst(packObjects, request.objects)
    /\ phase \in FirstLoop => packObjects = <<>>
    /\ phase = "objects" => Full(packObjects)
    /\ phase = "objects stopped" => packTruncated
    /\ phase \notin FirstLoop \cup SecondLoop =>
          packTruncated \/ ShowsAll(packObjects, request.objects)

LengthRight ==
    /\ phase \in FirstLoop \cup SecondLoop \cup {"measure"} => byteLength = 0
    /\ phase \in {"trim", "done"} =>
          Size(packEvents, packObjects, packTruncated, byteLength) <= byteLength
    /\ phase = "done" => byteLength <= request.maxBytes
    /\ phase = "failed" => packEvents = <<>> /\ packObjects = <<>>

Building == PackTypeOK /\ CandidatesKnown /\ EventsRight /\ ObjectsRight /\ LengthRight

ContextInv == ReadersInv /\ (NoPack \/ Building)

(* A pack that is no longer than byteLength stays so when its parts shrink *)
(* and it is measured again.                                               *)
LEMMA SmallerSettles ==
    ASSUME NEW V, NEW W, NEW events \in Seq(Items(V)), NEW objects \in Seq(Items(W)),
           NEW fewer \in Seq(Items(V)), NEW less \in Seq(Items(W)),
           Total(fewer) <= Total(events), Total(less) <= Total(objects),
           NEW before \in BOOLEAN, NEW flag \in BOOLEAN, before => flag,
           NEW n \in Nat, Size(events, objects, before, n) <= n
    PROVE  LET m == Size(fewer, less, flag, n)
           IN  m \in Nat /\ m <= n /\ Size(fewer, less, flag, m) <= m
<1> DEFINE m == Size(fewer, less, flag, n)
<1>1. /\ Total(events) \in Nat /\ Total(objects) \in Nat
      /\ Total(fewer) \in Nat /\ Total(less) \in Nat /\ Metadata \in Nat /\ Digits(n) \in Nat
  BY BytesCount, DigitsGrow, PackAssumption
<1>2. m \in Nat /\ m <= n
  <2>1. CASE flag
    <3>1. m = Metadata + Total(fewer) + Total(less) + 0 + Digits(n)
      BY <2>1 DEF Size
    <3>2. CASE before
      BY <1>1, <3>1, <3>2 DEF Size
    <3>3. CASE ~before
      BY <1>1, <3>1, <3>3 DEF Size
    <3> QED
      BY <3>2, <3>3
  <2>2. CASE ~flag
    <3>1. ~before
      BY <2>2
    <3> QED
      BY <1>1, <2>2, <3>1 DEF Size
  <2> QED
    BY <2>1, <2>2
<1>3. Digits(m) \in Nat /\ Digits(m) <= Digits(n)
  BY <1>2, DigitsGrow
<1>4. Size(fewer, less, flag, m) <= m
  <2>1. PICK e \in {0, 1} : e = IF flag THEN 0 ELSE 1
    OBVIOUS
  <2>2. /\ m = Metadata + Total(fewer) + Total(less) + e + Digits(n)
        /\ Size(fewer, less, flag, m) = Metadata + Total(fewer) + Total(less) + e + Digits(m)
    BY <2>1 DEF Size
  <2> HIDE DEF m
  <2> QED
    BY <1>1, <1>3, <2>2
<1> QED
  BY <1>2, <1>4

(* An event or an object, whole or cut, is an item.                        *)
LEMMA ItemsAre ==
    ASSUME rows \subseteq Envelopes
    PROVE  /\ \A r \in rows :
                 /\ EventItem(r) \in Items(rows) /\ EventItem(r).of = r /\ EventItem(r).full
                 /\ Cut(EventItem(r)) \in Items(rows) /\ Cut(EventItem(r)).of = r
           /\ \A o \in Objects :
                 /\ ObjectItem(o) \in Items(Objects) /\ ObjectItem(o).of = o /\ ObjectItem(o).full
                 /\ Cut(ObjectItem(o)) \in Items(Objects) /\ Cut(ObjectItem(o)).of = o
<1>1. \A r \in rows : Sizes[r.ev] \in Nat
  BY PackAssumption DEF Envelopes
<1>2. CutSize \in Nat /\ \A o \in Objects : o.size \in Nat
  BY PackAssumption
<1> QED
  BY <1>1, <1>2 DEF EventItem, ObjectItem, Cut, Items

(* Steps.                                                                  *)
LEMMA AskStarts ==
    ASSUME ReadersInv, NoPack, NEW s \in Shapes, NEW b \in MaxBytes,
           Ask(s.source, s.events, s.objects, b), UNCHANGED queryVars
    PROVE  Building'
<1> DEFINE from == Candidates(s.source, s.events, s.objects)
<1>1. /\ phase' = "events" /\ packTruncated' = from.more
      /\ request' = [source |-> s.source, maxBytes |-> b,
                     events |-> from.events, objects |-> from.objects, more |-> from.more]
      /\ packEvents' = packEvents /\ packObjects' = packObjects /\ byteLength' = byteLength
  BY DEF Ask
<1>2. /\ from.events \in Seq(rows) /\ from.objects \in Seq(Objects) /\ from.more \in BOOLEAN
      /\ s.source = "timeline" /\ ~from.more =>
            \A r \in rows : \E i \in 1 .. Len(from.events) : from.events[i] = r
  BY CandidatesAre DEF ReadersInv
<1>3. packEvents = <<>> /\ packObjects = <<>> /\ byteLength = 0 /\ rows' = rows /\ b \in Nat
  BY PackAssumption DEF NoPack, queryVars, ledgerVars
<1> HIDE DEF from
<1>4. /\ request'.source = s.source /\ request'.maxBytes = b /\ request'.events = from.events
      /\ request'.objects = from.objects /\ request'.more = from.more
  BY <1>1
<1>5. PackTypeOK'
  BY <1>1, <1>2, <1>3, <1>4 DEF PackTypeOK
<1>6. CandidatesKnown'
  BY <1>1, <1>2, <1>3, <1>4 DEF CandidatesKnown
<1>7. Len(from.events) \in Nat /\ Len(from.objects) \in Nat
  BY <1>2
<1>8. EventsRight' /\ ObjectsRight' /\ LengthRight'
  BY <1>1, <1>3, <1>4, <1>7 DEF EventsRight, ObjectsRight, LengthRight, ShowsFirst, Full, FirstLoop,
     SecondLoop
<1> QED
  BY <1>5, <1>6, <1>8 DEF Building

LEMMA TakeEventKeeps ==
    ASSUME rows \subseteq Envelopes, Building, TakeEvent, rows' = rows
    PROVE  Building'
<1> DEFINE r == request.events[Len(packEvents) + 1]
           whole == Append(packEvents, EventItem(r))
           cut == Append(packEvents, Cut(EventItem(r)))
<1>1. /\ phase = "events" /\ Len(packEvents) < Len(request.events)
      /\ \/ /\ packEvents' = whole /\ phase' = "events" /\ packTruncated' = packTruncated
         \/ /\ packEvents' \in {cut, packEvents}
            /\ packTruncated' = TRUE /\ phase' = "events stopped"
      /\ request' = request /\ packObjects' = packObjects /\ byteLength' = byteLength
  BY DEF TakeEvent
<1>2. /\ PackTypeOK /\ CandidatesKnown /\ EventsRight /\ ObjectsRight /\ LengthRight
  BY DEF Building
<1>3. r \in rows
  <2>1. packEvents \in Seq(Items(rows)) /\ request.events \in Seq(rows)
    BY <1>2 DEF PackTypeOK
  <2>2. Len(packEvents) \in Nat /\ Len(request.events) \in Nat /\ \A i \in 1 .. Len(request.events) : request.events[i] \in rows
    BY <2>1, ElementsOf
  <2>3. Len(packEvents) < Len(request.events)
    BY <1>1
  <2>4. Len(packEvents) + 1 \in 1 .. Len(request.events)
    BY <2>2, <2>3
  <2> QED
    BY <2>2, <2>4
<1>4. ShowsFirst(packEvents, request.events) /\ Full(packEvents)
  BY <1>1, <1>2 DEF EventsRight
<1>5. /\ EventItem(r) \in Items(rows) /\ EventItem(r).of = r /\ EventItem(r).full
      /\ Cut(EventItem(r)) \in Items(rows) /\ Cut(EventItem(r)).of = r
  BY <1>3, ItemsAre
<1>6. /\ whole \in Seq(Items(rows)) /\ ShowsFirst(whole, request.events) /\ Full(whole)
      /\ cut \in Seq(Items(rows)) /\ ShowsFirst(cut, request.events)
  <2>1. request.events \in Seq(rows) /\ packEvents \in Seq(Items(rows))
    BY <1>2 DEF PackTypeOK
  <2> QED
    BY <1>1, <1>4, <1>5, <2>1, AppendShowsFirst DEF Full
<1> HIDE DEF whole, cut, r
<1>7. PackTypeOK'
  BY <1>1, <1>2, <1>6 DEF PackTypeOK
<1>8. CandidatesKnown'
  BY <1>1, <1>2 DEF CandidatesKnown
<1>9. EventsRight'
  BY <1>1, <1>4, <1>6 DEF EventsRight, FirstLoop
<1>10. ObjectsRight' /\ LengthRight'
  BY <1>1, <1>2 DEF ObjectsRight, LengthRight, FirstLoop, SecondLoop
<1> QED
  BY <1>7, <1>8, <1>9, <1>10 DEF Building

LEMMA TakeObjectKeeps ==
    ASSUME rows \subseteq Envelopes, Building, TakeObject, rows' = rows
    PROVE  Building'
<1> DEFINE o == request.objects[Len(packObjects) + 1]
           whole == Append(packObjects, ObjectItem(o))
           cut == Append(packObjects, Cut(ObjectItem(o)))
<1>1. /\ phase = "objects" /\ Len(packObjects) < Len(request.objects)
      /\ \/ /\ packObjects' = whole /\ phase' = "objects" /\ packTruncated' = packTruncated
         \/ /\ packObjects' \in {cut, packObjects}
            /\ packTruncated' = TRUE /\ phase' = "objects stopped"
      /\ request' = request /\ packEvents' = packEvents /\ byteLength' = byteLength
  BY DEF TakeObject
<1>2. /\ PackTypeOK /\ CandidatesKnown /\ EventsRight /\ ObjectsRight /\ LengthRight
  BY DEF Building
<1>3. o \in Objects
  <2>1. packObjects \in Seq(Items(Objects)) /\ request.objects \in Seq(Objects)
    BY <1>2 DEF PackTypeOK
  <2>2. Len(packObjects) \in Nat /\ Len(request.objects) \in Nat /\ \A i \in 1 .. Len(request.objects) : request.objects[i] \in Objects
    BY <2>1, ElementsOf
  <2>3. Len(packObjects) < Len(request.objects)
    BY <1>1
  <2>4. Len(packObjects) + 1 \in 1 .. Len(request.objects)
    BY <2>2, <2>3
  <2> QED
    BY <2>2, <2>4
<1>4. ShowsFirst(packObjects, request.objects) /\ Full(packObjects)
  BY <1>1, <1>2 DEF ObjectsRight
<1>5. /\ ObjectItem(o) \in Items(Objects) /\ ObjectItem(o).of = o /\ ObjectItem(o).full
      /\ Cut(ObjectItem(o)) \in Items(Objects) /\ Cut(ObjectItem(o)).of = o
  BY <1>3, ItemsAre
<1>6. /\ whole \in Seq(Items(Objects)) /\ ShowsFirst(whole, request.objects) /\ Full(whole)
      /\ cut \in Seq(Items(Objects)) /\ ShowsFirst(cut, request.objects)
  <2>1. request.objects \in Seq(Objects) /\ packObjects \in Seq(Items(Objects))
    BY <1>2 DEF PackTypeOK
  <2> QED
    BY <1>1, <1>4, <1>5, <2>1, AppendShowsFirst DEF Full
<1> HIDE DEF whole, cut, o
<1>7. PackTypeOK'
  BY <1>1, <1>2, <1>6 DEF PackTypeOK
<1>8. CandidatesKnown'
  BY <1>1, <1>2 DEF CandidatesKnown
<1>9. EventsRight' /\ LengthRight'
  BY <1>1, <1>2 DEF EventsRight, LengthRight, FirstLoop, SecondLoop
<1>10. ObjectsRight'
  BY <1>1, <1>4, <1>6 DEF ObjectsRight, FirstLoop, SecondLoop
<1> QED
  BY <1>7, <1>8, <1>9, <1>10 DEF Building

(* After each loop: all are in the pack in full, or the flag is set.       *)
LEMMA CountsKeep ==
    ASSUME Building, CountEvents \/ CountObjects, rows' = rows
    PROVE  Building'
<1>1. /\ PackTypeOK /\ CandidatesKnown /\ EventsRight /\ ObjectsRight /\ LengthRight
  BY DEF Building
<1>2. /\ packEvents' = packEvents /\ packObjects' = packObjects /\ request' = request
      /\ byteLength' = byteLength /\ (packTruncated => packTruncated') /\ packTruncated' \in BOOLEAN
      /\ phase' \in {"objects", "measure"}
  BY DEF CountEvents, CountObjects
<1>3. PackTypeOK' /\ CandidatesKnown'
  BY <1>1, <1>2 DEF PackTypeOK, CandidatesKnown
<1>4. LengthRight'
  <2>1. phase \in FirstLoop \cup SecondLoop
    BY DEF CountEvents, CountObjects, FirstLoop, SecondLoop
  <2> QED
    BY <1>1, <1>2, <2>1 DEF LengthRight, FirstLoop, SecondLoop
<1>5. CASE CountEvents
  <2>1. packTruncated' \/ ShowsAll(packEvents, request.events)
    BY <1>1, <1>5 DEF CountEvents, EventsRight, ShowsAll, Full
  <2>2. phase \in FirstLoop /\ phase' = "objects"
    BY <1>5 DEF CountEvents, FirstLoop
  <2>3. EventsRight'
    BY <1>1, <1>2, <2>1, <2>2 DEF EventsRight, FirstLoop
  <2>4. packObjects = <<>>
    BY <1>1, <2>2 DEF ObjectsRight
  <2>5. ShowsFirst(packObjects, request.objects) /\ Full(packObjects)
    <3>1. ShowsFirst(packObjects, request.objects)
      BY <1>1 DEF ObjectsRight
    <3>2. DOMAIN packObjects = {}
      BY <2>4
    <3>3. Full(packObjects)
      BY <3>2 DEF Full
    <3> QED
      BY <3>1, <3>3
  <2>6. ObjectsRight'
    BY <1>2, <2>2, <2>5 DEF ObjectsRight, FirstLoop, SecondLoop
  <2> QED
    BY <1>3, <1>4, <2>3, <2>6 DEF Building
<1>6. CASE CountObjects
  <2>1. packTruncated' \/ ShowsAll(packObjects, request.objects)
    BY <1>1, <1>6 DEF CountObjects, ObjectsRight, ShowsAll, Full
  <2>2. phase \in SecondLoop /\ phase' = "measure"
    BY <1>6 DEF CountObjects, SecondLoop
  <2>3. EventsRight'
    BY <1>1, <1>2, <2>2 DEF EventsRight, FirstLoop, SecondLoop
  <2>4. ObjectsRight'
    BY <1>1, <1>2, <2>1, <2>2 DEF ObjectsRight, FirstLoop, SecondLoop
  <2> QED
    BY <1>3, <1>4, <2>3, <2>4 DEF Building
<1> QED
  BY <1>5, <1>6

LEMMA MeasureKeeps ==
    ASSUME Building, Measure, rows' = rows
    PROVE  Building'
<1>1. /\ PackTypeOK /\ CandidatesKnown /\ EventsRight /\ ObjectsRight /\ LengthRight
  BY DEF Building
<1>2. /\ phase = "measure" /\ phase' = "trim" /\ byteLength' = MeasuredThrice
      /\ request' = request /\ packEvents' = packEvents /\ packObjects' = packObjects
      /\ packTruncated' = packTruncated /\ byteLength = 0
  BY <1>1 DEF Measure, LengthRight
<1> DEFINE S == Metadata + Total(packEvents) + Total(packObjects) + (IF packTruncated THEN 0 ELSE 1)
<1>3. /\ S \in Nat
      /\ \A n \in Nat : /\ Size(packEvents, packObjects, packTruncated, n) = S + Digits(n)
                        /\ S + Digits(n) \in Nat
  <2>1. /\ packEvents \in Seq(Items(rows)) /\ packObjects \in Seq(Items(Objects))
        /\ packTruncated \in BOOLEAN
    BY <1>1 DEF PackTypeOK
  <2>2. /\ Metadata \in Nat /\ Total(packEvents) \in Nat /\ Total(packObjects) \in Nat
        /\ \A n \in Nat : Digits(n) \in Nat
    <3>1. ASSUME NEW n \in Nat PROVE Digits(n) \in Nat
      <4>1. n \in Int /\ n <= n
        OBVIOUS
      <4> QED
        BY <4>1, DigitsGrow
    <3>2. Total(packEvents) \in Nat /\ Total(packObjects) \in Nat
      BY <2>1, BytesCount
    <3> QED
      BY <3>1, <3>2, PackAssumption
  <2>3. PICK e \in {0, 1} : e = IF packTruncated THEN 0 ELSE 1
    BY <2>1
  <2>4. S = Metadata + Total(packEvents) + Total(packObjects) + e
    BY <2>3
  <2>5. \A n \in Nat : Size(packEvents, packObjects, packTruncated, n) = S + Digits(n)
    BY <2>3, <2>4 DEF Size
  <2>6. S \in Nat
    BY <2>2, <2>3, <2>4
  <2> HIDE DEF S
  <2> QED
    BY <2>2, <2>5, <2>6
<1>4. byteLength' = S + Digits(S + Digits(S + Digits(0)))
  <2>1. byteLength' = Size(packEvents, packObjects, packTruncated,
                           Size(packEvents, packObjects, packTruncated,
                                Size(packEvents, packObjects, packTruncated, 0)))
    BY <1>2 DEF MeasuredThrice
  <2> HIDE DEF S
  <2>2. Size(packEvents, packObjects, packTruncated, 0) = S + Digits(0) /\ S + Digits(0) \in Nat
    BY <1>3
  <2>3. /\ Size(packEvents, packObjects, packTruncated, S + Digits(0)) = S + Digits(S + Digits(0))
        /\ S + Digits(S + Digits(0)) \in Nat
    BY <1>3, <2>2
  <2> QED
    BY <1>3, <2>1, <2>2, <2>3
<1>5. byteLength' \in Nat /\ S + Digits(byteLength') <= byteLength'
  <2> HIDE DEF S
  <2> QED BY <1>3, <1>4, ThreePassesSettle
<1>6. Size(packEvents, packObjects, packTruncated, byteLength') <= byteLength'
  BY <1>3, <1>5
<1> HIDE DEF S
<1>7. PackTypeOK' /\ CandidatesKnown'
  BY <1>1, <1>2, <1>5 DEF PackTypeOK, CandidatesKnown
<1>8. EventsRight' /\ ObjectsRight'
  BY <1>1, <1>2 DEF EventsRight, ObjectsRight, FirstLoop, SecondLoop
<1>9. LengthRight'
  BY <1>2, <1>6 DEF LengthRight, FirstLoop, SecondLoop
<1> QED
  BY <1>7, <1>8, <1>9 DEF Building

LEMMA TrimKeeps ==
    ASSUME Building, TrimEvents \/ TrimObjects, rows' = rows
    PROVE  Building'
<1>1. /\ PackTypeOK /\ CandidatesKnown /\ EventsRight /\ ObjectsRight /\ LengthRight
  BY DEF Building
<1>2. /\ phase = "trim" /\ phase' = "trim" /\ request' = request /\ packTruncated' = TRUE
      /\ byteLength' = Size(packEvents', packObjects', TRUE, byteLength)
      /\ \/ packEvents # <<>> /\ packEvents' = Front(packEvents) /\ packObjects' = packObjects
         \/ packObjects # <<>> /\ packObjects' = Front(packObjects) /\ packEvents' = packEvents
  BY DEF TrimEvents, TrimObjects, TooLong
<1>3. /\ request.events \in Seq(rows) /\ packEvents \in Seq(Items(rows))
      /\ request.objects \in Seq(Objects) /\ packObjects \in Seq(Items(Objects))
      /\ packTruncated \in BOOLEAN /\ byteLength \in Nat
      /\ ShowsFirst(packEvents, request.events) /\ ShowsFirst(packObjects, request.objects)
      /\ Size(packEvents, packObjects, packTruncated, byteLength) <= byteLength
  BY <1>1, <1>2 DEF PackTypeOK, EventsRight, ObjectsRight, LengthRight
<1>4. Total(packEvents) \in Nat /\ Total(packObjects) \in Nat
  BY <1>3, BytesCount
<1>5. /\ packEvents' \in Seq(Items(rows)) /\ ShowsFirst(packEvents', request.events)
      /\ packObjects' \in Seq(Items(Objects)) /\ ShowsFirst(packObjects', request.objects)
      /\ Total(packEvents') <= Total(packEvents) /\ Total(packObjects') <= Total(packObjects)
  <2>1. CASE packEvents # <<>> /\ packEvents' = Front(packEvents) /\ packObjects' = packObjects
    BY <1>3, <1>4, <2>1, FrontShowsFirst
  <2>2. CASE packObjects # <<>> /\ packObjects' = Front(packObjects) /\ packEvents' = packEvents
    BY <1>3, <1>4, <2>2, FrontShowsFirst
  <2> QED
    BY <1>2, <2>1, <2>2
<1>6. byteLength' \in Nat /\ Size(packEvents', packObjects', TRUE, byteLength') <= byteLength'
  BY <1>2, <1>3, <1>5, SmallerSettles
<1>7. PackTypeOK' /\ CandidatesKnown'
  BY <1>1, <1>2, <1>5, <1>6 DEF PackTypeOK, CandidatesKnown
<1>8. EventsRight' /\ ObjectsRight'
  BY <1>2, <1>5 DEF EventsRight, ObjectsRight, FirstLoop, SecondLoop
<1>9. LengthRight'
  BY <1>2, <1>6 DEF LengthRight, FirstLoop, SecondLoop
<1> QED
  BY <1>7, <1>8, <1>9 DEF Building

LEMMA FinishKeeps ==
    ASSUME Building, Finish, rows' = rows
    PROVE  Building'
<1>1. /\ PackTypeOK /\ CandidatesKnown /\ EventsRight /\ ObjectsRight /\ LengthRight
  BY DEF Building
<1>2. /\ phase = "trim" /\ request' = request /\ packTruncated' = packTruncated
      /\ packEvents' = packEvents /\ packObjects' = packObjects
      /\ byteLength' = Size(packEvents, packObjects, packTruncated, byteLength)
      /\ phase' = IF byteLength' > request.maxBytes THEN "failed" ELSE "done"
      /\ byteLength > request.maxBytes => packEvents = <<>> /\ packObjects = <<>>
  BY DEF Finish, TooLong
<1>3. /\ packEvents \in Seq(Items(rows)) /\ packObjects \in Seq(Items(Objects))
      /\ packTruncated \in BOOLEAN /\ byteLength \in Nat /\ request.maxBytes \in Nat
      /\ Size(packEvents, packObjects, packTruncated, byteLength) <= byteLength
  BY <1>1, <1>2 DEF PackTypeOK, LengthRight
<1>4. Total(packEvents) \in Nat /\ Total(packObjects) \in Nat
  BY <1>3, BytesCount
<1>5. /\ byteLength' \in Nat /\ byteLength' <= byteLength
      /\ Size(packEvents, packObjects, packTruncated, byteLength') <= byteLength'
  <2>1. Total(packEvents) <= Total(packEvents) /\ Total(packObjects) <= Total(packObjects)
    BY <1>4
  <2> QED
    BY <1>2, <1>3, <2>1, SmallerSettles
<1>6. PackTypeOK' /\ CandidatesKnown'
  BY <1>1, <1>2, <1>5 DEF PackTypeOK, CandidatesKnown
<1>7. EventsRight' /\ ObjectsRight'
  BY <1>1, <1>2 DEF EventsRight, ObjectsRight, FirstLoop, SecondLoop
<1>8. LengthRight'
  <2>1. CASE byteLength' > request.maxBytes
    <3>1. byteLength > request.maxBytes
      BY <1>3, <1>5, <2>1
    <3> QED
      BY <1>2, <2>1, <3>1 DEF LengthRight, FirstLoop, SecondLoop
  <2>2. CASE ~(byteLength' > request.maxBytes)
    BY <1>2, <1>3, <1>5, <2>2 DEF LengthRight, FirstLoop, SecondLoop
  <2> QED
    BY <2>1, <2>2
<1> QED
  BY <1>6, <1>7, <1>8 DEF Building

LEMMA ContextStep ==
    ASSUME ContextInv, [ContextNext]_contextVars
    PROVE  ContextInv'
<1>1. [QueriesNext]_queryVars
  BY DEF ContextNext, contextVars
<1>2. ReadersInv /\ ReadersInv'
  BY <1>1, ReadersStep DEF ContextInv
<1>3. rows \subseteq Envelopes
  BY <1>2 DEF ReadersInv, LedgerInv, LedgerTypeOK
<1>4. CASE phase = "none" /\ UNCHANGED packVars
  <2>1. NoPack
    BY <1>4 DEF ContextInv, Building, PackTypeOK
  <2>2. NoPack'
    BY <1>4, <2>1 DEF NoPack, packVars
  <2> QED
    BY <1>2, <2>2 DEF ContextInv
<1>5. CASE Build /\ UNCHANGED queryVars
  <2>1. rows' = rows
    BY <1>5 DEF queryVars, ledgerVars
  <2>2. CASE \E s \in Shapes, b \in MaxBytes : Ask(s.source, s.events, s.objects, b)
    <3>1. PICK s \in Shapes, b \in MaxBytes : Ask(s.source, s.events, s.objects, b)
      BY <2>2
    <3>2. NoPack
      BY <3>1 DEF Ask, ContextInv, Building, PackTypeOK
    <3>3. Building'
      BY <1>2, <1>5, <3>1, <3>2, AskStarts
    <3> QED
      BY <1>2, <3>3 DEF ContextInv
  <2>3. CASE Return
    <3>1. NoPack'
      BY <2>3 DEF Return, NoPack
    <3> QED
      BY <1>2, <3>1 DEF ContextInv
  <2>4. CASE \/ TakeEvent \/ CountEvents \/ TakeObject \/ CountObjects
             \/ Measure \/ TrimEvents \/ TrimObjects \/ Finish
    <3>1. phase # "none"
      BY <2>4 DEF TakeEvent, CountEvents, TakeObject, CountObjects, Measure, TrimEvents, TrimObjects,
                  Finish, TooLong
    <3>2. Building
      BY <3>1 DEF ContextInv, NoPack
    <3>3. Building'
      BY <1>3, <2>1, <2>4, <3>2, TakeEventKeeps, TakeObjectKeeps, CountsKeep, MeasureKeeps,
         TrimKeeps, FinishKeeps
    <3> QED
      BY <1>2, <3>3 DEF ContextInv
  <2> QED
    BY <1>5, <2>2, <2>3, <2>4 DEF Build
<1>6. CASE UNCHANGED contextVars
  <2>1. UNCHANGED packVars /\ UNCHANGED queryVars
    BY <1>6 DEF contextVars
  <2>2. CASE phase = "none"
    BY <1>4, <2>1, <2>2
  <2>3. CASE phase # "none"
    <3>1. /\ phase' = phase /\ request' = request /\ packEvents' = packEvents
          /\ packObjects' = packObjects /\ packTruncated' = packTruncated /\ byteLength' = byteLength
          /\ rows' = rows
      BY <2>1 DEF packVars, queryVars, ledgerVars
    <3>2. Building
      BY <2>3 DEF ContextInv, NoPack
    <3>3. Building'
      BY <3>1, <3>2 DEF Building, PackTypeOK, CandidatesKnown, EventsRight, ObjectsRight, LengthRight
    <3> QED
      BY <1>2, <3>3 DEF ContextInv
  <2> QED
    BY <2>2, <2>3
<1> QED
  BY <1>4, <1>5, <1>6 DEF ContextNext

(* buildContextPack keeps its promise in every behaviour, for every ledger *)
(* and whatever the events, the objects and the metadata measure: the pack *)
(* is no longer than its own byteLength and than maxBytes, shows the first *)
(* of its candidates, and is complete unless it says that it is truncated. *)
THEOREM PacksAreHonest == ContextSpec => []PackIsHonest
<1>1. ContextInit => ContextInv
  BY ReadersInitInv DEF ContextInit, ContextInv
<1>2. ContextInv /\ [ContextNext]_contextVars => ContextInv'
  BY ContextStep
<1>3. ContextInv => PackIsHonest
  <2> SUFFICES ASSUME ContextInv, phase \in {"done", "failed"} PROVE PackIsHonest
    BY DEF PackIsHonest
  <2>1. PackTypeOK /\ CandidatesKnown /\ EventsRight /\ ObjectsRight /\ LengthRight
    BY DEF ContextInv, NoPack, Building
  <2>2. phase \notin FirstLoop /\ phase \notin FirstLoop \cup SecondLoop
    BY DEF FirstLoop, SecondLoop
  <2>3. ASSUME ~packTruncated, request.source = "timeline"
        PROVE  {packEvents[i].of : i \in DOMAIN packEvents} = rows
    <3>1. /\ ShowsAll(packEvents, request.events) /\ ShowsFirst(packEvents, request.events)
          /\ \A r \in rows : \E i \in 1 .. Len(request.events) : request.events[i] = r
          /\ request.events \in Seq(rows) /\ packEvents \in Seq(Items(rows))
      BY <2>1, <2>2, <2>3 DEF CandidatesKnown, EventsRight, PackTypeOK
    <3>2. /\ DOMAIN packEvents = 1 .. Len(request.events)
          /\ \A i \in 1 .. Len(request.events) :
                packEvents[i].of = request.events[i] /\ request.events[i] \in rows
      BY <3>1 DEF ShowsAll, ShowsFirst
    <3> QED
      BY <3>1, <3>2
  <2>4. CASE phase = "done"
    BY <2>1, <2>2, <2>3, <2>4 DEF PackIsHonest, EventsRight, ObjectsRight, LengthRight
  <2>5. CASE phase = "failed"
    BY <2>1, <2>5 DEF PackIsHonest, LengthRight
  <2> QED
    BY <2>4, <2>5
<1> QED
  BY <1>1, <1>2, <1>3, PTL DEF ContextSpec

(* Building a pack changes nothing but the pack: what holds of the readers *)
(* without packs holds beside them.                                        *)
THEOREM PacksOnlyRead == ContextSpec => QueriesSpec
<1>1. ContextInit => QueriesInit
  BY DEF ContextInit
<1>2. [ContextNext]_contextVars => [QueriesNext]_queryVars
  BY DEF ContextNext, contextVars
<1> QED
  BY <1>1, <1>2, PTL DEF ContextSpec, QueriesSpec

----------------------------------------------------------------------------
(* The reconciler.                                                         *)

(* The inductive invariant.  absent holds documents that are not public    *)
(* now; a run has seen none of them; and a completed pass without a gap    *)
(* left only what it had seen, since nothing touches the index between it  *)
(* and the next pass.                                                      *)
ReconcilerInv ==
    /\ absent \cap Public = {}
    /\ seen \cap absent = {}
    /\ status = "complete" => pc = "idle"
    /\ status = "complete" /\ ~gap => indexed \subseteq seen

(* No pass has begun: nothing is seen and no status is complete.           *)
LEMMA ReconcilerInitInv == ReconcilerInit => ReconcilerInv
  BY DEF ReconcilerInit, ReconcilerInv, Public

(* A change of the world takes out of absent what it makes public and      *)
(* leaves the database and the reconciler alone.                           *)
LEMMA WorldStep ==
    ASSUME ReconcilerInv, WorldChanges
    PROVE  ReconcilerInv'
  BY DEF ReconcilerInv, WorldChanges, Public, job, index, memory

(* Every step of the reconciler preserves the invariant.                   *)
LEMMA WorkStep ==
    ASSUME ReconcilerInv, Work
    PROVE  ReconcilerInv'
<1>1. CASE Resume
  BY <1>1 DEF ReconcilerInv, Resume, Public, world, index, history
<1>2. CASE NewRun
  BY <1>2 DEF ReconcilerInv, NewRun, Public, world
<1>3. CASE ListCollections
  BY <1>3 DEF ReconcilerInv, ListCollections, Public, world, job, index, history
<1>4. CASE Seeded
  BY <1>4 DEF ReconcilerInv, Seeded, Public, world, index, history
<1>5. CASE Take
  BY <1>5 DEF ReconcilerInv, Take, Public, world, job, index, history
<1>6. CASE ListPage
  <2>1. pc = "listing" /\ UNCHANGED <<world, job, index, history>>
    BY <1>6 DEF ListPage
  <2> QED
    BY <2>1 DEF ReconcilerInv, Public, world, job, index, history
<1>7. ASSUME NEW s \in Collections, Seed(s) PROVE ReconcilerInv'
  BY <1>7 DEF ReconcilerInv, Seed, Public, world, job, index, memory, history
<1>8. ASSUME NEW d \in Docs, StorePrivate(d) PROVE ReconcilerInv'
  BY <1>8 DEF ReconcilerInv, StorePrivate, Public, world, job, history
<1>9. ASSUME NEW d \in Docs, StorePublic(d) PROVE ReconcilerInv'
  BY <1>9 DEF ReconcilerInv, StorePublic, Public, world, job, history
<1>10. ASSUME NEW d \in Docs, DocumentGone(d) PROVE ReconcilerInv'
  BY <1>10 DEF ReconcilerInv, DocumentGone, SkipDocument, Public, world, job, index, history
<1>11. CASE UpdateTask
  BY <1>11 DEF ReconcilerInv, UpdateTask, Public, world, job, index, history
<1>12. CASE UpdateJob
  BY <1>12 DEF ReconcilerInv, UpdateJob, Public, world, index, history
<1>13. CASE Suspend
  BY <1>13 DEF ReconcilerInv, Suspend, Stopped, Public, world, index, history
<1>14. CASE Complete
  BY <1>14 DEF ReconcilerInv, Complete, Stopped, Kept, Public, world, history
<1>15. CASE ListParentGone
  BY <1>15 DEF ReconcilerInv, ListParentGone, Fail, Stopped, Public, world, index, history
<1> QED
  BY <1>1, <1>2, <1>3, <1>4, <1>5, <1>6, <1>7, <1>8, <1>9, <1>10, <1>11, <1>12,
     <1>13, <1>14, <1>15 DEF Work

(* Whatever changes, fails or crashes, the invariant is inductive.         *)
LEMMA ReconcilerStep == ReconcilerInv /\ [ReconcilerNext]_reconcilerVars => ReconcilerInv'
<1> SUFFICES ASSUME ReconcilerInv, [ReconcilerNext]_reconcilerVars PROVE ReconcilerInv'
  OBVIOUS
<1>1. CASE World
  <2>1. WorldChanges
    BY <1>1 DEF World, Create, Delete, Hide, Reveal
  <2> QED
    BY <2>1, WorldStep
<1>2. CASE Work
  BY <1>2, WorkStep
<1>3. ASSUME NEW d \in Docs, DocumentFails(d) PROVE ReconcilerInv'
  BY <1>3 DEF ReconcilerInv, DocumentFails, SkipDocument, Public, world, job, index, history
<1>4. CASE RequestFails
  BY <1>4 DEF ReconcilerInv, RequestFails, Fail, Stopped, Public, world, index, history
<1>5. CASE Crash
  BY <1>5 DEF ReconcilerInv, Crash, Stopped, Public, world, job, index, history
<1>6. CASE UNCHANGED reconcilerVars
  BY <1>6 DEF ReconcilerInv, reconcilerVars, world, job, index, memory, history, Public
<1> QED
  BY <1>1, <1>2, <1>3, <1>4, <1>5, <1>6 DEF ReconcilerNext

(* The invariant holds in every reachable state.                           *)
THEOREM ReconcilerInvariant == ReconcilerSpec => []ReconcilerInv
  BY ReconcilerInitInv, ReconcilerStep, PTL DEF ReconcilerSpec

(* After a pass that completed without a gap, however often it was         *)
(* interrupted and resumed, no document remains indexed that did not exist *)
(* or was private during the whole of it: the privacy promise of the       *)
(* pruning DELETE in #reconcile.                                           *)
THEOREM CompletedPassLeavesNoGhosts == ReconcilerSpec => []NoGhosts
<1>1. ReconcilerInv => NoGhosts
  BY DEF ReconcilerInv, NoGhosts
<1> QED
  BY <1>1, ReconcilerInvariant, PTL

-----------------------------------------------------------------------------
(* The operators the model is built from.                                  *)

(* Line has the value its recursion describes: the documents in every set  *)
(* that holds d and, with a document, the one that contains it.            *)
LEMMA LineEquation ==
    \A d \in Docs :
        Line[d] = {d} \cup (IF ParentOf[d] \in Docs THEN Line[ParentOf[d]] ELSE {})
<1> DEFINE Closed(S) == \A x \in S : ParentOf[x] \in Docs => ParentOf[x] \in S
           Above(d) == {e \in Docs : \A S \in SUBSET Docs : d \in S /\ Closed(S) => e \in S}
           L == [d \in Docs |-> Above(d)]
<1>1. ASSUME NEW d \in Docs
      PROVE  Above(d) = {d} \cup (IF ParentOf[d] \in Docs THEN Above(ParentOf[d]) ELSE {})
  <2> DEFINE R == {d} \cup (IF ParentOf[d] \in Docs THEN Above(ParentOf[d]) ELSE {})
  <2>1. R \subseteq Above(d)
    OBVIOUS
  <2>2. R \in SUBSET Docs /\ d \in R /\ Closed(R)
    OBVIOUS
  <2>3. Above(d) \subseteq R
    BY <2>2
  <2> QED
    BY <2>1, <2>3
<1> HIDE DEF Above
<1>2. L = [d \in Docs |-> {d} \cup (IF ParentOf[d] \in Docs THEN L[ParentOf[d]] ELSE {})]
  BY <1>1
<1> HIDE DEF L
<1>3. \E M : M = [d \in Docs |-> {d} \cup (IF ParentOf[d] \in Docs THEN M[ParentOf[d]] ELSE {})]
  BY <1>2
<1>4. Line = [d \in Docs |-> {d} \cup (IF ParentOf[d] \in Docs THEN Line[ParentOf[d]] ELSE {})]
  BY <1>3 DEF Line
<1> QED
  BY <1>4

(* A visible document is public, and so is the document that contains it.  *)
LEMMA VisibleParent ==
    ASSUME NEW d \in Visible
    PROVE  d \in Public /\ (ParentOf[d] \in Docs => ParentOf[d] \in Visible)
  BY LineEquation DEF Visible

LEMMA VisibleParentNext ==
    ASSUME NEW d \in Visible'
    PROVE  ParentOf[d] \in Docs => ParentOf[d] \in Visible'
  BY LineEquation DEF Visible

(* The documents are finitely many, and counting those up to a rank says   *)
(* which comes later.                                                      *)
LEMMA DocsFinite == \A S \in SUBSET Docs : IsFiniteSet(S) /\ Cardinality(S) \in Nat
<1>1. IsFiniteSet(Docs)
  BY SourcesAssumption, FS_Subset DEF Sources
<1> QED
  BY <1>1, FS_Subset, FS_CardinalityType

(* The depth of a task is a number.                                        *)
LEMMA DepthIsNatural == \A s \in Sources : DepthOf(s) \in Nat
<1> DEFINE Strange == {d \in Docs : ~(Line[d] \subseteq Docs)}
<1>1. Strange = {}
  <2>1. SUFFICES ASSUME Strange # {} PROVE FALSE
    OBVIOUS
  <2>2. PICK d \in Strange : ParentOf[d] \notin Strange
    BY <2>1, ContainmentAssumption
  <2>3. Line[d] \subseteq Docs
    BY <2>2, LineEquation
  <2> QED
    BY <2>2, <2>3
<1>2. \A d \in Docs : Line[d] \in SUBSET Docs
  BY <1>1
<1> QED
  BY <1>2, DocsFinite DEF DepthOf

UpTo(L, d) == {e \in L : Rank[e] <= Rank[d]}

LEMMA LaterCountsMore ==
    ASSUME NEW L \in SUBSET Docs, NEW d \in L, NEW e \in L
    PROVE  /\ Rank[d] <= Rank[e] => Cardinality(UpTo(L, d)) <= Cardinality(UpTo(L, e))
           /\ Rank[d] < Rank[e] => Cardinality(UpTo(L, d)) < Cardinality(UpTo(L, e))
<1>0. Rank[d] \in Nat /\ Rank[e] \in Nat /\ \A x \in L : Rank[x] \in Nat
  BY SourcesAssumption
<1>1. UpTo(L, d) \in SUBSET L /\ UpTo(L, e) \in SUBSET L
  BY DEF UpTo
<1>2. IsFiniteSet(UpTo(L, d)) /\ IsFiniteSet(UpTo(L, e))
      /\ Cardinality(UpTo(L, d)) \in Nat /\ Cardinality(UpTo(L, e)) \in Nat
  BY <1>1, DocsFinite
<1>3. ASSUME Rank[d] <= Rank[e] PROVE UpTo(L, d) \in SUBSET UpTo(L, e)
  BY <1>0, <1>3 DEF UpTo
<1>4. Rank[d] < Rank[e] => e \in UpTo(L, e) \ UpTo(L, d)
  BY <1>0 DEF UpTo
<1>5. Rank[d] <= Rank[e] => /\ Cardinality(UpTo(L, d)) <= Cardinality(UpTo(L, e))
                            /\ Cardinality(UpTo(L, d)) = Cardinality(UpTo(L, e))
                                 => UpTo(L, d) = UpTo(L, e)
  BY <1>2, <1>3, FS_Subset
<1> QED
  BY <1>0, <1>2, <1>4, <1>5

(* A set of documents that is not empty has a first and a last one.        *)
LEMMA HasFirst ==
    ASSUME NEW S \in SUBSET Docs, S # {}
    PROVE  \E d \in S : \A e \in S : Rank[d] <= Rank[e]
<1> DEFINE N == {Rank[d] : d \in S}
<1>1. N \subseteq Nat /\ N # {}
  BY SourcesAssumption
<1>2. PICK n \in N : \A m \in N : n <= m
  BY <1>1, LeastNatural
<1> QED
  BY <1>2

LEMMA HasLast ==
    ASSUME NEW S \in SUBSET Docs, S # {}
    PROVE  \E d \in S : \A e \in S : Rank[e] <= Rank[d]
<1>1. IsFiniteSet(S) /\ Cardinality(S) \in Nat
  BY DocsFinite
<1>2. \A d \in S : Cardinality(UpTo(S, d)) \in Nat /\ Cardinality(UpTo(S, d)) <= Cardinality(S)
  BY <1>1, FS_Subset, DocsFinite DEF UpTo
<1> DEFINE Missing(d) == Cardinality(S) - Cardinality(UpTo(S, d))
           N == {Missing(d) : d \in S}
<1>3. N \subseteq Nat /\ N # {}
  BY <1>1, <1>2
<1>4. PICK n \in N : \A m \in N : n <= m
  BY <1>3, LeastNatural
<1>5. PICK d \in S : \A e \in S : Missing(d) <= Missing(e)
  BY <1>4
<1>6. ASSUME NEW e \in S PROVE Cardinality(UpTo(S, e)) <= Cardinality(UpTo(S, d))
  <2>1. Missing(d) <= Missing(e)
    BY <1>5
  <2> QED
    BY <1>1, <1>2, <2>1
<1>7. ASSUME NEW e \in S PROVE Rank[e] <= Rank[d]
  <2>1. Rank[d] < Rank[e] => Cardinality(UpTo(S, d)) < Cardinality(UpTo(S, e))
    BY LaterCountsMore
  <2> QED
    BY <1>2, <1>6, <2>1, SourcesAssumption
<1> QED
  BY <1>7

(* The rank after which the next page begins.                              *)
LEMMA LastRankHolds ==
    ASSUME NEW S \in SUBSET Docs, S # {}
    PROVE  /\ LastRank(S) \in Nat \ {0}
           /\ \A d \in S : Rank[d] <= LastRank(S)
           /\ \E d \in S : LastRank(S) = Rank[d]
<1> DEFINE N == {Rank[d] : d \in S}
<1>1. \E r \in N : \A d \in S : Rank[d] <= r
  BY HasLast
<1>2. LastRank(S) \in N /\ \A d \in S : Rank[d] <= LastRank(S)
  BY <1>1 DEF LastRank
<1> QED
  BY <1>2, SourcesAssumption

(* A page has at most its limit; it is empty only when nothing is left;    *)
(* and whatever is left comes after everything on it.                      *)
LEMMA PageHolds ==
    ASSUME NEW L \in SUBSET Docs, NEW n \in Nat \ {0}
    PROVE  /\ FirstOf(L, n) \in SUBSET L
           /\ Cardinality(FirstOf(L, n)) <= n
           /\ FirstOf(L, n) = {} => L = {}
           /\ \A d \in L \ FirstOf(L, n) : \A e \in FirstOf(L, n) : Rank[e] < Rank[d]
<1> DEFINE F == FirstOf(L, n)
<1>1. F \in SUBSET L /\ F = {d \in L : Cardinality(UpTo(L, d)) <= n}
  BY DEF FirstOf, UpTo
<1>2. \A d \in L : Cardinality(UpTo(L, d)) \in Nat /\ IsFiniteSet(UpTo(L, d)) /\ Rank[d] \in Nat
  BY DocsFinite, SourcesAssumption DEF UpTo
<1>3. Cardinality(F) <= n
  <2>1. CASE F = {}
    BY <2>1, FS_EmptySet
  <2>2. CASE F # {}
    <3>1. PICK d \in F : \A e \in F : Rank[e] <= Rank[d]
      BY <2>2, <1>1, HasLast
    <3>2. F \in SUBSET UpTo(L, d)
      BY <1>1, <3>1 DEF UpTo
    <3>3. Cardinality(UpTo(L, d)) <= n
      BY <1>1
    <3> QED
      BY <1>1, <1>2, <3>2, <3>3, FS_Subset, DocsFinite
  <2> QED
    BY <2>1, <2>2
<1>4. ASSUME L # {} PROVE F # {}
  <2>1. PICK d \in L : \A e \in L : Rank[d] <= Rank[e]
    BY <1>4, HasFirst
  <2>2. UpTo(L, d) = {d}
    BY <2>1, SourcesAssumption DEF UpTo
  <2> QED
    BY <1>1, <2>2, FS_Singleton
<1>5. ASSUME NEW d \in L \ F, NEW e \in F PROVE Rank[e] < Rank[d]
  <2>1. Rank[d] <= Rank[e] => Cardinality(UpTo(L, d)) <= Cardinality(UpTo(L, e))
    BY <1>1, LaterCountsMore
  <2> QED
    BY <1>1, <1>2, <2>1
<1> QED
  BY <1>1, <1>3, <1>4, <1>5

-----------------------------------------------------------------------------
(* The invariant of a pass.                                                *)

(* Where the reconciler is, and what the database then holds.  A run that  *)
(* waits for its next invocation is "running" only after a kill; a cursor  *)
(* or a completed task is of this run; what contains a steady document is  *)
(* steady; and since a steady document is public at every moment, it is    *)
(* queued only together with being seen.                                   *)
Consistent ==
    /\ pc # "idle" => status = "running"
    /\ pc = "idle" /\ crashes = 0 => status # "running"
    /\ status = "never" => queued = {}
    /\ status = "failed" => gap
    /\ pc \in {"listing", "documents"} => task \in Open
    /\ pc = "listing" => remaining > 0
    /\ truncated => pc \in {"documents", "flags"}
    /\ page # {} => pc = "documents"
    /\ pc \in {"collections", "seeding"} => done = {} /\ seen = {}
    /\ \A s \in Sources : cursor[s] # 0 => s \in queued
    /\ pc \in {"collections", "seeding"} => \A s \in Sources : cursor[s] = 0
    /\ steady \subseteq Visible /\ seen \subseteq indexed
    /\ \A d \in steady : ParentOf[d] \in Docs => ParentOf[d] \in steady
    /\ steady \cap queued \subseteq seen

(* The traversal still comes to d: it is on the page in work, or after the *)
(* cursor its parent's task has, or is about to get.                       *)
Ahead(d) ==
    /\ ParentOf[d] \in Open
    /\ IF pc = "documents" /\ ParentOf[d] = task
       THEN d \in page \/ (next # 0 /\ Rank[d] > next)
       ELSE Rank[d] > cursor[ParentOf[d]]

(* Nothing is overlooked: d has been seen and has a task for its children, *)
(* or the traversal comes to it, or first to the document that contains it. *)
Accounted(d) ==
    \/ d \in seen /\ d \in queued
    \/ ParentOf[d] \in Docs \ seen
    \/ Ahead(d)

Whole == crashes = 0 /\ ~gap /\ ~truncated
Traversing == \/ pc \in {"loop", "listing", "documents", "flags"}
              \/ pc = "idle" /\ status = "incomplete"

NothingOverlooked ==
    Whole /\ Traversing =>
        Collections \subseteq queued /\ \A d \in steady : Accounted(d)

PassInv == ReconcilerTypeOK /\ Consistent /\ NothingOverlooked /\ CompleteIsCurrent

(* When the limit of tasks is reached at a page of embedded documents, the *)
(* code neither queues their children nor counts the pass as truncated.    *)
(* What is said of a pass below holds as long as that does not happen.     *)
RoomForChildren ==
    pc = "documents" /\ task \in Docs /\ DepthOf(task) < MaxDepth =>
        HasRoom \/ page \subseteq queued

(* The invariant holds before the first pass.                              *)
LEMMA PassInitInv == ReconcilerInit => PassInv
<1> SUFFICES ASSUME ReconcilerInit PROVE PassInv
  OBVIOUS
<1>0. Budget \in Nat /\ MaxTasks \in Nat /\ MaxChanges \in Nat /\ MaxFaults \in Nat
      /\ MaxCrashes \in Nat
  BY BoundsAssumption
<1>1. ReconcilerTypeOK
  <2>1. live \subseteq Docs /\ hidden \subseteq Docs
    BY DEF ReconcilerInit
  <2>2. queued = {} /\ done = {} /\ Cardinality({}) = 0 /\ cursor \in [Sources -> Nat]
    BY FS_EmptySet DEF ReconcilerInit
  <2>3. /\ status = "never" /\ gap = FALSE /\ indexed = {} /\ seen = {} /\ steady = {}
        /\ pc = "idle" /\ task = None /\ page = {} /\ next = 0 /\ absent = {}
        /\ truncated = FALSE /\ remaining = 0 /\ changes = 0 /\ faults = 0 /\ crashes = 0
    BY DEF ReconcilerInit
  <2>4. 0 \in 0 .. Budget /\ 0 \in 0 .. MaxChanges /\ 0 \in 0 .. MaxFaults /\ 0 \in 0 .. MaxCrashes
    BY <1>0
  <2>5. 0 \in Nat /\ FALSE \in BOOLEAN /\ 0 <= MaxTasks
    BY <1>0
  <2> QED
    BY <2>1, <2>2, <2>3, <2>4, <2>5, Zenon DEF ReconcilerTypeOK
<1>2. Consistent
  BY DEF ReconcilerInit, Consistent
<1> QED
  BY <1>1, <1>2 DEF ReconcilerInit, PassInv, NothingOverlooked, Traversing, CompleteIsCurrent

(* What a page of the task in work looks like when it comes.               *)
LEMMA PageComes ==
    ASSUME ReconcilerTypeOK, Consistent, ListPage
    PROVE  /\ page' \subseteq Listed(task) /\ task \in Open
           /\ next' \in Nat /\ remaining' \in 0 .. Budget
           /\ \A d \in Listed(task) : d \in page' \/ (next' # 0 /\ Rank[d] > next')
<1> DEFINE all == Listed(task)
           limit == IF PageSize < remaining THEN PageSize ELSE remaining
           items == FirstOf(all, limit)
<1>1. /\ pc = "listing" /\ page' = items /\ next' = (IF items = all THEN 0 ELSE LastRank(items))
      /\ remaining' = remaining - Cardinality(items)
  BY DEF ListPage
<1>2. task \in Open /\ remaining > 0 /\ remaining \in 0 .. Budget /\ Budget \in Nat
  BY <1>1, BoundsAssumption DEF ReconcilerTypeOK, Consistent
<1>3. limit \in Nat \ {0} /\ limit <= remaining
  BY <1>2, BoundsAssumption
<1>4. all \in SUBSET Docs
  BY DEF Listed, ReconcilerTypeOK
<1> HIDE DEF limit, all
<1>5. /\ items \in SUBSET all /\ Cardinality(items) <= limit /\ (items = {} => all = {})
      /\ \A d \in all \ items : \A e \in items : Rank[e] < Rank[d]
  BY <1>3, <1>4, PageHolds
<1> HIDE DEF items
<1>6. Cardinality(items) \in Nat /\ items \in SUBSET Docs
  BY <1>4, <1>5, DocsFinite
<1>7. remaining' \in 0 .. Budget
  BY <1>1, <1>2, <1>3, <1>5, <1>6
<1>8. items # {} => LastRank(items) \in Nat \ {0} /\ \E e \in items : LastRank(items) = Rank[e]
  BY <1>6, LastRankHolds
<1>9. next' \in Nat
  BY <1>1, <1>5, <1>8
<1>10. ASSUME NEW d \in all PROVE d \in items \/ (next' # 0 /\ Rank[d] > next')
  <2>1. CASE d \in items
    BY <2>1
  <2>2. CASE d \notin items
    <3>1. items # all /\ items # {}
      BY <1>5, <2>2
    <3>2. PICK e \in items : LastRank(items) = Rank[e]
      BY <1>8, <3>1
    <3>3. Rank[e] < Rank[d] /\ next' = Rank[e] /\ Rank[e] \in Nat \ {0} /\ Rank[d] \in Nat
      BY <1>1, <1>4, <1>5, <1>6, <2>2, <3>1, <3>2, SourcesAssumption
    <3> QED
      BY <3>3
  <2> QED
    BY <2>1, <2>2
<1> QED
  BY <1>1, <1>2, <1>5, <1>7, <1>9, <1>10 DEF all

(* A task is added only below the limit.                                   *)
LEMMA RoomForOne ==
    ASSUME queued \in SUBSET Sources, NEW s \in Sources, HasRoom
    PROVE  Cardinality(queued \cup {s}) <= MaxTasks
<1>1. IsFiniteSet(queued) /\ Cardinality(queued) \in Nat /\ MaxTasks \in Nat
  BY SourcesAssumption, BoundsAssumption, FS_Subset, FS_CardinalityType
<1>2. Cardinality(queued \cup {s}) =
        IF s \in queued THEN Cardinality(queued) ELSE Cardinality(queued) + 1
  BY <1>1, FS_AddElement
<1> QED
  BY <1>1, <1>2 DEF HasRoom

(* A change of the world keeps the types.                                  *)
LEMMA TypeUnderWorld ==
    ASSUME ReconcilerTypeOK, World
    PROVE  ReconcilerTypeOK'
<1>1. WorldChanges /\ live' \subseteq Docs /\ hidden' \subseteq Docs
  BY DEF World, Create, Delete, Hide, Reveal, ReconcilerTypeOK, Public
<1>2. /\ UNCHANGED <<status, gap, queued, done, cursor, indexed, seen>>
      /\ UNCHANGED <<pc, task, page, next, truncated, remaining, faults, crashes>>
      /\ changes < MaxChanges /\ changes' = changes + 1
      /\ steady' \subseteq steady /\ absent' \subseteq absent
  BY <1>1 DEF WorldChanges, job, tasks, index, memory
<1>3. changes' \in 0 .. MaxChanges
  BY <1>2, BoundsAssumption DEF ReconcilerTypeOK
<1> QED
  BY <1>1, <1>2, <1>3 DEF ReconcilerTypeOK

Idling == /\ pc' = "idle" /\ task' = None /\ page' = {} /\ next' \in Nat
          /\ truncated' \in BOOLEAN /\ remaining' \in 0 .. Budget

LEMMA StoppedIdles == Stopped => Idling
<1>1. Budget \in Nat
  BY BoundsAssumption
<1>2. 0 \in 0 .. Budget /\ 0 \in Nat /\ FALSE \in BOOLEAN
  BY <1>1
<1> QED
  BY <1>2, Zenon DEF Stopped, Idling

(* Every other step keeps them.                                            *)
LEMMA TypeUnderWork ==
    ASSUME ReconcilerTypeOK, Consistent,
           Work \/ (\E d \in Docs : DocumentFails(d)) \/ RequestFails \/ Crash
    PROVE  ReconcilerTypeOK'
<1>0. /\ Budget \in Nat /\ MaxFaults \in Nat /\ MaxCrashes \in Nat /\ MaxTasks \in Nat
      /\ remaining \in Nat /\ None \notin Sources
  BY BoundsAssumption, SourcesAssumption DEF ReconcilerTypeOK
<1>1. CASE Resume
  BY <1>0, <1>1 DEF ReconcilerTypeOK, Resume, world, tasks, index, history
<1>2. CASE NewRun
  <2>1. Visible \subseteq Docs /\ [s \in Sources |-> 0] \in [Sources -> Nat]
        /\ Cardinality({}) = 0
    BY FS_EmptySet DEF Visible
  <2>2. /\ queued' = {} /\ done' = {} /\ cursor' = [s \in Sources |-> 0] /\ seen' = {}
        /\ status' = "running" /\ gap' = FALSE /\ pc = "idle" /\ pc' = "collections"
        /\ remaining' = Budget /\ steady' = Visible /\ absent' = Docs \ Public
        /\ UNCHANGED <<live, hidden, changes, indexed, task, page, next, truncated, faults, crashes>>
    BY <1>2 DEF NewRun, world
  <2>3. Budget \in 0 .. Budget /\ 0 <= MaxTasks
    BY <1>0
  <2> QED
    BY <2>1, <2>2, <2>3 DEF ReconcilerTypeOK
<1>3. CASE ListCollections
  BY <1>3 DEF ReconcilerTypeOK, ListCollections, world, job, tasks, index, history
<1>4. CASE Seeded
  BY <1>4 DEF ReconcilerTypeOK, Seeded, world, tasks, index, history
<1>5. CASE Take
  <2>1. task' \in Sources /\ task = None /\ page = {}
    BY <1>0, <1>5 DEF Take, NextTask, Open, ReconcilerTypeOK, Consistent
  <2> QED
    BY <1>0, <1>5, <2>1 DEF ReconcilerTypeOK, Take, world, job, tasks, index, history
<1>6. CASE ListPage
  <2>1. page' \subseteq Listed(task) /\ next' \in Nat /\ remaining' \in 0 .. Budget
    BY <1>6, PageComes
  <2>2. page' \subseteq {d \in Docs : ParentOf[d] = task}
    BY <2>1 DEF Listed, ReconcilerTypeOK
  <2>3. pc = "listing" /\ pc' = "documents" /\ UNCHANGED <<world, job, tasks, index, task,
            truncated, faults, crashes, history>>
    BY <1>6 DEF ListPage
  <2> QED
    BY <2>1, <2>2, <2>3 DEF ReconcilerTypeOK, world, job, tasks, index, history
<1>7. ASSUME NEW s \in Collections, Seed(s) PROVE ReconcilerTypeOK'
  <2>1. s \in Sources /\ HasRoom /\ queued \in SUBSET Sources /\ queued' = queued \cup {s}
    BY <1>7 DEF Seed, Sources, ReconcilerTypeOK
  <2>2. Cardinality(queued') <= MaxTasks
    BY <2>1, RoomForOne
  <2>3. UNCHANGED <<world, job, done, cursor, index, memory, faults, crashes, history>>
    BY <1>7 DEF Seed
  <2> QED
    BY <2>1, <2>2, <2>3 DEF ReconcilerTypeOK, world, job, index, memory, history
<1>8. ASSUME NEW d \in Docs, StorePrivate(d) PROVE ReconcilerTypeOK'
  BY <1>8 DEF ReconcilerTypeOK, StorePrivate, world, job, tasks, history
<1>9. ASSUME NEW d \in Docs, StorePublic(d) PROVE ReconcilerTypeOK'
  <2>1. queued' \subseteq Sources /\ queued \subseteq queued' /\ Cardinality(queued') <= MaxTasks
    <3>1. d \in Sources /\ queued \in SUBSET Sources
      BY DEF Sources, ReconcilerTypeOK
    <3>2. CASE Traversed(d)
      BY <1>9, <3>1, <3>2, RoomForOne DEF StorePublic, Traversed
    <3>3. CASE ~Traversed(d)
      BY <1>9, <3>1, <3>3 DEF StorePublic, ReconcilerTypeOK
    <3> QED
      BY <3>2, <3>3
  <2>2. (truncated \/ CutShort(d)) \in BOOLEAN
    OBVIOUS
  <2>3. /\ UNCHANGED <<world, job, done, cursor, pc, task, next, remaining,
                       faults, crashes, history>>
        /\ indexed' = indexed \cup {d} /\ seen' = seen \cup {d} /\ page' = page \ {d}
        /\ truncated' = (truncated \/ CutShort(d))
    BY <1>9 DEF StorePublic
  <2> HIDE DEF CutShort
  <2> QED
    BY <2>1, <2>2, <2>3 DEF ReconcilerTypeOK, world, job, history
<1>10. ASSUME NEW d \in Docs, SkipDocument(d), faults' \in 0 .. MaxFaults PROVE ReconcilerTypeOK'
  BY <1>10 DEF ReconcilerTypeOK, SkipDocument, world, job, tasks, index, history
<1>11. ASSUME NEW d \in Docs, DocumentGone(d) PROVE ReconcilerTypeOK'
  BY <1>10, <1>11 DEF ReconcilerTypeOK, DocumentGone
<1>12. ASSUME NEW d \in Docs, DocumentFails(d) PROVE ReconcilerTypeOK'
  BY <1>0, <1>10, <1>12 DEF ReconcilerTypeOK, DocumentFails
<1>13. CASE UpdateTask
  <2>1. /\ done' = (IF next = 0 THEN done \cup {task} ELSE done)
        /\ cursor' = [cursor EXCEPT ![task] = next] /\ pc = "documents" /\ pc' = "flags"
        /\ UNCHANGED <<world, job, queued, index, task, page, next, truncated, remaining,
                       faults, crashes, history>>
    BY <1>13 DEF UpdateTask
  <2>2. task \in queued
    BY <2>1 DEF Consistent, Open
  <2>3. cursor' \in [Sources -> Nat] /\ done' \subseteq queued
    BY <2>1, <2>2 DEF ReconcilerTypeOK
  <2> QED
    BY <2>1, <2>3 DEF ReconcilerTypeOK, world, job, index, history
<1>14. CASE UpdateJob
  <2>1. page = {}
    BY <1>14 DEF UpdateJob, Consistent
  <2> QED
    BY <1>0, <1>14, <2>1 DEF ReconcilerTypeOK, UpdateJob, world, tasks, index, history
<1>15. CASE Suspend
  <2>1. Idling
    BY <1>15, StoppedIdles DEF Suspend
  <2> QED
    BY <1>0, <1>15, <2>1 DEF ReconcilerTypeOK, Idling, Suspend, world, tasks, index, history
<1>16. CASE Complete
  <2>1. Idling
    BY <1>16, StoppedIdles DEF Complete
  <2>2. Kept \subseteq indexed
    BY DEF Kept
  <2>3. [s \in Sources |-> 0] \in [Sources -> Nat] /\ Cardinality({}) = 0
    BY FS_EmptySet
  <2> QED
    BY <1>0, <1>16, <2>1, <2>2, <2>3 DEF ReconcilerTypeOK, Idling, Complete, world, history
<1>17. ASSUME Fail, faults' \in 0 .. MaxFaults PROVE ReconcilerTypeOK'
  <2>1. Idling
    BY <1>17, StoppedIdles DEF Fail
  <2> QED
    BY <1>0, <1>17, <2>1 DEF ReconcilerTypeOK, Idling, Fail, world, tasks, index, history
<1>18. CASE ListParentGone
  BY <1>17, <1>18 DEF ReconcilerTypeOK, ListParentGone
<1>19. CASE RequestFails
  BY <1>0, <1>17, <1>19 DEF ReconcilerTypeOK, RequestFails
<1>20. CASE Crash
  <2>1. Idling
    BY <1>20, StoppedIdles DEF Crash
  <2> QED
    BY <1>0, <1>20, <2>1 DEF ReconcilerTypeOK, Idling, Crash, world, job, tasks, index, history
<1> QED
  BY <1>1, <1>2, <1>3, <1>4, <1>5, <1>6, <1>7, <1>8, <1>9, <1>11, <1>12, <1>13, <1>14,
     <1>15, <1>16, <1>18, <1>19, <1>20 DEF Work

-----------------------------------------------------------------------------
(* A change of the world leaves the traversal alone and only takes away    *)
(* from what is steady.                                                    *)
LEMMA PassUnderWorld ==
    ASSUME PassInv, WorldChanges, ReconcilerTypeOK'
    PROVE  PassInv'
<1>1. /\ UNCHANGED <<status, gap, queued, done, cursor, indexed, seen>>
      /\ UNCHANGED <<pc, task, page, next, truncated, remaining, faults, crashes>>
      /\ steady' \subseteq steady /\ steady' \subseteq Visible'
  BY DEF WorldChanges, job, tasks, index, memory
<1>2. Consistent'
  <2>1. steady' = steady \cap Visible'
    BY DEF WorldChanges
  <2>2. \A d \in steady' : ParentOf[d] \in Docs => ParentOf[d] \in steady'
    BY <2>1, VisibleParentNext DEF PassInv, Consistent
  <2> QED
    BY <1>1, <2>2 DEF PassInv, Consistent, Open
<1>3. \A d \in Docs : Accounted(d) => Accounted(d)'
  BY <1>1 DEF Accounted, Ahead, Open
<1>4. NothingOverlooked'
  <2>1. Whole' => Whole
    BY <1>1 DEF Whole
  <2>2. Traversing' => Traversing
    BY <1>1 DEF Traversing
  <2>3. steady' \subseteq steady /\ steady \subseteq Docs /\ UNCHANGED queued
    BY <1>1 DEF PassInv, ReconcilerTypeOK
  <2> QED
    BY <1>3, <2>1, <2>2, <2>3 DEF PassInv, NothingOverlooked
<1>5. CompleteIsCurrent'
  BY <1>1 DEF PassInv, CompleteIsCurrent
<1> QED
  BY <1>2, <1>4, <1>5 DEF PassInv

(* Visible depends on the world only.                                      *)
LEMMA SameWorld == UNCHANGED world => Visible' = Visible /\ Public' = Public
  BY DEF world, Visible, Public

(* A document that can be stored as private is not steady.                 *)
LEMMA SteadyIsPublic ==
    ASSUME Consistent, NEW d \in steady
    PROVE  d \in live /\ d \notin hidden /\ (ParentOf[d] \in Docs => ParentOf[d] \in Visible)
  BY VisibleParent DEF Consistent, Public

LEMMA ConsistentUnderWork ==
    ASSUME ReconcilerTypeOK, Consistent,
           Work \/ (\E d \in Docs : DocumentFails(d)) \/ RequestFails \/ Crash
    PROVE  Consistent'
<1>1. CASE Resume
  BY <1>1, SameWorld DEF Consistent, Resume, Resumable, Open, tasks, index, history
<1>2. CASE NewRun
  <2>1. \A s \in Sources : cursor'[s] = 0
    BY <1>2 DEF NewRun
  <2>2. page = {} /\ ~truncated
    BY <1>2 DEF NewRun, Consistent
  <2>3. \A d \in steady' : ParentOf[d] \in Docs => ParentOf[d] \in steady'
    BY <1>2, VisibleParent DEF NewRun
  <2> QED
    BY <1>2, <2>1, <2>2, <2>3, SameWorld DEF Consistent, NewRun, Open
<1>3. CASE ListCollections
  BY <1>3, SameWorld DEF Consistent, ListCollections, Open, job, tasks, index, history
<1>4. CASE Seeded
  BY <1>4, SameWorld DEF Consistent, Seeded, Open, tasks, index, history
<1>5. CASE Take
  <2>1. task' \in Open
    BY <1>5 DEF Take, NextTask
  <2> QED
    BY <1>5, <2>1, SameWorld DEF Consistent, Take, Open, job, tasks, index, history
<1>6. CASE ListPage
  <2>1. pc = "listing" /\ pc' = "documents" /\ UNCHANGED <<world, job, tasks, index, task,
            truncated, faults, crashes, history>>
    BY <1>6 DEF ListPage
  <2> QED
    BY <2>1, SameWorld DEF Consistent, Open, job, tasks, index, history
<1>7. ASSUME NEW s \in Collections, Seed(s) PROVE Consistent'
  <2>1. Collections \cap Docs = {} /\ steady \subseteq Docs
    BY SourcesAssumption DEF ReconcilerTypeOK
  <2>2. steady \cap queued' \subseteq seen
    BY <1>7, <2>1 DEF Seed, Consistent
  <2>3. status # "never"
    BY <1>7 DEF Seed, Consistent
  <2> HIDE DEF Collections
  <2> QED
    BY <1>7, <2>2, <2>3, SameWorld DEF Consistent, Seed, Open, job, index, memory, history
<1>8. ASSUME NEW d \in Docs, StorePrivate(d) PROVE Consistent'
  <2>1. d \notin steady
    BY <1>8, SteadyIsPublic DEF StorePrivate
  <2>2. steady \cap queued' \subseteq seen'
    BY <1>8, <2>1 DEF StorePrivate, Consistent, tasks, history
  <2> QED
    BY <1>8, <2>2, SameWorld DEF Consistent, StorePrivate, Open, job, tasks, history
<1>9. ASSUME NEW d \in Docs, StorePublic(d) PROVE Consistent'
  <2>1. /\ UNCHANGED <<world, status, gap, done, cursor, pc, task, next, remaining,
                       faults, crashes, steady, absent>>
        /\ indexed' = indexed \cup {d} /\ seen' = seen \cup {d} /\ page' = page \ {d}
        /\ queued \subseteq queued' /\ queued' \subseteq queued \cup {d} /\ pc = "documents"
    BY <1>9 DEF StorePublic, job, history
  <2> QED
    BY <2>1, SameWorld DEF Consistent, Open
<1>10. ASSUME NEW d \in Docs, SkipDocument(d), pc = "documents" PROVE Consistent'
  BY <1>10, SameWorld DEF Consistent, SkipDocument, Open, job, tasks, index, history
<1>11. ASSUME NEW d \in Docs, DocumentGone(d) PROVE Consistent'
  BY <1>10, <1>11 DEF DocumentGone
<1>12. ASSUME NEW d \in Docs, DocumentFails(d) PROVE Consistent'
  BY <1>10, <1>12 DEF DocumentFails
<1>13. CASE UpdateTask
  <2>1. task \in queued /\ task \in Sources
    BY <1>13 DEF UpdateTask, Consistent, Open, ReconcilerTypeOK
  <2>2. \A s \in Sources : cursor'[s] # 0 => s \in queued
    BY <1>13, <2>1 DEF UpdateTask, Consistent, ReconcilerTypeOK
  <2> QED
    BY <1>13, <2>2, SameWorld DEF Consistent, UpdateTask, job, index, history
<1>14. CASE UpdateJob
  BY <1>14, SameWorld DEF Consistent, UpdateJob, Open, tasks, index, history
<1>15. CASE Suspend
  BY <1>15, SameWorld DEF Consistent, Suspend, Stopped, Open, tasks, index, history
<1>16. CASE Complete
  <2>1. seen \subseteq Kept
    BY DEF Kept, Consistent
  <2>2. \A s \in Sources : cursor'[s] = 0
    BY <1>16 DEF Complete
  <2> QED
    BY <1>16, <2>1, <2>2, SameWorld DEF Consistent, Complete, Stopped, Open, history
<1>17. ASSUME Fail, pc # "idle" PROVE Consistent'
  BY <1>17, SameWorld DEF Consistent, Fail, Stopped, Open, tasks, index, history
<1>18. CASE ListParentGone
  BY <1>17, <1>18 DEF ListParentGone
<1>19. CASE RequestFails
  BY <1>17, <1>19 DEF RequestFails
<1>20. CASE Crash
  <2>1. crashes' # 0
    BY <1>20, BoundsAssumption DEF Crash, ReconcilerTypeOK
  <2> QED
    BY <1>20, <2>1, SameWorld DEF Consistent, Crash, Stopped, Open, job, tasks, index, history
<1> QED
  BY <1>1, <1>2, <1>3, <1>4, <1>5, <1>6, <1>7, <1>8, <1>9, <1>11, <1>12, <1>13, <1>14,
     <1>15, <1>16, <1>18, <1>19, <1>20 DEF Work

-----------------------------------------------------------------------------
(* A whole pass that has worked off its tasks has seen every steady        *)
(* document: among those it had not, there would be one whose parent is    *)
(* not, and the task of that parent has come to it.                        *)
LEMMA EverythingSeen ==
    ASSUME PassInv, Whole, Traversing, Open = {}
    PROVE  steady \subseteq seen
<1> DEFINE Missed == steady \ seen
<1>1. SUFFICES ASSUME Missed # {} PROVE FALSE
  OBVIOUS
<1>2. Missed \in SUBSET Docs
  BY DEF PassInv, ReconcilerTypeOK
<1>3. PICK d \in Missed : ParentOf[d] \notin Missed
  BY <1>1, <1>2, ContainmentAssumption
<1>4. Accounted(d) /\ d \in steady
  BY <1>3 DEF PassInv, NothingOverlooked
<1>5. ParentOf[d] \in Docs \ seen
  BY <1>4 DEF Accounted, Ahead
<1> QED
  BY <1>3, <1>4, <1>5 DEF PassInv, Consistent

(* Where nothing changes that the traversal goes by, documents stay        *)
(* accounted for.                                                          *)
LEMMA StillAccounted ==
    ASSUME UNCHANGED <<queued, done, cursor, seen>>,
           pc # "documents", pc' # "documents", NEW d, Accounted(d)
    PROVE  Accounted(d)'
  BY DEF Accounted, Ahead, Open

(* No step of the reconciler overlooks a document.                         *)
LEMMA NothingOverlookedStep ==
    ASSUME PassInv, RoomForChildren,
           Work \/ (\E d \in Docs : DocumentFails(d)) \/ RequestFails \/ Crash
    PROVE  NothingOverlooked'
<1> SUFFICES ASSUME Whole', Traversing'
             PROVE  Collections \subseteq queued' /\ \A d \in steady' : Accounted(d)'
  BY DEF NothingOverlooked
<1>0. /\ ReconcilerTypeOK /\ Consistent
      /\ Whole /\ Traversing => Collections \subseteq queued /\ \A d \in steady : Accounted(d)
  BY DEF PassInv, NothingOverlooked
<1> DEFINE Goal == Collections \subseteq queued' /\ \A d \in steady' : Accounted(d)'
<1>a. ASSUME Whole, Traversing, UNCHANGED <<queued, done, cursor, seen, steady>>,
             pc # "documents", pc' # "documents"
      PROVE  Goal
  <2>1. Collections \subseteq queued'
    BY <1>0, <1>a
  <2>2. ASSUME NEW d \in steady' PROVE Accounted(d)'
    BY <1>0, <1>a, <2>2, StillAccounted
  <2> QED
    BY <2>1, <2>2
<1>1. CASE Resume
  <2>1. Whole /\ pc = "idle" /\ Open # {}
    BY <1>1 DEF Resume, Resumable, Whole
  <2>2. status = "incomplete"
    BY <1>0, <1>1, <2>1 DEF Resume, Resumable, Whole, Consistent, ReconcilerTypeOK, Open
  <2>3. Traversing /\ UNCHANGED <<queued, done, cursor, seen, steady>> /\ pc' = "loop"
    BY <1>1, <2>1, <2>2 DEF Traversing, Resume, tasks, index, history
  <2> QED
    BY <1>a, <2>1, <2>3
<1>2. CASE NewRun
  BY <1>2 DEF NewRun, Traversing
<1>3. CASE ListCollections
  BY <1>3 DEF ListCollections, Traversing
<1>4. CASE Seeded
  <2>1. /\ Collections \subseteq queued /\ done = {} /\ seen = {}
        /\ \A s \in Sources : cursor[s] = 0
        /\ UNCHANGED <<queued, done, cursor, seen, steady>> /\ pc' = "loop"
    BY <1>0, <1>4 DEF Seeded, Whole, Consistent, tasks, index, history
  <2>2. ASSUME NEW d \in steady PROVE Accounted(d)'
    <3>1. d \in Docs /\ ParentOf[d] \in Sources /\ Rank[d] \in Nat \ {0}
      BY <1>0, SourcesAssumption DEF ReconcilerTypeOK
    <3>2. CASE ParentOf[d] \in Docs
      BY <2>1, <3>2 DEF Accounted
    <3>3. CASE ParentOf[d] \in Collections
      <4>1. ParentOf[d] \in Open' /\ Rank[d] > cursor'[ParentOf[d]]
        BY <2>1, <3>1, <3>3 DEF Open
      <4> QED
        BY <2>1, <4>1 DEF Accounted, Ahead
    <3> QED
      BY <3>1, <3>2, <3>3 DEF Sources
  <2> QED
    BY <2>1, <2>2
<1>5. CASE Take
  <2>1. UNCHANGED <<queued, done, cursor, seen, steady, crashes, gap>> /\ pc = "loop" /\ pc' = "listing"
    BY <1>5 DEF Take, job, tasks, index, history
  <2>2. Whole /\ Traversing
    BY <1>0, <2>1 DEF Whole, Traversing, Consistent
  <2> QED
    BY <1>a, <2>1, <2>2
<1>6. CASE ListPage
  <2>1. /\ UNCHANGED <<live, queued, done, cursor, seen, steady, crashes, gap, truncated, task>>
        /\ pc = "listing" /\ pc' = "documents"
    BY <1>6 DEF ListPage, world, job, tasks, index, history
  <2>2. Whole /\ Traversing
    BY <2>1 DEF Whole, Traversing
  <2>3. \A d \in Listed(task) : d \in page' \/ (next' # 0 /\ Rank[d] > next')
    BY <1>0, <1>6, PageComes
  <2>4. ASSUME NEW d \in steady PROVE Accounted(d)'
    <3>1. Accounted(d) /\ d \in live
      BY <1>0, <2>2, SteadyIsPublic
    <3>2. CASE ~Ahead(d)
      BY <2>1, <3>1, <3>2 DEF Accounted
    <3>3. CASE Ahead(d)
      <4>1. ParentOf[d] \in Open' /\ Rank[d] > cursor[ParentOf[d]]
        BY <2>1, <3>3 DEF Ahead, Open
      <4>2. CASE ParentOf[d] = task
        <5>1. d \in Listed(task)
          BY <3>1, <4>1, <4>2 DEF Listed
        <5> QED
          BY <2>1, <2>3, <4>1, <5>1 DEF Accounted, Ahead
      <4>3. CASE ParentOf[d] # task
        BY <2>1, <4>1, <4>3 DEF Accounted, Ahead
      <4> QED
        BY <4>2, <4>3
    <3> QED
      BY <3>2, <3>3
  <2> QED
    BY <1>0, <2>1, <2>2, <2>4
<1>7. ASSUME NEW s \in Collections, Seed(s) PROVE Goal
  BY <1>7 DEF Seed, memory, Traversing
<1>8. ASSUME NEW d \in Docs, StorePrivate(d) PROVE Goal
  <2>1. /\ UNCHANGED <<queued, done, cursor, steady, crashes, gap, truncated, task, next, pc>>
        /\ pc = "documents" /\ page' = page \ {d} /\ seen' = seen \ {d} /\ d \in hidden
    BY <1>8 DEF StorePrivate, job, tasks, history
  <2>2. Whole /\ Traversing
    BY <2>1 DEF Whole, Traversing
  <2>3. ASSUME NEW e \in steady PROVE Accounted(e)'
    <3>1. Accounted(e) /\ e # d
      BY <1>0, <2>1, <2>2, SteadyIsPublic
    <3> QED
      BY <2>1, <3>1 DEF Accounted, Ahead, Open
  <2> QED
    BY <1>0, <2>1, <2>2, <2>3
<1>9. ASSUME NEW d \in Docs, StorePublic(d) PROVE Goal
  <2>1. /\ UNCHANGED <<done, cursor, steady, crashes, gap, task, next, pc>>
        /\ pc = "documents" /\ page' = page \ {d} /\ seen' = seen \cup {d} /\ IsFirst(d)
        /\ queued' = (IF Traversed(d) THEN queued \cup {d} ELSE queued)
        /\ (truncated \/ CutShort(d)) => truncated'
    BY <1>9 DEF StorePublic, job, history
  <2>2. Whole /\ Traversing /\ ~CutShort(d)
    BY <2>1 DEF Whole, Traversing
  <2>3. d \in queued' /\ queued \subseteq queued'
    <3>1. d \in page /\ task \in Sources
      BY <1>0, <2>1 DEF IsFirst, ReconcilerTypeOK
    <3>2. CASE task \in Docs
      <4>1. DepthOf(task) \in Nat /\ MaxDepth \in Nat
        BY <3>1, DepthIsNatural, BoundsAssumption
      <4>2. DepthOf(task) < MaxDepth
        BY <2>2, <3>2, <4>1 DEF CutShort
      <4> QED
        BY <2>1, <3>1, <3>2, <4>2 DEF RoomForChildren, Traversed
    <3>3. CASE task \notin Docs
      <4>1. task \in Collections /\ DepthOf(task) = 0 /\ 0 < MaxDepth
        BY <3>1, <3>3, BoundsAssumption DEF Sources, DepthOf
      <4> QED
        BY <2>1, <2>2, <4>1 DEF CutShort, Traversed
    <3> QED
      BY <3>2, <3>3
  <2>4. task \in Open
    BY <1>0, <2>1 DEF Consistent
  <2>5. ASSUME NEW e \in steady PROVE Accounted(e)'
    <3>1. Accounted(e) /\ e \in Docs
      BY <1>0, <2>2 DEF ReconcilerTypeOK
    <3>2. CASE e = d
      BY <2>1, <2>3, <3>2 DEF Accounted
    <3>3. CASE e # d /\ e \in seen /\ e \in queued
      BY <2>1, <2>3, <3>3 DEF Accounted
    <3>4. CASE e # d /\ Ahead(e)
      BY <2>1, <2>3, <3>4 DEF Accounted, Ahead, Open
    <3>5. CASE ParentOf[e] \in Docs \ seen
      <4>1. CASE ParentOf[e] # d
        BY <2>1, <3>5, <4>1 DEF Accounted
      <4>2. CASE ParentOf[e] = d
        <5>1. d \in steady /\ d \notin queued
          BY <1>0, <3>5, <4>2 DEF Consistent
        <5>2. d \in Sources /\ Rank[e] \in Nat \ {0}
          BY <3>1, SourcesAssumption DEF Sources
        <5>3. d \notin done /\ cursor[d] = 0 /\ d # task
          BY <1>0, <2>4, <5>1, <5>2 DEF ReconcilerTypeOK, Consistent, Open
        <5>4. d \in Open' /\ Rank[e] > cursor'[d]
          BY <2>1, <2>3, <5>2, <5>3 DEF Open
        <5> QED
          BY <2>1, <4>2, <5>3, <5>4 DEF Accounted, Ahead
      <4> QED
        BY <4>1, <4>2
    <3> QED
      BY <3>1, <3>2, <3>3, <3>4, <3>5 DEF Accounted
  <2> QED
    BY <1>0, <2>1, <2>2, <2>3, <2>5
<1>10. ASSUME NEW d \in Docs, SkipDocument(d) PROVE Goal
  BY <1>10 DEF SkipDocument, Whole
<1>11. ASSUME NEW d \in Docs, DocumentGone(d) PROVE Goal
  BY <1>10, <1>11 DEF DocumentGone
<1>12. ASSUME NEW d \in Docs, DocumentFails(d) PROVE Goal
  BY <1>10, <1>12 DEF DocumentFails
<1>13. CASE UpdateTask
  <2>1. /\ UNCHANGED <<queued, seen, steady, crashes, gap, truncated>>
        /\ pc = "documents" /\ pc' = "flags" /\ page = {}
        /\ done' = (IF next = 0 THEN done \cup {task} ELSE done)
        /\ cursor' = [cursor EXCEPT ![task] = next] /\ cursor \in [Sources -> Nat]
    BY <1>0, <1>13 DEF UpdateTask, job, index, history, ReconcilerTypeOK
  <2>2. Whole /\ Traversing
    BY <2>1 DEF Whole, Traversing
  <2>3. ASSUME NEW d \in steady PROVE Accounted(d)'
    <3>1. Accounted(d) /\ d \in Docs /\ ParentOf[d] \in Sources
      BY <1>0, <2>2, SourcesAssumption DEF ReconcilerTypeOK
    <3>2. CASE ~Ahead(d)
      BY <2>1, <3>1, <3>2 DEF Accounted
    <3>3. CASE Ahead(d) /\ ParentOf[d] = task
      <4>1. next # 0 /\ Rank[d] > next /\ ParentOf[d] \in Open
        BY <2>1, <3>3 DEF Ahead
      <4>2. ParentOf[d] \in Open' /\ cursor'[ParentOf[d]] = next
        BY <2>1, <3>1, <3>3, <4>1 DEF Open
      <4> QED
        BY <2>1, <4>1, <4>2 DEF Accounted, Ahead
    <3>4. CASE Ahead(d) /\ ParentOf[d] # task
      <4>1. ParentOf[d] \in Open /\ Rank[d] > cursor[ParentOf[d]]
        BY <3>4 DEF Ahead
      <4>2. ParentOf[d] \in Open' /\ cursor'[ParentOf[d]] = cursor[ParentOf[d]]
        BY <2>1, <3>1, <3>4, <4>1 DEF Open
      <4> QED
        BY <2>1, <4>1, <4>2 DEF Accounted, Ahead
    <3> QED
      BY <3>2, <3>3, <3>4
  <2> QED
    BY <1>0, <2>1, <2>2, <2>3
<1>14. CASE UpdateJob
  <2>1. /\ UNCHANGED <<queued, done, cursor, seen, steady, crashes>> /\ gap' = (gap \/ truncated)
        /\ pc = "flags" /\ pc' = "loop"
    BY <1>14 DEF UpdateJob, tasks, index, history
  <2>2. Whole /\ Traversing
    BY <2>1 DEF Whole, Traversing
  <2> QED
    BY <1>a, <2>1, <2>2
<1>15. CASE Suspend
  <2>1. /\ UNCHANGED <<queued, done, cursor, seen, steady, crashes, gap>>
        /\ pc = "loop" /\ pc' = "idle"
    BY <1>15 DEF Suspend, Stopped, tasks, index, history
  <2>2. Whole /\ Traversing
    BY <1>0, <2>1 DEF Whole, Traversing, Consistent
  <2> QED
    BY <1>a, <2>1, <2>2
<1>16. CASE Complete
  BY <1>16 DEF Complete, Stopped, Traversing
<1>17. CASE Fail
  BY <1>17 DEF Fail, Whole
<1>18. CASE ListParentGone
  BY <1>17, <1>18 DEF ListParentGone
<1>19. CASE RequestFails
  BY <1>17, <1>19 DEF RequestFails
<1>20. CASE Crash
  BY <1>0, <1>20, BoundsAssumption DEF Crash, Whole, ReconcilerTypeOK
<1> QED
  BY <1>1, <1>2, <1>3, <1>4, <1>5, <1>6, <1>7, <1>8, <1>9, <1>11, <1>12, <1>13, <1>14,
     <1>15, <1>16, <1>18, <1>19, <1>20 DEF Work

(* A pass that completes without a gap leaves every steady document in the *)
(* index.                                                                  *)
LEMMA CompletesCurrent ==
    ASSUME PassInv, Complete, crashes = 0, ~gap
    PROVE  steady \subseteq indexed /\ indexed \cap seen = indexed'
           /\ steady \subseteq seen
<1>1. Whole /\ Traversing /\ Open = {}
  BY DEF Complete, Whole, Traversing, PassInv, Consistent
<1>2. steady \subseteq seen /\ seen \subseteq indexed
  BY <1>1, EverythingSeen DEF PassInv, Consistent
<1> QED
  BY <1>2 DEF Complete, Kept

LEMMA CurrentStep ==
    ASSUME PassInv, Work \/ (\E d \in Docs : DocumentFails(d)) \/ RequestFails \/ Crash
    PROVE  CompleteIsCurrent'
<1> SUFFICES ASSUME crashes' = 0, status' = "complete", ~gap'
             PROVE  steady' \subseteq indexed'
  BY DEF CompleteIsCurrent
<1>0. /\ pc # "idle" => status = "running"
      /\ crashes \in Nat
  BY BoundsAssumption DEF PassInv, Consistent, ReconcilerTypeOK
<1>1. CASE Complete
  <2>1. crashes = 0 /\ ~gap /\ steady' = steady
    BY <1>1 DEF Complete, history
  <2> QED
    BY <1>1, <2>1, CompletesCurrent
<1>2. CASE ~Complete
  <2>1. (pc # "idle" /\ UNCHANGED status) \/ status' # "complete"
    <3>1. ASSUME NEW s \in Collections, Seed(s) PROVE pc # "idle" /\ UNCHANGED status
      BY <3>1 DEF Seed, job
    <3>2. ASSUME NEW d \in Docs, StorePrivate(d) \/ StorePublic(d)
          PROVE  pc # "idle" /\ UNCHANGED status
      BY <3>2 DEF StorePrivate, StorePublic, job
    <3>3. ASSUME NEW d \in Docs, DocumentGone(d) \/ DocumentFails(d)
          PROVE  pc # "idle" /\ UNCHANGED status
      BY <3>3 DEF DocumentGone, DocumentFails, SkipDocument, job
    <3>4. CASE ListCollections \/ Seeded \/ Take \/ ListPage \/ UpdateTask \/ UpdateJob \/ Crash
      BY <3>4 DEF ListCollections, Seeded, Take, ListPage, UpdateTask, UpdateJob, Crash, job
    <3>5. CASE Resume \/ NewRun \/ Suspend \/ ListParentGone \/ RequestFails
      BY <3>5 DEF Resume, NewRun, Suspend, ListParentGone, RequestFails, Fail
    <3> QED
      BY <1>2, <3>1, <3>2, <3>3, <3>4, <3>5 DEF Work
  <2> QED
    BY <1>0, <2>1
<1> QED
  BY <1>1, <1>2

-----------------------------------------------------------------------------
(* Whatever changes, fails or crashes, the invariant of the pass is        *)
(* inductive as long as there is room for the children of embedded         *)
(* documents.                                                              *)
LEMMA PassStep == PassInv /\ RoomForChildren /\ [ReconcilerNext]_reconcilerVars => PassInv'
<1> SUFFICES ASSUME PassInv, RoomForChildren, [ReconcilerNext]_reconcilerVars PROVE PassInv'
  OBVIOUS
<1>1. CASE World
  <2>1. WorldChanges /\ ReconcilerTypeOK'
    BY <1>1, TypeUnderWorld DEF World, Create, Delete, Hide, Reveal, PassInv
  <2> QED
    BY <2>1, PassUnderWorld
<1>2. CASE Work \/ (\E d \in Docs : DocumentFails(d)) \/ RequestFails \/ Crash
  BY <1>2, TypeUnderWork, ConsistentUnderWork, NothingOverlookedStep, CurrentStep DEF PassInv
<1>3. CASE UNCHANGED reconcilerVars
  <2>1. UNCHANGED <<live, hidden, changes, status, gap, queued, done, cursor, indexed, seen>>
    BY <1>3 DEF reconcilerVars, world, job, tasks, index
  <2>2. UNCHANGED <<pc, task, page, next, truncated, remaining, faults, crashes, steady, absent>>
    BY <1>3 DEF reconcilerVars, memory, history
  <2>3. ReconcilerTypeOK'
    BY <2>1, <2>2 DEF PassInv, ReconcilerTypeOK
  <2>4. Consistent'
    BY <2>1, <2>2, SameWorld DEF PassInv, Consistent, Open, world
  <2>5. (\A d \in steady : Accounted(d)) <=> (\A d \in steady' : Accounted(d)')
    BY <2>1, <2>2 DEF Accounted, Ahead, Open
  <2>6. NothingOverlooked'
    BY <2>1, <2>2, <2>5 DEF PassInv, NothingOverlooked, Whole, Traversing
  <2> QED
    BY <2>1, <2>2, <2>3, <2>4, <2>6 DEF PassInv, CompleteIsCurrent
<1> QED
  BY <1>1, <1>2, <1>3 DEF ReconcilerNext

(* As long as the limit of tasks is not reached at an embedded page, a     *)
(* pass that reports complete without a gap has indexed every document     *)
(* that was visible throughout, for every world and every interleaving of  *)
(* its changes, failures and budgets: the status the host's tools report.  *)
THEOREM CompletedPassIsCurrent == ReconcilerSpec /\ []RoomForChildren => []IndexInv
<1>1. PassInv => IndexInv
  BY DEF PassInv, IndexInv
<1> QED
  BY <1>1, PassInitInv, PassStep, PTL DEF ReconcilerSpec

(* What a step of the reconciler removes from the index is not steady.     *)
LEMMA StepPrunesOnlyDeleted ==
    ASSUME PassInv, [ReconcilerNext]_reconcilerVars, crashes = 0
    PROVE  (indexed \ indexed') \cap steady' = {}
<1>1. CASE Complete
  <2>1. indexed' = Kept /\ steady' = steady
    BY <1>1 DEF Complete, history
  <2> QED
    BY <1>1, <2>1, CompletesCurrent DEF Kept
<1>2. ASSUME NEW d \in Docs, StorePrivate(d) PROVE (indexed \ indexed') \cap steady' = {}
  <2>1. d \notin steady /\ indexed' = indexed \ {d} /\ steady' = steady
    BY <1>2, SteadyIsPublic DEF StorePrivate, PassInv, history
  <2> QED
    BY <2>1
<1>3. CASE indexed \subseteq indexed'
  BY <1>3
<1>4. indexed \subseteq indexed' \/ Complete \/ \E d \in Docs : StorePrivate(d)
  <2>1. CASE World
    BY <2>1 DEF World, Create, Delete, Hide, Reveal, WorldChanges, index
  <2>2. CASE Resume \/ NewRun \/ ListCollections \/ Seeded \/ Take \/ ListPage \/ UpdateTask
             \/ UpdateJob \/ Suspend
    BY <2>2 DEF Resume, NewRun, ListCollections, Seeded, Take, ListPage, UpdateTask, UpdateJob,
                Suspend, index
  <2>3. CASE (\E s \in Collections : Seed(s)) \/ (\E d \in Docs : StorePublic(d))
    BY <2>3 DEF Seed, StorePublic, index
  <2>4. CASE \E d \in Docs : DocumentGone(d) \/ DocumentFails(d)
    BY <2>4 DEF DocumentGone, DocumentFails, SkipDocument, index
  <2>5. CASE ListParentGone \/ RequestFails \/ Crash
    BY <2>5 DEF ListParentGone, RequestFails, Fail, Crash, index
  <2>6. CASE UNCHANGED reconcilerVars
    BY <2>6 DEF reconcilerVars, index
  <2> QED
    BY <2>1, <2>2, <2>3, <2>4, <2>5, <2>6 DEF ReconcilerNext, Work
<1> QED
  BY <1>1, <1>2, <1>3, <1>4

(* Under the same condition no step removes a snapshot of a document that  *)
(* has been visible since the pass began: the DELETE of unseen snapshots   *)
(* prunes only what is gone or private.                                    *)
THEOREM PassesPruneOnlyDeleted == ReconcilerSpec /\ []RoomForChildren => PrunesOnlyDeleted
<1>1. PassInv /\ [ReconcilerNext]_reconcilerVars => [crashes = 0 => (indexed \ indexed') \cap steady' = {}]_reconcilerVars
  BY StepPrunesOnlyDeleted
<1> QED
  BY <1>1, PassInitInv, PassStep, PTL DEF ReconcilerSpec, PrunesOnlyDeleted

(* There is room whenever the limit is as large as the number of things    *)
(* that could have a task.                                                 *)
LEMMA EnoughRoom ==
    ASSUME Cardinality(Sources) <= MaxTasks, PassInv
    PROVE  RoomForChildren
<1> SUFFICES ASSUME NEW d \in page, d \notin queued PROVE HasRoom
  BY DEF RoomForChildren
<1>1. d \in Sources /\ queued \in SUBSET Sources
  BY DEF PassInv, ReconcilerTypeOK, Sources
<1>2. IsFiniteSet(Sources) /\ queued # Sources
  BY <1>1, SourcesAssumption
<1>3. /\ Cardinality(queued) \in Nat /\ Cardinality(Sources) \in Nat /\ MaxTasks \in Nat
      /\ Cardinality(queued) <= Cardinality(Sources)
      /\ Cardinality(queued) # Cardinality(Sources)
  BY <1>1, <1>2, FS_Subset, FS_CardinalityType, BoundsAssumption
<1> QED
  BY <1>3 DEF HasRoom

(* So in a world that fits the limit both promises hold without condition. *)
THEOREM SmallWorldsAreIndexed ==
    ASSUME Cardinality(Sources) <= MaxTasks
    PROVE  ReconcilerSpec => []IndexInv /\ PrunesOnlyDeleted
<1>1. PassInv => RoomForChildren
  BY EnoughRoom
<1>2. PassInv /\ [ReconcilerNext]_reconcilerVars => PassInv'
  BY <1>1, PassStep
<1>3. ReconcilerSpec => []RoomForChildren
  BY <1>1, <1>2, PassInitInv, PTL DEF ReconcilerSpec
<1> QED
  BY <1>3, CompletedPassIsCurrent, PassesPruneOnlyDeleted, PTL
=============================================================================
