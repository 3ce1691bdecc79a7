---------------------------- MODULE EventStream ----------------------------
(***************************************************************************)
(* The event stream between one Foundry browser page and the host:         *)
(* CompanionBridgeClient.publish and its events.resume / event.ack         *)
(* handlers (packages/foundry-module/src/companion-client.ts), the host's  *)
(* HostEventStream behind the companion WebSocket server                   *)
(* (packages/host/src/bridge/companion-server.ts), and the durable ledger  *)
(* of module EventLedger.  A socket carries frames in order and may die at *)
(* any moment on either side; the page may reload, and its localStorage    *)
(* may refuse a write or be lost.                                          *)
(***************************************************************************)
EXTENDS EventLedger, SequencesExt

CONSTANTS
    MaxPendingEvents,   \* maxPendingEvents (500): the browser's window
    MaxPublish,         \* bound: events Foundry produces
    MaxDrops,           \* bound: socket deaths and page reloads
    MaxQuotaFailures,   \* bound: localStorage writes that are refused
    MaxStorageLosses    \* bound: times the browser's storage is cleared

ASSUME StreamAssumption == /\ MaxPendingEvents \in Nat \ {0}
                           /\ MaxPublish \in Nat
                           /\ Seqs = 1 .. MaxPublish
                           /\ Payloads = 1 .. MaxPublish

VARIABLES
    nextSeq,            \* #state.nextSequenceId
    pendingEvents,      \* #state.pendingEvents
    storage,            \* what localStorage holds of the two
    sock,               \* the browser's current socket, see SocketStates
    hostSock,           \* the host's connections map holds a socket of this page
    toHost,             \* event frames the host has still to read
    toBrowser,          \* frames the browser has still to read
    published,          \* history: how often a hook called publish
    kept,               \* history: events whose publish returned normally
    drops, quotaFailures, storageLosses     \* the faults so far

browserVars == <<nextSeq, pendingEvents, storage, published, kept>>
wireVars    == <<sock, hostSock, toHost, toBrowser>>
faultVars   == <<drops, quotaFailures, storageLosses>>
vars        == <<ledgerVars, browserVars, wireVars, faultVars>>

\* "none": waiting for the reconnect timer; "connecting": up to the host's
\* activateConnection; "active": activated, events.resume not yet handled;
\* "resumed": #resumed; "closing": dead or closed, close event still to come.
SocketStates == {"none", "connecting", "active", "resumed", "closing"}

Recorded == {e.ev : e \in accepted}

Image(next, queue) == [next |-> next, queue |-> queue]
EmptyImage == Image(1, <<>>)

ResumeFrame(n) == [type |-> "events.resume", next |-> n]
AckFrame(n) == [type |-> "event.ack", next |-> n + 1]

Init ==
    /\ LedgerInit
    /\ nextSeq = 1 /\ pendingEvents = <<>> /\ storage = EmptyImage
    /\ sock = "none" /\ hostSock = FALSE /\ toHost = <<>> /\ toBrowser = <<>>
    /\ published = 0 /\ kept = {}
    /\ drops = 0 /\ quotaFailures = 0 /\ storageLosses = 0

----------------------------------------------------------------------------
(* Mutated forms of the definitions below, used by the mutation runs.      *)

OutstandingStrictlyAfter(next) == SelectSeq(pendingEvents, LAMBDA e : e.seq > next)
PersistNothing(next, queue) == UNCHANGED <<storage, quotaFailures>>
LoadStateRenumbers == pendingEvents' = storage.queue /\ nextSeq' = Len(storage.queue) + 1
ReplayNothing == toHost' = toHost

----------------------------------------------------------------------------
(* The browser's state after a frame that announces `next`.                *)

\* Events are queued in the order of their numbers: what the filter keeps of
\* them is the end of the queue.
FirstOutstanding(next) ==
    CHOOSE i \in 1 .. Len(pendingEvents) + 1 :
        /\ \A j \in 1 .. i - 1 : pendingEvents[j].seq < next
        /\ i <= Len(pendingEvents) => pendingEvents[i].seq >= next
OutstandingAfter(next) == SubSeq(pendingEvents, FirstOutstanding(next), Len(pendingEvents))
NumberAfter(next) == IF next > nextSeq THEN next ELSE nextSeq

\* #send: the frame leaves only on a socket that is open.
Emit(env) == toHost' = IF sock = "resumed" THEN Append(toHost, env) ELSE toHost

\* #persist: one localStorage write.
PersistOk(next, queue) == storage' = Image(next, queue) /\ UNCHANGED quotaFailures
PersistFails ==
    /\ quotaFailures < MaxQuotaFailures
    /\ quotaFailures' = quotaFailures + 1
    /\ UNCHANGED storage

\* publish() numbers and queues the event first.
Enqueue(env) ==
    /\ published < MaxPublish
    /\ env = [seq |-> nextSeq, ev |-> published + 1]
    /\ published' = published + 1
    /\ nextSeq' = nextSeq + 1
    /\ pendingEvents' = Append(pendingEvents, env)

PublishSaved ==
    \E env \in Envelopes :
        /\ Enqueue(env)
        /\ Len(pendingEvents') <= MaxPendingEvents
        /\ PersistOk(nextSeq', pendingEvents')
        /\ Emit(env)
        /\ kept' = kept \cup {env.ev}
        /\ UNCHANGED <<ledgerVars, sock, hostSock, toBrowser, drops, storageLosses>>

\* localStorage refuses the write: publish throws, the event stays queued.
PublishUnsaved ==
    \E env \in Envelopes :
        /\ Enqueue(env)
        /\ Len(pendingEvents') <= MaxPendingEvents
        /\ PersistFails
        /\ UNCHANGED <<ledgerVars, wireVars, kept, drops, storageLosses>>

\* "event reconciliation window is full": thrown after the event is queued.
PublishOverflow ==
    \E env \in Envelopes :
        /\ Enqueue(env)
        /\ Len(pendingEvents') > MaxPendingEvents
        /\ UNCHANGED <<ledgerVars, wireVars, storage, kept, faultVars>>

----------------------------------------------------------------------------
(* The socket's life.                                                      *)

Connect ==
    /\ sock = "none"
    /\ sock' = "connecting"
    /\ UNCHANGED <<ledgerVars, browserVars, hostSock, toHost, toBrowser, faultVars>>

\* activateConnection: the handshake is over; the host forgets an older socket
\* of the page and whatever it has not read from it, and announces the resume
\* point.
Activate ==
    /\ sock = "connecting"
    /\ sock' = "active"
    /\ hostSock' = TRUE
    /\ toHost' = <<>>
    /\ toBrowser' = <<ResumeFrame(ResumePoint)>>
    /\ UNCHANGED <<ledgerVars, browserVars, faultVars>>

\* The browser forgets what the host has, and replays the rest in order.
Replay == toHost' = toHost \o pendingEvents'

\* On a socket that died meanwhile the frame is still handled, only #send
\* finds it closed.
HandleResume ==
    /\ sock \in {"active", "closing"}
    /\ toBrowser # <<>>
    /\ Head(toBrowser).type = "events.resume"
    /\ LET next == Head(toBrowser).next
       IN  /\ pendingEvents' = OutstandingAfter(next)
           /\ nextSeq' = NumberAfter(next)
    /\ toBrowser' = Tail(toBrowser)
    /\ \/ /\ PersistOk(nextSeq', pendingEvents')
          /\ IF sock = "active" THEN Replay /\ sock' = "resumed" ELSE UNCHANGED <<toHost, sock>>
       \/ PersistFails /\ sock' = "closing" /\ UNCHANGED toHost
    /\ UNCHANGED <<ledgerVars, hostSock, published, kept, drops, storageLosses>>

HandleAck ==
    /\ sock \in {"resumed", "closing"}
    /\ toBrowser # <<>>
    /\ Head(toBrowser).type = "event.ack"
    /\ LET next == Head(toBrowser).next
       IN  /\ pendingEvents' = OutstandingAfter(next)
           /\ nextSeq' = NumberAfter(next)
    /\ toBrowser' = Tail(toBrowser)
    /\ \/ PersistOk(nextSeq', pendingEvents') /\ UNCHANGED sock
       \/ PersistFails /\ sock' = "closing"
    /\ UNCHANGED <<ledgerVars, hostSock, toHost, published, kept, drops, storageLosses>>

\* The host reads one event frame.  An acknowledgement reaches the browser
\* only while the socket is open at both ends; a refused envelope closes it.
IngestFrame ==
    /\ hostSock
    /\ toHost # <<>>
    /\ toHost' = Tail(toHost)
    /\ LET e == Head(toHost)
           acknowledge ==
               /\ toBrowser' = IF sock \in {"active", "resumed"}
                               THEN Append(toBrowser, AckFrame(ack'))
                               ELSE toBrowser
               /\ UNCHANGED sock
       IN  \/ IngestDuplicate(e) /\ acknowledge
           \/ \E captured \in BOOLEAN : IngestAccepted(e, captured) /\ acknowledge
           \/ /\ IngestRefused(e)
              /\ sock' = IF sock \in {"active", "resumed"} THEN "closing" ELSE sock
              /\ UNCHANGED toBrowser
    /\ UNCHANGED <<browserVars, hostSock, faultVars>>

\* The browser's close event: the receive queue dies with the socket.
SocketClosed ==
    /\ sock = "closing"
    /\ sock' = "none"
    /\ toBrowser' = <<>>
    /\ UNCHANGED <<ledgerVars, browserVars, hostSock, toHost, faultVars>>

----------------------------------------------------------------------------
(* Faults.                                                                 *)

Dying == IF sock = "none" THEN "none" ELSE "closing"

\* The host loses the socket: network, rate limit, invalid frame, host crash.
HostDrop ==
    /\ drops < MaxDrops
    /\ hostSock \/ sock = "connecting"
    /\ drops' = drops + 1
    /\ hostSock' = FALSE
    /\ toHost' = <<>>
    /\ sock' = Dying
    /\ UNCHANGED <<ledgerVars, browserVars, toBrowser, quotaFailures, storageLosses>>

\* The browser loses the socket; the host may still read what was sent.
BrowserDrop ==
    /\ drops < MaxDrops
    /\ sock \in {"connecting", "active", "resumed"}
    /\ drops' = drops + 1
    /\ sock' = "closing"
    /\ UNCHANGED <<ledgerVars, browserVars, hostSock, toHost, toBrowser,
                   quotaFailures, storageLosses>>

\* The new page starts from what localStorage holds (parseState).
LoadState == pendingEvents' = storage.queue /\ nextSeq' = storage.next

PageReload ==
    /\ drops < MaxDrops
    /\ drops' = drops + 1
    /\ LoadState
    /\ sock' = "none"
    /\ toBrowser' = <<>>
    /\ UNCHANGED <<ledgerVars, storage, hostSock, toHost, published, kept,
                   quotaFailures, storageLosses>>

\* The browser's storage is cleared and the page, paired again, starts with
\* emptyState().  What only the browser had is gone with its storage and no
\* longer counted as kept.
StorageLost ==
    /\ storageLosses < MaxStorageLosses
    /\ storageLosses' = storageLosses + 1
    /\ storage' = EmptyImage
    /\ nextSeq' = 1
    /\ pendingEvents' = <<>>
    /\ sock' = "none"
    /\ toBrowser' = <<>>
    /\ kept' = kept \cap Recorded
    /\ UNCHANGED <<ledgerVars, hostSock, toHost, published, drops, quotaFailures>>

Retention == \E old \in SUBSET rows : PruneEvents(old) /\ UNCHANGED <<browserVars, wireVars, faultVars>>

Next ==
    \/ PublishSaved \/ PublishUnsaved \/ PublishOverflow
    \/ Connect \/ Activate \/ HandleResume \/ HandleAck \/ IngestFrame \/ SocketClosed
    \/ HostDrop \/ BrowserDrop \/ PageReload \/ StorageLost
    \/ Retention

Spec == Init /\ [][Next]_vars

\* Both event loops keep turning: a due timer fires, a frame that has arrived
\* is handled, a dead socket's close event comes.  Nothing makes Foundry
\* produce an event, and nothing makes a fault happen.
Fairness ==
    /\ WF_vars(Connect) /\ WF_vars(Activate) /\ WF_vars(HandleResume)
    /\ WF_vars(HandleAck) /\ WF_vars(IngestFrame) /\ WF_vars(SocketClosed)

FairSpec == Spec /\ Fairness

----------------------------------------------------------------------------
Pending == {pendingEvents[i].ev : i \in 1 .. Len(pendingEvents)}

TypeOK ==
    /\ LedgerTypeOK
    /\ nextSeq \in 1 .. MaxPublish + 1 /\ storage.next \in 1 .. MaxPublish + 1
    /\ pendingEvents \in Seq(Envelopes) /\ storage.queue \in Seq(Envelopes)
    /\ sock \in SocketStates /\ hostSock \in BOOLEAN
    /\ toHost \in Seq(Envelopes)
    /\ \A i \in 1 .. Len(toBrowser) :
           toBrowser[i].type \in {"events.resume", "event.ack"} /\ toBrowser[i].next \in Nat
    /\ published \in 0 .. MaxPublish /\ kept \subseteq 1 .. published

\* What the page alone can promise, it promises until its storage is lost.
StorageKept == storageLosses = 0

\* An event whose publish returned is never lost: until the host has it, the
\* page still holds it ("refusing to drop unacknowledged events").
NoUnacknowledgedDrop == StorageKept => \A ev \in kept : ev \in Recorded \/ ev \in Pending

\* A sequence id never stands for two events anywhere in the system, so that
\* the host's duplicate suppression never suppresses a new event.
SequenceNamesOneEvent ==
    LET known == accepted \cup ToSet(toHost) \cup ToSet(pendingEvents) \cup ToSet(storage.queue)
    IN  StorageKept => \A d, e \in known : d.seq = e.seq <=> d.ev = e.ev

\* A hole in the host's sequence is always an event whose publish failed (the
\* window was full or the write refused), and the page still holds it: no
\* crash, reload or reconnect leaves a hole that nobody can fill.
HolesAreWithheldEvents ==
    StorageKept /\ receipts # {} =>
        \E i \in 1 .. Len(pendingEvents) :
            /\ pendingEvents[i].seq = ack + 1
            /\ pendingEvents[i].ev \notin kept

\* The numbers of the stream: their types, one event for each, and holes only where
\* a publish failed.
StreamInv == TypeOK /\ SequenceNamesOneEvent /\ HolesAreWithheldEvents

\* Once a page has handled events.resume, every number it hands out is one the
\* host has not acknowledged, so that a new event is never taken for an old one.
\* The code keeps this after the page's storage was lost only if there was no hole
\* then: the event that fills it also acknowledges the receipts beyond it.
FreshNumbersOnceResumed == sock = "resumed" => nextSeq > ack

\* The stream implements the abstract delivery service, as long as the browser
\* keeps its storage.
Delivery == INSTANCE EventDelivery WITH produced <- published, recorded <- accepted
DeliverySpec == Delivery!Init /\ [][StorageKept => Delivery!Next]_<<published, accepted>>

\* Every event whose publish returned reaches the host's ledger.
EventuallyRecorded ==
    \A ev \in 1 .. MaxPublish : ev \in kept ~> (ev \in Recorded \/ ~StorageKept)

\* Every event whose publish returned is eventually acknowledged and leaves
\* the browser's window.  The code does not keep this: a publish that is refused by
\* a full window has consumed an id that is not sent before the next reconnect.
EventuallyAcknowledged == \A ev \in 1 .. MaxPublish : ev \in kept ~> ev \notin Pending
=============================================================================
