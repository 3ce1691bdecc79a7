------------------------- MODULE CompanionRequests -------------------------
(***************************************************************************)
(* Requests from the host to a Foundry page: the pending / completed       *)
(* tables of the companion WebSocket server                                *)
(* (packages/host/src/bridge/companion-server.ts) and the request side of  *)
(* CompanionBridgeClient, with its response cache, its in-flight table and *)
(* its durable guard for mutations                                         *)
(* (packages/foundry-module/src/companion-client.ts).  Several tabs of one *)
(* user share a connection id and one localStorage entry.                  *)
(***************************************************************************)
EXTENDS Integers, FiniteSets, SequencesExt

CONSTANTS
    Ids,                \* request ids; an id always names the same request
    Mutations,          \* those whose method is in MUTATION_METHODS
    Tabs,               \* browser tabs running the companion
    None,               \* "undefined"
    MaxCompleted,       \* size of the completed table (500)
    Budgets             \* bound: sets of numbers of calls of each id, and of faults (socket
                        \* deaths, reloads, stops, restarts) and refused writes

VARIABLES
    pending,        \* host: the call of an id that is not settled, or None
    completed,      \* host: settled answers of companions, oldest first
    live,           \* host: the tab whose socket is in the connections map
    link,           \* per tab: its socket, see LinkStates
    toTab, toHost,  \* per tab: frames in flight on its socket
    taken,          \* per tab: the request #beginRequest is hashing, or None
    memory,         \* per tab: #state.responses and #state.inFlightMutations
    store,          \* localStorage: the same two
    flight,         \* per tab and id: #inFlightRequests
    calls,          \* how often an id may still be called
    told,           \* history: what the callers of an id were told
    invoked,        \* history: how often handleRequest ran a mutation
    drops, storageFailures      \* the faults and refused writes still to come

hostVars  == <<pending, completed, calls, told>>
wireVars  == <<live, link, toTab, toHost>>
pageVars  == <<taken, memory, store, flight, invoked>>
faultVars == <<drops, storageFailures>>
vars == <<hostVars, wireVars, pageVars, faultVars>>

\* "opening": open at the browser (readyState 1), auth.proof not yet sent;
\* "open": activated; "closing": dead or closed, close event still to come.
LinkStates == {"none", "opening", "open", "closing"}

\* Error codes; CANCELLED stands for TIMEOUT too, NOT_DISPATCHED is the
\* FOUNDRY_ERROR with details.notDispatched, LOST what a crash leaves.
MayHaveRun == {"ok", "FOUNDRY_ERROR", "INDETERMINATE_MUTATION", "LOST"}
NeverRan   == {"CANCELLED", "NOT_DISPATCHED", "OFFLINE_BRIDGE"}
Answers    == MayHaveRun \cup NeverRan

Calls   == [dispatched : BOOLEAN, cancelled : BOOLEAN]

ASSUME RequestsAssumption ==
    /\ Mutations \subseteq Ids
    /\ None \notin Tabs /\ None \notin Ids /\ None \notin Answers \cup Calls
    /\ MaxCompleted \in Nat
    /\ Budgets \subseteq [calls : [Ids -> Nat], drops : Nat, storageFailures : Nat]

Flights == [running : BOOLEAN, aborted : BOOLEAN, waiters : Nat \ {0}]
NoAnswers  == [r \in Ids |-> None]
EmptyState == [responses |-> NoAnswers, guards |-> {}]

Init ==
    /\ pending = [r \in Ids |-> None]
    /\ completed = <<>>
    /\ live = None
    /\ link = [t \in Tabs |-> "none"]
    /\ toTab = [t \in Tabs |-> <<>>] /\ toHost = [t \in Tabs |-> <<>>]
    /\ taken = [t \in Tabs |-> None]
    /\ memory = [t \in Tabs |-> EmptyState] /\ store = EmptyState
    /\ flight = [t \in Tabs |-> [r \in Ids |-> None]]
    /\ told = [r \in Ids |-> {}]
    /\ invoked = [r \in Mutations |-> 0]
    /\ \E b \in Budgets :
          calls = b.calls /\ drops = b.drops /\ storageFailures = b.storageFailures

----------------------------------------------------------------------------
(* Mutated forms of the definitions below, used by the mutation runs.      *)

IndeterminateNever(r, call) == FALSE
NewestKeepsAll(log) == log
UnacknowledgedIfLive(r) == pending[r] # None /\ pending[r].cancelled /\ live # None
RecoveredNever(t, r) == FALSE
EvictedAny(responses) ==
    {[r \in Ids |-> IF r \in gone THEN None ELSE responses[r]] : gone \in SUBSET Ids}
OutcomesUndispatched(r, f) == {"ok", "FOUNDRY_ERROR"}

----------------------------------------------------------------------------
(* The host's request table.                                               *)

RequestFrame(r) == [type |-> "request", id |-> r]
CancelFrame(r)  == [type |-> "request.cancel", id |-> r]

\* What a frame sent on socket t adds to its queue: nothing when it has died
\* and the host does not know yet.
Queued(t, frames) == IF link[t] = "open" THEN toTab[t] \o frames ELSE toTab[t]

SendLive(frame) ==
    toTab' = IF live = None THEN toTab ELSE [toTab EXCEPT ![live] = Queued(live, <<frame>>)]

Tell(r, answer) == told' = [told EXCEPT ![r] = @ \cup {answer}]

Indeterminate(r, call) == call.dispatched /\ r \in Mutations

\* unacknowledgedCancellation and shutdownError.
CancelVerdict(r, call) == IF Indeterminate(r, call) THEN "INDETERMINATE_MUTATION" ELSE "CANCELLED"
ShutdownVerdict(r, call) ==
    CASE call.cancelled -> CancelVerdict(r, call)
      [] ~call.cancelled /\ Indeterminate(r, call) -> "INDETERMINATE_MUTATION"
      [] OTHER -> "OFFLINE_BRIDGE"

CompletedAnswers(r) == {i \in 1 .. Len(completed) : completed[i].id = r}

\* request(): a completed id is answered from the table, a pending one joins
\* the call there is, an aborted or late one is refused before dispatch.
RequestAgain(r) ==
    /\ calls[r] > 0
    /\ calls' = [calls EXCEPT ![r] = @ - 1]
    /\ \E i \in CompletedAnswers(r) : Tell(r, completed[i].answer)
    /\ UNCHANGED <<pending, completed, wireVars, pageVars, faultVars>>

RequestTooLate(r) ==
    /\ calls[r] > 0
    /\ CompletedAnswers(r) = {} /\ pending[r] = None
    /\ calls' = [calls EXCEPT ![r] = @ - 1]
    /\ Tell(r, "CANCELLED")
    /\ UNCHANGED <<pending, completed, wireVars, pageVars, faultVars>>

Request(r) ==
    /\ calls[r] > 0
    /\ CompletedAnswers(r) = {} /\ pending[r] = None
    /\ calls' = [calls EXCEPT ![r] = @ - 1]
    /\ pending' = [pending EXCEPT ![r] = [dispatched |-> live # None, cancelled |-> FALSE]]
    /\ SendLive(RequestFrame(r))
    /\ UNCHANGED <<completed, told, live, link, toHost, pageVars, faultVars>>

\* The caller's signal or the deadline timer: cancelPending.
CancelPending(r) ==
    /\ pending[r] # None
    /\ ~pending[r].cancelled
    /\ pending' = [pending EXCEPT ![r].cancelled = TRUE]
    /\ SendLive(CancelFrame(r))
    /\ UNCHANGED <<completed, calls, told, live, link, toHost, pageVars, faultVars>>

\* Nobody acknowledged the cancellation within CANCELLATION_ACK_TIMEOUT_MS.
Unacknowledged(r) == pending[r] # None /\ pending[r].cancelled

CancelUnacknowledged(r) ==
    /\ Unacknowledged(r)
    /\ Tell(r, CancelVerdict(r, pending[r]))
    /\ pending' = [pending EXCEPT ![r] = None]
    /\ UNCHANGED <<completed, calls, wireVars, pageVars, faultVars>>

Newest(log) == IF Len(log) > MaxCompleted THEN Tail(log) ELSE log

\* A response frame of the current socket; one that nobody waits for is
\* ignored.
ReceiveResponse ==
    /\ live # None
    /\ toHost[live] # <<>>
    /\ toHost' = [toHost EXCEPT ![live] = Tail(@)]
    /\ LET response == Head(toHost[live])
       IN  \/ /\ pending[response.id] # None
              /\ pending' = [pending EXCEPT ![response.id] = None]
              /\ completed' = Newest(Append(completed, response))
              /\ Tell(response.id, response.answer)
           \/ /\ pending[response.id] = None
              /\ UNCHANGED <<pending, completed, told>>
    /\ UNCHANGED <<calls, live, link, toTab, pageVars, faultVars>>

----------------------------------------------------------------------------
(* The socket's life.                                                      *)

Connect(t) ==
    /\ link[t] = "none"
    /\ link' = [link EXCEPT ![t] = "opening"]
    /\ UNCHANGED <<hostVars, live, toTab, toHost, pageVars, faultVars>>

Resent(r) == pending[r] # None /\ ~pending[r].cancelled

\* activateConnection: an older socket of the connection is closed with 1012
\* and no longer listened to, and every call that is pending and not cancelled
\* is sent again.  The handshake waits in the receive queue behind the request
\* that is being hashed.
Activate(t) ==
    /\ link[t] = "opening"
    /\ taken[t] = None
    /\ live' = t
    /\ link' = [u \in Tabs |->
                  CASE u = t -> "open"
                    [] u # t /\ u = live /\ link[u] = "open" -> "closing"
                    [] OTHER -> link[u]]
    /\ toHost' = [u \in Tabs |-> IF u \in {t, live} THEN <<>> ELSE toHost[u]]
    /\ \E again \in SetToSeqs({r \in Ids : Resent(r)}) :
          toTab' = [toTab EXCEPT ![t] = [i \in DOMAIN again |-> RequestFrame(again[i])]]
    /\ pending' = [r \in Ids |->
                     IF Resent(r) THEN [pending[r] EXCEPT !.dispatched = TRUE] ELSE pending[r]]
    /\ UNCHANGED <<completed, calls, told, pageVars, faultVars>>

\* The browser's close event.
SocketClosed(t) ==
    /\ link[t] = "closing"
    /\ link' = [link EXCEPT ![t] = "none"]
    /\ toTab' = [toTab EXCEPT ![t] = <<>>]
    /\ UNCHANGED <<hostVars, live, toHost, pageVars, faultVars>>

\* The host's close event, for a socket the browser has given up.
HostSocketClosed ==
    /\ live # None
    /\ link[live] # "open"
    /\ live' = None
    /\ toHost' = [toHost EXCEPT ![live] = <<>>]
    /\ UNCHANGED <<hostVars, link, toTab, pageVars, faultVars>>

----------------------------------------------------------------------------
(* The page: what it sends and what it stores.                             *)

\* #send(response), n times.  On a socket that is open but not authenticated
\* the response is taken for a bad auth.proof and the host closes it (1008).
Answer(t, r, answer, n) ==
    /\ toHost' = IF link[t] = "open"
                 THEN [toHost EXCEPT ![t] = @ \o [i \in 1 .. n |-> [id |-> r, answer |-> answer]]]
                 ELSE toHost
    /\ link' = IF link[t] = "opening" THEN [link EXCEPT ![t] = "closing"] ELSE link
    /\ UNCHANGED <<live, toTab>>

\* #persist makes room by dropping the oldest responses of reads (any of them
\* here), and throws when storage refuses the rest.
Evicted(responses) ==
    {[r \in Ids |-> IF r \in gone THEN None ELSE responses[r]] :
        gone \in SUBSET {r \in Ids \ Mutations : responses[r] # None}}

Saved(t, responses, guards) ==
    \E kept \in Evicted(responses) :
        /\ store' = [responses |-> kept, guards |-> guards]
        /\ memory' = [memory EXCEPT ![t] = store']
        /\ UNCHANGED storageFailures

NotSaved(t, responses, guards) ==
    /\ storageFailures > 0
    /\ storageFailures' = storageFailures - 1
    /\ \E kept \in Evicted(responses) :
          memory' = [memory EXCEPT ![t] = [responses |-> kept, guards |-> guards]]
    /\ UNCHANGED store

Cached(t, r, answer) == [memory[t].responses EXCEPT ![r] = answer]

----------------------------------------------------------------------------
(* The page: one request frame.                                            *)

\* The receive queue takes the next frame; for a request it then waits for
\* requestIdentity (crypto.subtle), while the socket may die.
Receive(t) ==
    /\ link[t] \in {"open", "closing"}
    /\ taken[t] = None
    /\ toTab[t] # <<>>
    /\ toTab' = [toTab EXCEPT ![t] = Tail(@)]
    /\ \E r \in Ids :
          \/ /\ Head(toTab[t]) = RequestFrame(r)
             /\ taken' = [taken EXCEPT ![t] = r]
             /\ UNCHANGED flight
          \/ /\ Head(toTab[t]) = CancelFrame(r)
             /\ flight' = IF flight[t][r] = None THEN flight
                          ELSE [flight EXCEPT ![t][r].aborted = TRUE]
             /\ UNCHANGED taken
    /\ UNCHANGED <<hostVars, live, link, toHost, memory, store, invoked, faultVars>>

Recovered(t, r) == r \in memory[t].guards

\* #beginRequest: from the response cache, ...
BeginCached(t, r) ==
    /\ memory[t].responses[r] # None
    /\ Answer(t, r, memory[t].responses[r], 1)
    /\ UNCHANGED <<memory, store, flight, storageFailures>>

\* ... or by waiting for the execution there is, ...
BeginJoined(t, r) ==
    /\ memory[t].responses[r] = None
    /\ flight[t][r] # None
    /\ flight' = [flight EXCEPT ![t][r].waiters = @ + 1]
    /\ UNCHANGED <<wireVars, memory, store, storageFailures>>

\* ... or, for a mutation begun before a restart, with the truth about it, ...
BeginRecovered(t, r) ==
    /\ memory[t].responses[r] = None
    /\ flight[t][r] = None
    /\ Recovered(t, r)
    /\ \/ Saved(t, Cached(t, r, "INDETERMINATE_MUTATION"), memory[t].guards \ {r})
       \/ NotSaved(t, Cached(t, r, "INDETERMINATE_MUTATION"), memory[t].guards)
    /\ Answer(t, r, "INDETERMINATE_MUTATION", 1)
    /\ UNCHANGED flight

Fresh(t, r) ==
    /\ memory[t].responses[r] = None
    /\ flight[t][r] = None
    /\ ~Recovered(t, r)

\* A deadline that has passed aborts the execution before it starts.
Launch(t, r) ==
    \E late \in BOOLEAN :
        flight' = [flight EXCEPT ![t][r] = [running |-> FALSE, aborted |-> late, waiters |-> 1]]

\* ... or by executing it, a mutation only under a guard that is on disk.
BeginFresh(t, r) ==
    /\ Fresh(t, r)
    /\ IF r \in Mutations
       THEN Saved(t, memory[t].responses, memory[t].guards \cup {r})
       ELSE UNCHANGED <<memory, store, storageFailures>>
    /\ Launch(t, r)
    /\ UNCHANGED wireVars

BeginUnguarded(t, r) ==
    /\ Fresh(t, r)
    /\ r \in Mutations
    /\ NotSaved(t, memory[t].responses, memory[t].guards)
    /\ Answer(t, r, "NOT_DISPATCHED", 1)
    /\ UNCHANGED flight

Begin(t) ==
    /\ taken[t] # None
    /\ taken' = [taken EXCEPT ![t] = None]
    /\ \/ BeginCached(t, taken[t])
       \/ BeginJoined(t, taken[t])
       \/ BeginRecovered(t, taken[t])
       \/ BeginFresh(t, taken[t])
       \/ BeginUnguarded(t, taken[t])
    /\ UNCHANGED <<hostVars, invoked, drops>>

----------------------------------------------------------------------------
(* The page: an execution.                                                 *)

\* handleRequest is called.
Dispatch(t, r) ==
    /\ flight[t][r] # None
    /\ ~flight[t][r].running
    /\ ~flight[t][r].aborted
    /\ flight' = [flight EXCEPT ![t][r].running = TRUE]
    /\ invoked' = IF r \in Mutations THEN [invoked EXCEPT ![r] = @ + 1] ELSE invoked
    /\ UNCHANGED <<hostVars, wireVars, taken, memory, store, faultVars>>

\* The page's own deadline timer.
PageDeadline(t, r) ==
    /\ flight[t][r] # None
    /\ ~flight[t][r].aborted
    /\ flight' = [flight EXCEPT ![t][r].aborted = TRUE]
    /\ UNCHANGED <<hostVars, wireVars, taken, memory, store, invoked, faultVars>>

\* What #executeRequest may answer: an aborted execution does not wait for
\* handleRequest any longer.
Outcomes(r, f) ==
    IF f.aborted
    THEN {IF f.running /\ r \in Mutations THEN "INDETERMINATE_MUTATION" ELSE "CANCELLED"}
    ELSE IF f.running THEN {"ok", "FOUNDRY_ERROR"} ELSE {}

Finish(t, r) ==
    /\ flight[t][r] # None
    /\ flight' = [flight EXCEPT ![t][r] = None]
    /\ \E answer \in Outcomes(r, flight[t][r]) :
          LET guards    == memory[t].guards \ {r}
              unwritten == IF r \in Mutations THEN "INDETERMINATE_MUTATION" ELSE answer
          IN  \/ /\ Saved(t, Cached(t, r, answer), guards)
                 /\ Answer(t, r, answer, flight[t][r].waiters)
              \/ /\ NotSaved(t, Cached(t, r, unwritten), guards \cup (Mutations \cap {r}))
                 /\ Answer(t, r, unwritten, flight[t][r].waiters)
    /\ UNCHANGED <<hostVars, taken, invoked, drops>>

\* publish, events.resume and event.ack persist the whole state as well.
PersistForEvents(t) ==
    /\ \/ Saved(t, memory[t].responses, memory[t].guards)
       \/ NotSaved(t, memory[t].responses, memory[t].guards)
    /\ UNCHANGED <<hostVars, wireVars, taken, flight, invoked, drops>>

----------------------------------------------------------------------------
(* Faults.                                                                 *)

Fault == drops > 0 /\ drops' = drops - 1

Dying(t) == IF link[t] = "none" THEN "none" ELSE "closing"

\* The host loses the live socket.
HostDrop ==
    /\ Fault
    /\ live # None
    /\ live' = None
    /\ link' = [link EXCEPT ![live] = Dying(live)]
    /\ toHost' = [toHost EXCEPT ![live] = <<>>]
    /\ UNCHANGED <<hostVars, toTab, pageVars, storageFailures>>

\* The browser loses its socket.
BrowserDrop(t) ==
    /\ Fault
    /\ link[t] \in {"opening", "open"}
    /\ link' = [link EXCEPT ![t] = "closing"]
    /\ UNCHANGED <<hostVars, live, toTab, toHost, pageVars, storageFailures>>

\* stop(): every execution is aborted; start() may follow.
Stop(t) ==
    /\ Fault
    /\ link' = [link EXCEPT ![t] = "none"]
    /\ toTab' = [toTab EXCEPT ![t] = <<>>]
    /\ flight' = [flight EXCEPT ![t] =
                    [r \in Ids |-> IF @[r] = None THEN None ELSE [@[r] EXCEPT !.aborted = TRUE]]]
    /\ UNCHANGED <<hostVars, live, toHost, taken, memory, store, invoked, storageFailures>>

\* The tab is reloaded: the new page knows what localStorage holds.
Reload(t) ==
    /\ Fault
    /\ link' = [link EXCEPT ![t] = "none"]
    /\ toTab' = [toTab EXCEPT ![t] = <<>>]
    /\ taken' = [taken EXCEPT ![t] = None]
    /\ memory' = [memory EXCEPT ![t] = store]
    /\ flight' = [flight EXCEPT ![t] = [r \in Ids |-> None]]
    /\ UNCHANGED <<hostVars, live, toHost, store, invoked, storageFailures>>

\* The host goes and comes back: close() settles every pending call, a crash
\* leaves the callers without an answer.
HostRestart ==
    /\ Fault
    /\ \E crash \in BOOLEAN :
          told' = [r \in Ids |->
                    IF pending[r] = None THEN told[r]
                    ELSE told[r] \cup {IF crash THEN "LOST" ELSE ShutdownVerdict(r, pending[r])}]
    /\ pending' = [r \in Ids |-> None]
    /\ completed' = <<>>
    /\ live' = None
    /\ link' = [t \in Tabs |-> Dying(t)]
    /\ toHost' = [t \in Tabs |-> <<>>]
    /\ UNCHANGED <<calls, toTab, pageVars, storageFailures>>

Next ==
    \/ \E r \in Ids : RequestAgain(r) \/ RequestTooLate(r) \/ Request(r)
    \/ \E r \in Ids : CancelPending(r) \/ CancelUnacknowledged(r)
    \/ ReceiveResponse \/ HostSocketClosed
    \/ \E t \in Tabs : Connect(t) \/ Activate(t) \/ SocketClosed(t)
    \/ \E t \in Tabs : Receive(t) \/ Begin(t) \/ PersistForEvents(t)
    \/ \E t \in Tabs, r \in Ids : Dispatch(t, r) \/ PageDeadline(t, r) \/ Finish(t, r)
    \/ HostDrop \/ HostRestart
    \/ \E t \in Tabs : BrowserDrop(t) \/ Stop(t) \/ Reload(t)

Spec == Init /\ [][Next]_vars

\* The host's timers fire: every call has a deadline of at most 30 s, every
\* cancellation one second to be acknowledged.  Nothing is asked of the page.
Fairness == \A r \in Ids : WF_vars(CancelPending(r)) /\ WF_vars(CancelUnacknowledged(r))

FairSpec == Spec /\ Fairness

----------------------------------------------------------------------------
TypeOK ==
    /\ pending \in [Ids -> Calls \cup {None}]
    /\ completed \in Seq([id : Ids, answer : Answers]) /\ Len(completed) <= MaxCompleted
    /\ live \in Tabs \cup {None} /\ link \in [Tabs -> LinkStates]
    /\ taken \in [Tabs -> Ids \cup {None}]
    /\ \A s \in {memory[t] : t \in Tabs} \cup {store} :
          s.responses \in [Ids -> Answers \cup {None}] /\ s.guards \subseteq Mutations
    /\ \A t \in Tabs, r \in Ids : flight[t][r] = None \/ flight[t][r] \in Flights
    /\ told \in [Ids -> SUBSET Answers] /\ invoked \in [Mutations -> Nat]

\* A mutation is handed to Foundry at most once, whatever is resent, retried
\* under the same id, cancelled, reloaded or restarted.
MutationRunsAtMostOnce == \A r \in Mutations : invoked[r] <= 1

\* A mutation that was handed to Foundry is remembered on disk, by its guard or
\* by its response: the memory that a reload needs to refuse it is never lost.
InvokedIsRemembered ==
    \A r \in Mutations :
        invoked[r] > 0 => r \in store.guards \/ store.responses[r] # None

\* The callers of a mutation are not lied to: they are never all told that it did
\* not run when it did (a cancelled, late or undispatched verdict stays true), and
\* success is reported only for one that was handed to Foundry.
HonestVerdict ==
    \A r \in Mutations :
        /\ invoked[r] > 0 => pending[r] # None \/ told[r] \cap MayHaveRun # {}
        /\ "ok" \in told[r] => invoked[r] > 0

\* A mutation as its callers see it: somebody waits while its call is pending.
Service(m) ==
    INSTANCE Mutation WITH
        MayYetRun <- {"INDETERMINATE_MUTATION", "LOST"},
        asked <- pending[m] # None, runs <- invoked[m], told <- told[m]

\* Host, sockets and page together keep every promise of Mutation.
CompanionServes ==
    /\ \A m \in Mutations : Service(m)!Init
    /\ [][\A m \in Mutations : Service(m)!Step]_vars

\* The state of the two sides: its types, and the memory of what was done.
RequestsInv == TypeOK /\ InvokedIsRemembered

\* Every call is settled, whatever happens to the page and its sockets.
EveryCallSettled == \A r \in Ids : pending[r] # None ~> pending[r] = None
=============================================================================
