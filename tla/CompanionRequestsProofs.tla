---------------------- MODULE CompanionRequestsProofs ----------------------
(***************************************************************************)
(* Proofs about module CompanionRequests for one browser tab: a mutation   *)
(* is handed to Foundry at most once and is remembered on disk from the    *)
(* moment it is, and what the callers of a mutation are told is honest.    *)
(* Together they implement module Mutation, which promises no less.        *)
(***************************************************************************)
EXTENDS CompanionRequests, FiniteSetTheorems, SequenceTheorems, TLAPS

States == [responses : [Ids -> Answers \cup {None}], guards : SUBSET Mutations]

PageTypeOK ==
    /\ taken \in [Tabs -> Ids \cup {None}]
    /\ memory \in [Tabs -> States]
    /\ store \in States
    /\ flight \in [Tabs -> [Ids -> Flights \cup {None}]]
    /\ invoked \in [Mutations -> Nat]

Remembers(s, r) == r \in s.guards \/ s.responses[r] # None

\* An execution is covered by its guard, on disk and in memory, and has not
\* called handleRequest before it runs.
Guarded ==
    \A t \in Tabs, r \in Mutations :
        flight[t][r] # None =>
            /\ r \in store.guards
            /\ r \in memory[t].guards
            /\ ~flight[t][r].running => invoked[r] = 0

\* The inductive invariant: what was invoked is remembered on disk and by the
\* page, so that no fresh execution of it is ever launched.
RequestInv ==
    /\ PageTypeOK
    /\ MutationRunsAtMostOnce
    /\ InvokedIsRemembered
    /\ \A t \in Tabs, r \in Mutations : invoked[r] > 0 => Remembers(memory[t], r)
    /\ Guarded

----------------------------------------------------------------------------
(* A write to localStorage, whatever it evicts, keeps what a page remembers *)
(* of mutations: the page and the disk both hold the guards and responses   *)
(* written.                                                                 *)
LEMMA EvictedKeepsMutations ==
    ASSUME NEW responses \in [Ids -> Answers \cup {None}],
           NEW kept \in Evicted(responses)
    PROVE  /\ kept \in [Ids -> Answers \cup {None}]
           /\ \A r \in Mutations : kept[r] = responses[r]
<1>1. PICK gone \in SUBSET {r \in Ids \ Mutations : responses[r] # None} :
          kept = [r \in Ids |-> IF r \in gone THEN None ELSE responses[r]]
    BY DEF Evicted
<1> QED BY <1>1, RequestsAssumption

LEMMA SavedEffect ==
    ASSUME NEW tab \in Tabs,
           NEW responses \in [Ids -> Answers \cup {None}],
           NEW guards \in SUBSET Mutations,
           memory \in [Tabs -> States],
           Saved(tab, responses, guards)
    PROVE  /\ memory' \in [Tabs -> States] /\ store' \in States
           /\ memory'[tab] = store' /\ store'.guards = guards
           /\ \A r \in Mutations : store'.responses[r] = responses[r]
<1>1. PICK kept \in Evicted(responses) :
          /\ store' = [responses |-> kept, guards |-> guards]
          /\ memory' = [memory EXCEPT ![tab] = store']
    BY DEF Saved
<1>2. /\ kept \in [Ids -> Answers \cup {None}]
      /\ \A r \in Mutations : kept[r] = responses[r]
    BY <1>1, EvictedKeepsMutations
<1>3. store' \in States
    BY <1>1, <1>2 DEF States
<1> QED BY <1>1, <1>2, <1>3

LEMMA NotSavedEffect ==
    ASSUME NEW tab \in Tabs,
           NEW responses \in [Ids -> Answers \cup {None}],
           NEW guards \in SUBSET Mutations,
           memory \in [Tabs -> States],
           NotSaved(tab, responses, guards)
    PROVE  /\ memory' \in [Tabs -> States] /\ store' = store
           /\ memory'[tab].guards = guards
           /\ \A r \in Mutations : memory'[tab].responses[r] = responses[r]
<1>1. PICK kept \in Evicted(responses) :
          /\ memory' = [memory EXCEPT ![tab] = [responses |-> kept, guards |-> guards]]
          /\ store' = store
    BY DEF NotSaved
<1>2. /\ kept \in [Ids -> Answers \cup {None}]
      /\ \A r \in Mutations : kept[r] = responses[r]
    BY <1>1, EvictedKeepsMutations
<1>3. [responses |-> kept, guards |-> guards] \in States
    BY <1>2 DEF States
<1> QED BY <1>1, <1>2, <1>3

----------------------------------------------------------------------------
(* Steps that leave the page alone.                                        *)
LEMMA HostStep ==
    ASSUME RequestInv, UNCHANGED <<memory, store, flight, invoked>>,
           taken' \in [Tabs -> Ids \cup {None}]
    PROVE  RequestInv'
BY DEF RequestInv, PageTypeOK, MutationRunsAtMostOnce, InvokedIsRemembered, Guarded, Remembers

(* A new value for one entry of the in-flight table.                       *)
LEMMA FlightEntry ==
    ASSUME NEW tab \in Tabs, NEW id \in Ids, NEW f \in Flights \cup {None}, PageTypeOK,
           flight' = [flight EXCEPT ![tab][id] = f]
    PROVE  /\ flight' \in [Tabs -> [Ids -> Flights \cup {None}]]
           /\ flight'[tab][id] = f
           /\ \A r \in Ids \ {id} : flight'[tab][r] = flight[tab][r]
BY DEF PageTypeOK

(* An abort or a start of an execution keeps it a record of the table.     *)
LEMMA FlightChange ==
    ASSUME NEW tab \in Tabs, NEW id \in Ids, PageTypeOK, flight[tab][id] # None
    PROVE  /\ [flight[tab][id] EXCEPT !.aborted = TRUE] \in Flights
           /\ [flight[tab][id] EXCEPT !.aborted = TRUE].running = flight[tab][id].running
           /\ [flight[tab][id] EXCEPT !.running = TRUE] \in Flights
           /\ [flight[tab][id] EXCEPT !.running = TRUE].running
<1>1. flight[tab][id] \in Flights
    BY DEF PageTypeOK
<1> QED BY <1>1 DEF Flights

(* Steps that save what a page remembers, having launched nothing, forgotten *)
(* nothing and called nothing: the written guards and responses remember     *)
(* every mutation that was invoked, and cover every execution.               *)
LEMMA WriteStep ==
    ASSUME NEW tab \in Tabs, Tabs = {tab}, RequestInv,
           NEW responses \in [Ids -> Answers \cup {None}],
           NEW guards \in SUBSET Mutations,
           Saved(tab, responses, guards) \/ NotSaved(tab, responses, guards),
           \A r \in Mutations : invoked[r] > 0 => r \in guards \/ responses[r] # None,
           \A r \in Mutations : flight'[tab][r] # None =>
               /\ r \in guards
               /\ r \in store.guards \/ Saved(tab, responses, guards)
               /\ ~flight'[tab][r].running => invoked[r] = 0,
           taken' \in [Tabs -> Ids \cup {None}],
           flight' \in [Tabs -> [Ids -> Flights \cup {None}]],
           invoked' = invoked
    PROVE  RequestInv'
<1>1. PageTypeOK /\ MutationRunsAtMostOnce /\ InvokedIsRemembered
    BY DEF RequestInv
<1>2. CASE Saved(tab, responses, guards)
    <2>1. /\ memory' \in [Tabs -> States] /\ store' \in States
          /\ memory'[tab] = store' /\ store'.guards = guards
          /\ \A r \in Mutations : store'.responses[r] = responses[r]
        BY <1>1, <1>2, SavedEffect DEF PageTypeOK
    <2> QED BY <1>1, <2>1 DEF RequestInv, PageTypeOK, MutationRunsAtMostOnce,
                InvokedIsRemembered, Guarded, Remembers
<1>3. CASE NotSaved(tab, responses, guards) /\ ~Saved(tab, responses, guards)
    <2>1. /\ memory' \in [Tabs -> States] /\ store' = store
          /\ memory'[tab].guards = guards
          /\ \A r \in Mutations : memory'[tab].responses[r] = responses[r]
        BY <1>1, <1>3, NotSavedEffect DEF PageTypeOK
    <2> QED BY <1>1, <1>3, <2>1 DEF RequestInv, PageTypeOK, MutationRunsAtMostOnce,
                InvokedIsRemembered, Guarded, Remembers
<1> QED BY <1>2, <1>3

----------------------------------------------------------------------------
(* #beginRequest, branch by branch.                                        *)
LEMMA BeginStep ==
    ASSUME NEW tab \in Tabs, Tabs = {tab}, RequestInv, Begin(tab)
    PROVE  RequestInv'
<1> DEFINE id == taken[tab]
<1>0. /\ PageTypeOK /\ MutationRunsAtMostOnce /\ InvokedIsRemembered /\ Guarded
      /\ \A r \in Mutations : invoked[r] > 0 => Remembers(memory[tab], r)
    BY DEF RequestInv
<1>1. /\ id \in Ids /\ taken' \in [Tabs -> Ids \cup {None}] /\ invoked' = invoked
      /\ memory[tab].responses \in [Ids -> Answers \cup {None}]
      /\ memory[tab].guards \in SUBSET Mutations
    BY <1>0 DEF Begin, PageTypeOK, States
<1>2. CASE BeginCached(tab, id)
    BY <1>1, <1>2, HostStep DEF BeginCached
<1>3. CASE BeginJoined(tab, id)
    <2>1. /\ UNCHANGED <<memory, store>>
          /\ flight' = [flight EXCEPT ![tab][id].waiters = @ + 1]
          /\ flight[tab][id] \in Flights
        BY <1>0, <1>1, <1>3 DEF BeginJoined, PageTypeOK
    <2>2. /\ flight' \in [Tabs -> [Ids -> Flights \cup {None}]]
          /\ flight'[tab][id].running = flight[tab][id].running
          /\ \A r \in Ids \ {id} : flight'[tab][r] = flight[tab][r]
        BY <1>0, <1>1, <2>1 DEF Flights, PageTypeOK
    <2>3. flight[tab][id] # None
        BY <1>3 DEF BeginJoined
    <2>4. Guarded'
        BY <1>0, <1>1, <2>1, <2>2, <2>3, RequestsAssumption DEF Guarded
    <2> QED BY <1>0, <1>1, <2>1, <2>2, <2>4 DEF RequestInv, PageTypeOK,
                MutationRunsAtMostOnce, InvokedIsRemembered, Remembers
<1>4. CASE BeginRecovered(tab, id)
    <2> DEFINE responses == Cached(tab, id, "INDETERMINATE_MUTATION")
               guards == memory[tab].guards
    <2>1. /\ Saved(tab, responses, guards \ {id}) \/ NotSaved(tab, responses, guards)
          /\ flight' = flight /\ flight[tab][id] = None
        BY <1>4 DEF BeginRecovered
    <2>2. /\ responses \in [Ids -> Answers \cup {None}]
          /\ responses[id] # None
          /\ \A r \in Ids \ {id} : responses[r] = memory[tab].responses[r]
        BY <1>1, RequestsAssumption DEF Cached, Answers, MayHaveRun
    <2>3. /\ guards \in SUBSET Mutations /\ guards \ {id} \in SUBSET Mutations
          /\ flight' \in [Tabs -> [Ids -> Flights \cup {None}]]
        BY <1>0, <1>1, <2>1 DEF PageTypeOK
    <2>4. \A r \in Mutations : invoked[r] > 0 => r \in guards \ {id} \/ responses[r] # None
        BY <1>0, <2>2, RequestsAssumption DEF Remembers
    <2>5. \A r \in Mutations : flight'[tab][r] # None =>
              r \in guards \ {id} /\ r \in store.guards
              /\ (~flight'[tab][r].running => invoked[r] = 0)
        BY <1>0, <2>1 DEF Guarded
    <2> HIDE DEF responses, guards
    <2>6. CASE Saved(tab, responses, guards \ {id})
        BY <1>1, <2>2, <2>3, <2>4, <2>5, <2>6, WriteStep
    <2>7. CASE NotSaved(tab, responses, guards)
        BY <1>1, <2>2, <2>3, <2>4, <2>5, <2>7, WriteStep
    <2> QED BY <2>1, <2>6, <2>7
<1>5. CASE BeginFresh(tab, id)
    <2>1. /\ memory[tab].responses[id] = None /\ id \notin memory[tab].guards
          /\ Launch(tab, id)
        BY <1>5 DEF BeginFresh, Fresh, Recovered
    <2>2. PICK late \in BOOLEAN :
              flight' = [flight EXCEPT ![tab][id] =
                            [running |-> FALSE, aborted |-> late, waiters |-> 1]]
        BY <2>1 DEF Launch
    <2>3. /\ flight' \in [Tabs -> [Ids -> Flights \cup {None}]]
          /\ \A r \in Ids \ {id} : flight'[tab][r] = flight[tab][r]
        BY <1>0, <1>1, <2>2 DEF Flights, PageTypeOK
    <2>4. CASE id \in Mutations
        <3> DEFINE responses == memory[tab].responses
                   guards == memory[tab].guards \cup {id}
        <3>1. Saved(tab, responses, guards)
            BY <1>5, <2>4 DEF BeginFresh
        <3>2. /\ responses \in [Ids -> Answers \cup {None}]
              /\ guards \in SUBSET Mutations
            BY <1>1, <2>4
        <3>3. \A r \in Mutations : invoked[r] > 0 => r \in guards \/ responses[r] # None
            BY <1>0 DEF Remembers
        <3>4. invoked[id] = 0
            BY <1>0, <2>1, <2>4 DEF Remembers, PageTypeOK
        <3>5. \A r \in Mutations : flight'[tab][r] # None =>
                  r \in guards /\ (~flight'[tab][r].running => invoked[r] = 0)
            BY <1>0, <2>3, <3>4, RequestsAssumption DEF Guarded
        <3> HIDE DEF responses, guards
        <3> QED BY <1>1, <2>3, <3>1, <3>2, <3>3, <3>5, WriteStep
    <2>5. CASE id \notin Mutations
        <3>1. UNCHANGED <<memory, store>>
            BY <1>5, <2>5 DEF BeginFresh
        <3>2. \A r \in Mutations : flight'[tab][r] = flight[tab][r]
            BY <2>3, <2>5, RequestsAssumption
        <3> QED BY <1>0, <1>1, <2>3, <3>1, <3>2 DEF RequestInv, PageTypeOK,
                MutationRunsAtMostOnce, InvokedIsRemembered, Guarded, Remembers
    <2> QED BY <2>4, <2>5
<1>6. CASE BeginUnguarded(tab, id)
    <2> DEFINE responses == memory[tab].responses
               guards == memory[tab].guards
    <2>1. NotSaved(tab, responses, guards) /\ flight' = flight
        BY <1>6 DEF BeginUnguarded
    <2>2. /\ responses \in [Ids -> Answers \cup {None}]
          /\ guards \in SUBSET Mutations
          /\ flight' \in [Tabs -> [Ids -> Flights \cup {None}]]
        BY <1>0, <1>1, <2>1 DEF PageTypeOK
    <2>3. \A r \in Mutations : invoked[r] > 0 => r \in guards \/ responses[r] # None
        BY <1>0 DEF Remembers
    <2>4. \A r \in Mutations : flight'[tab][r] # None =>
              r \in guards /\ r \in store.guards
              /\ (~flight'[tab][r].running => invoked[r] = 0)
        BY <1>0, <2>1 DEF Guarded
    <2> HIDE DEF responses, guards
    <2> QED BY <1>1, <2>1, <2>2, <2>3, <2>4, WriteStep
<1> QED BY <1>2, <1>3, <1>4, <1>5, <1>6 DEF Begin

(* The end of an execution: the response replaces the guard, on disk or, if *)
(* the disk refuses it, both stay.                                          *)
LEMMA FinishStep ==
    ASSUME NEW tab \in Tabs, Tabs = {tab}, NEW id \in Ids, RequestInv, Finish(tab, id)
    PROVE  RequestInv'
<1>0. /\ PageTypeOK /\ Guarded
      /\ \A r \in Mutations : invoked[r] > 0 => Remembers(memory[tab], r)
    BY DEF RequestInv
<1>1. PICK answer \in Outcomes(id, flight[tab][id]) :
          LET guards    == memory[tab].guards \ {id}
              unwritten == IF id \in Mutations THEN "INDETERMINATE_MUTATION" ELSE answer
          IN  \/ Saved(tab, Cached(tab, id, answer), guards)
              \/ NotSaved(tab, Cached(tab, id, unwritten), guards \cup (Mutations \cap {id}))
    BY DEF Finish
<1>2. PICK final \in Answers, guards \in SUBSET Mutations :
          /\ guards = memory[tab].guards \ {id} \/ guards = (memory[tab].guards \ {id}) \cup (Mutations \cap {id})
          /\ Saved(tab, Cached(tab, id, final), guards) \/ NotSaved(tab, Cached(tab, id, final), guards)
    <2>1. answer \in Answers /\ "INDETERMINATE_MUTATION" \in Answers
        BY DEF Outcomes, Answers, MayHaveRun, NeverRan
    <2>2. /\ memory[tab].guards \ {id} \in SUBSET Mutations
          /\ (memory[tab].guards \ {id}) \cup (Mutations \cap {id}) \in SUBSET Mutations
        BY <1>0 DEF PageTypeOK, States
    <2> QED BY <1>1, <2>1, <2>2
<1>3. /\ flight' = [flight EXCEPT ![tab][id] = None]
      /\ taken' = taken /\ invoked' = invoked
    BY DEF Finish
<1>4. /\ flight' \in [Tabs -> [Ids -> Flights \cup {None}]]
      /\ flight'[tab][id] = None
      /\ \A r \in Ids \ {id} : flight'[tab][r] = flight[tab][r]
    BY <1>0, <1>3 DEF PageTypeOK
<1> DEFINE responses == Cached(tab, id, final)
<1>5. /\ responses \in [Ids -> Answers \cup {None}]
      /\ responses[id] # None
      /\ \A r \in Ids \ {id} : responses[r] = memory[tab].responses[r]
    BY <1>0, RequestsAssumption DEF Cached, PageTypeOK, States
<1>6. \A r \in Mutations : invoked[r] > 0 => r \in guards \/ responses[r] # None
    BY <1>0, <1>2, <1>5, RequestsAssumption DEF Remembers
<1>7. \A r \in Mutations : flight'[tab][r] # None =>
          r \in guards /\ r \in store.guards /\ (~flight'[tab][r].running => invoked[r] = 0)
    BY <1>0, <1>2, <1>4, RequestsAssumption DEF Guarded
<1>8. Saved(tab, responses, guards) \/ NotSaved(tab, responses, guards)
    BY <1>2
<1>9. taken' \in [Tabs -> Ids \cup {None}]
    BY <1>0, <1>3 DEF PageTypeOK
<1> HIDE DEF responses
<1> QED BY <1>3, <1>4, <1>5, <1>6, <1>7, <1>8, <1>9, WriteStep

----------------------------------------------------------------------------
LEMMA RequestInitInv == Init => RequestInv
<1> SUFFICES ASSUME Init PROVE RequestInv
    OBVIOUS
<1>1. EmptyState \in States
    BY DEF EmptyState, NoAnswers, States
<1>2. PageTypeOK
    BY <1>1 DEF Init, PageTypeOK
<1>3. /\ \A r \in Mutations : invoked[r] = 0
      /\ \A t \in Tabs, r \in Mutations : flight[t][r] = None
    BY RequestsAssumption DEF Init
<1> QED BY <1>2, <1>3 DEF RequestInv, MutationRunsAtMostOnce, InvokedIsRemembered, Guarded

(* Every step of the protocol preserves the invariant, with one tab.       *)
LEMMA RequestStep ==
    ASSUME NEW tab \in Tabs, Tabs = {tab}, RequestInv, [Next]_vars
    PROVE  RequestInv'
<1>0. /\ PageTypeOK /\ MutationRunsAtMostOnce /\ InvokedIsRemembered /\ Guarded
      /\ \A r \in Mutations : invoked[r] > 0 => Remembers(memory[tab], r)
    BY DEF RequestInv
<1>1. CASE UNCHANGED pageVars
    BY <1>0, <1>1, HostStep DEF pageVars, PageTypeOK
<1>2. CASE UNCHANGED vars
    BY <1>1, <1>2 DEF vars
<1>3. ASSUME NEW r \in Ids,
             \/ RequestAgain(r) \/ RequestTooLate(r) \/ Request(r)
             \/ CancelPending(r) \/ CancelUnacknowledged(r)
      PROVE  RequestInv'
    BY <1>1, <1>3 DEF RequestAgain, RequestTooLate, Request, CancelPending, CancelUnacknowledged
<1>4. CASE ReceiveResponse \/ HostSocketClosed \/ HostDrop \/ HostRestart
    BY <1>1, <1>4 DEF ReceiveResponse, HostSocketClosed, HostDrop, HostRestart
<1>5. CASE Connect(tab) \/ Activate(tab) \/ SocketClosed(tab) \/ BrowserDrop(tab)
    BY <1>1, <1>5 DEF Connect, Activate, SocketClosed, BrowserDrop
<1>6. ASSUME NEW id \in Ids, UNCHANGED <<memory, store, invoked>>,
             taken' \in [Tabs -> Ids \cup {None}],
             flight[tab][id] # None,
             flight' = [flight EXCEPT ![tab][id].aborted = TRUE]
      PROVE  RequestInv'
    <2> DEFINE f == [flight[tab][id] EXCEPT !.aborted = TRUE]
    <2>0. f \in Flights /\ f.running = flight[tab][id].running
        BY <1>0, <1>6, FlightChange
    <2>1. /\ flight' \in [Tabs -> [Ids -> Flights \cup {None}]]
          /\ flight'[tab][id].running = flight[tab][id].running
          /\ \A r \in Ids \ {id} : flight'[tab][r] = flight[tab][r]
        <3>1. flight' = [flight EXCEPT ![tab][id] = f]
            BY <1>6
        <3> HIDE DEF f
        <3> QED BY <1>0, <2>0, <3>1, FlightEntry
    <2>2. Guarded'
        BY <1>0, <1>6, <2>1, RequestsAssumption DEF Guarded
    <2> QED BY <1>0, <1>6, <2>1, <2>2 DEF RequestInv, PageTypeOK,
                MutationRunsAtMostOnce, InvokedIsRemembered, Remembers
<1>7. CASE Receive(tab)
    <2>1. UNCHANGED <<memory, store, invoked>>
        BY <1>7 DEF Receive
    <2>2. PICK r \in Ids :
              \/ taken' = [taken EXCEPT ![tab] = r] /\ UNCHANGED flight
              \/ /\ flight' = IF flight[tab][r] = None THEN flight
                              ELSE [flight EXCEPT ![tab][r].aborted = TRUE]
                 /\ UNCHANGED taken
        BY <1>7 DEF Receive
    <2>3. taken' \in [Tabs -> Ids \cup {None}]
        BY <1>0, <2>2 DEF PageTypeOK
    <2>4. CASE UNCHANGED flight
        BY <2>1, <2>3, <2>4, HostStep
    <2>5. CASE flight[tab][r] # None /\ flight' = [flight EXCEPT ![tab][r].aborted = TRUE]
        BY <1>6, <2>1, <2>3, <2>5
    <2> QED BY <2>2, <2>4, <2>5
<1>8. CASE PersistForEvents(tab)
    <2> DEFINE responses == memory[tab].responses
               guards == memory[tab].guards
    <2>1. /\ Saved(tab, responses, guards) \/ NotSaved(tab, responses, guards)
          /\ flight' = flight /\ invoked' = invoked /\ taken' = taken
        BY <1>8 DEF PersistForEvents
    <2>2. /\ responses \in [Ids -> Answers \cup {None}] /\ guards \in SUBSET Mutations
          /\ flight' \in [Tabs -> [Ids -> Flights \cup {None}]]
          /\ taken' \in [Tabs -> Ids \cup {None}]
        BY <1>0, <2>1 DEF PageTypeOK, States
    <2>3. \A r \in Mutations : invoked[r] > 0 => r \in guards \/ responses[r] # None
        BY <1>0 DEF Remembers
    <2>4. \A r \in Mutations : flight'[tab][r] # None =>
              r \in guards /\ r \in store.guards
              /\ (~flight'[tab][r].running => invoked[r] = 0)
        BY <1>0, <2>1 DEF Guarded
    <2> HIDE DEF responses, guards
    <2> QED BY <2>1, <2>2, <2>3, <2>4, WriteStep
<1>9. ASSUME NEW id \in Ids, Dispatch(tab, id)
      PROVE  RequestInv'
    <2>1. /\ flight[tab][id] # None /\ ~flight[tab][id].running
          /\ flight' = [flight EXCEPT ![tab][id].running = TRUE]
          /\ invoked' = IF id \in Mutations THEN [invoked EXCEPT ![id] = @ + 1] ELSE invoked
          /\ UNCHANGED <<taken, memory, store>>
        BY <1>9 DEF Dispatch
    <2>2. /\ flight' \in [Tabs -> [Ids -> Flights \cup {None}]]
          /\ flight'[tab][id].running
          /\ \A r \in Ids \ {id} : flight'[tab][r] = flight[tab][r]
        <3> DEFINE f == [flight[tab][id] EXCEPT !.running = TRUE]
        <3>1. f \in Flights /\ f.running /\ flight' = [flight EXCEPT ![tab][id] = f]
            BY <1>0, <2>1, FlightChange
        <3> HIDE DEF f
        <3> QED BY <1>0, <3>1, FlightEntry
    <2>3. /\ id \in Mutations => invoked[id] = 0 /\ id \in store.guards /\ id \in memory[tab].guards
        BY <1>0, <2>1 DEF Guarded
    <2>4. /\ invoked' \in [Mutations -> Nat]
          /\ \A r \in Mutations \ {id} : invoked'[r] = invoked[r]
          /\ id \in Mutations => invoked'[id] = 1
        BY <1>0, <2>1, <2>3 DEF PageTypeOK
    <2>5. Guarded'
        BY <1>0, <2>1, <2>2, <2>3, <2>4, RequestsAssumption DEF Guarded
    <2>6. MutationRunsAtMostOnce'
        BY <1>0, <2>4 DEF MutationRunsAtMostOnce
    <2> QED BY <1>0, <2>1, <2>2, <2>3, <2>4, <2>5, <2>6
            DEF RequestInv, PageTypeOK, InvokedIsRemembered, Remembers
<1>10. ASSUME NEW id \in Ids, PageDeadline(tab, id)
       PROVE  RequestInv'
    <2>1. /\ flight[tab][id] # None
          /\ flight' = [flight EXCEPT ![tab][id].aborted = TRUE]
          /\ UNCHANGED <<taken, memory, store, invoked>>
        BY <1>10 DEF PageDeadline
    <2>2. taken' \in [Tabs -> Ids \cup {None}]
        BY <1>0, <2>1 DEF PageTypeOK
    <2> QED BY <1>6, <2>1, <2>2
<1>11. CASE Stop(tab)
    <2>1. /\ UNCHANGED <<taken, memory, store, invoked>>
          /\ flight' = [flight EXCEPT ![tab] =
                [r \in Ids |-> IF flight[tab][r] = None THEN None
                               ELSE [flight[tab][r] EXCEPT !.aborted = TRUE]]]
        BY <1>11 DEF Stop
    <2>2. /\ flight' \in [Tabs -> [Ids -> Flights \cup {None}]]
          /\ \A r \in Ids : flight'[tab][r] # None =>
                 flight[tab][r] # None /\ flight'[tab][r].running = flight[tab][r].running
        <3> DEFINE stopped == [r \in Ids |-> IF flight[tab][r] = None THEN None
                                  ELSE [flight[tab][r] EXCEPT !.aborted = TRUE]]
        <3>1. ASSUME NEW r \in Ids
              PROVE  /\ stopped[r] \in Flights \cup {None}
                     /\ stopped[r] # None =>
                            flight[tab][r] # None /\ stopped[r].running = flight[tab][r].running
            <4>1. flight[tab][r] \in Flights \cup {None}
                BY <1>0 DEF PageTypeOK
            <4>2. CASE flight[tab][r] = None
                BY <4>2
            <4>3. CASE flight[tab][r] # None
                BY <4>1, <4>3 DEF Flights
            <4> QED BY <4>2, <4>3
        <3>2. stopped \in [Ids -> Flights \cup {None}]
            BY <3>1
        <3>3. flight' = [flight EXCEPT ![tab] = stopped]
            BY <2>1
        <3> HIDE DEF stopped
        <3> QED BY <1>0, <3>1, <3>2, <3>3 DEF PageTypeOK
    <2>3. Guarded'
        BY <1>0, <2>1, <2>2, RequestsAssumption DEF Guarded
    <2> QED BY <1>0, <2>1, <2>2, <2>3 DEF RequestInv, PageTypeOK,
                MutationRunsAtMostOnce, InvokedIsRemembered, Remembers
<1>12. CASE Reload(tab)
    <2>1. /\ UNCHANGED <<store, invoked>>
          /\ memory' = [memory EXCEPT ![tab] = store]
          /\ taken' = [taken EXCEPT ![tab] = None]
          /\ flight' = [flight EXCEPT ![tab] = [r \in Ids |-> None]]
        BY <1>12 DEF Reload
    <2>2. PageTypeOK' /\ memory'[tab] = store /\ \A r \in Ids : flight'[tab][r] = None
        BY <1>0, <2>1 DEF PageTypeOK
    <2> QED BY <1>0, <2>1, <2>2, RequestsAssumption DEF RequestInv,
                MutationRunsAtMostOnce, InvokedIsRemembered, Guarded, Remembers
<1> QED
    BY <1>2, <1>3, <1>4, <1>5, <1>7, <1>8, <1>9, <1>10, <1>11, <1>12, BeginStep, FinishStep
    DEF Next

(* With one tab, the invariant holds in every reachable state.             *)
THEOREM RequestInvariant ==
    ASSUME NEW tab \in Tabs, Tabs = {tab}
    PROVE  Spec => []RequestInv
<1>1. Init => RequestInv
    BY RequestInitInv
<1>2. RequestInv /\ [Next]_vars => RequestInv'
    BY RequestStep
<1> QED BY <1>1, <1>2, PTL DEF Spec

(* With one tab, #beginRequest never hands a mutation to Foundry twice,    *)
(* whatever is resent, retried, cancelled, reloaded, restarted or refused  *)
(* by storage.                                                             *)
THEOREM MutationRunsOnce ==
    ASSUME NEW tab \in Tabs, Tabs = {tab}
    PROVE  Spec => []MutationRunsAtMostOnce
<1>1. RequestInv => MutationRunsAtMostOnce
    BY DEF RequestInv
<1> QED BY <1>1, RequestInvariant, PTL

(* With one tab, a mutation that was handed to Foundry is on disk, as a    *)
(* guard or as a response.                                                 *)
THEOREM InvokedStaysRemembered ==
    ASSUME NEW tab \in Tabs, Tabs = {tab}
    PROVE  Spec => []InvokedIsRemembered
<1>1. RequestInv => InvokedIsRemembered
    BY DEF RequestInv
<1> QED BY <1>1, RequestInvariant, PTL

-----------------------------------------------------------------------------
(* What the callers are told.  A verdict that a mutation did not run can   *)
(* be given while copies of the request are still under way, so the        *)
(* invariant is about where those may be.                                  *)

Frames    == [type : {"request", "request.cancel"}, id : Ids]
Responses == [id : Ids, answer : Answers]
Refusal(r) == [id |-> r, answer |-> "NOT_DISPATCHED"]

(* Of a sequence: it lacks an element, or does not repeat it.              *)
Absent(s, e) == \A i \in 1 .. Len(s) : s[i] # e
AtMostOnce(s, e) == \A i, j \in 1 .. Len(s) : s[i] = e /\ s[j] = e => i = j

(* The answers of an execution that was not cut off.                       *)
Executed == {"ok", "FOUNDRY_ERROR"}

(* A caller was told that it may have run; a call waits that was sent; the *)
(* page has it on disk that it did not and will not run.                   *)
Warned(r) == told[r] \cap MayHaveRun # {}
Out(r) == pending[r] # None /\ pending[r].dispatched
Sealed(t, r) == memory[t].responses[r] \in NeverRan
Doubtful(t, r) == ~Warned(r) /\ ~Sealed(t, r)

(* No copy of the request is on its way to the page or was begun there.    *)
Untried(t, r) ==
    /\ taken[t] # r /\ Absent(toTab[t], RequestFrame(r))
    /\ flight[t][r] = None /\ invoked[r] = 0

PendingTypeOK ==
    /\ pending \in [Ids -> Calls \cup {None}] /\ IsFiniteSet({r \in Ids : pending[r] # None})
    /\ told \in [Ids -> SUBSET Answers] /\ live \in Tabs \cup {None}
    /\ toTab \in [Tabs -> Seq(Frames)] /\ toHost \in [Tabs -> Seq(Responses)]
    /\ completed \in Seq(Responses)

(* The page's memory and the disk: a response stands once it is written,   *)
(* and one that says that the mutation did not run is true and on disk.    *)
PageInv(t, r) ==
    /\ flight[t][r] # None => memory[t].responses[r] = None /\ (flight[t][r].running => invoked[r] > 0)
    /\ store.responses[r] # None => memory[t].responses[r] = store.responses[r]
    /\ Sealed(t, r) => store.responses[r] = memory[t].responses[r] /\ invoked[r] = 0
    /\ memory[t].responses[r] \in Executed => invoked[r] > 0

(* While the callers can still be told that it did not run, a copy of the  *)
(* request that is under way belongs to a call that waits, and a refusal   *)
(* on its way back is the only one, and the end of the only copy.          *)
VerdictInv(t, r) ==
    Doubtful(t, r) =>
        /\ Untried(t, r) \/ Out(r)
        /\ AtMostOnce(toTab[t], RequestFrame(r))
        /\ taken[t] = r => Absent(toTab[t], RequestFrame(r))
        /\ \/ Absent(toHost[t], Refusal(r))
           \/ Out(r) /\ Untried(t, r) /\ AtMostOnce(toHost[t], Refusal(r))

(* Responses that agree with what the page did.                            *)
TrueAnswers == {p \in Responses : p.id \in Mutations /\ p.answer \in Executed => invoked[p.id] > 0}
TrueResponses(t) ==
    {p \in TrueAnswers :
        p.id \in Mutations /\ p.answer \in NeverRan \ {"NOT_DISPATCHED"} => Sealed(t, p.id)}

HonestInv(t) ==
    /\ RequestInv /\ PendingTypeOK
    /\ toHost[t] \in Seq(TrueResponses(t)) /\ completed \in Seq(TrueAnswers)
    /\ \A r \in Mutations :
          PageInv(t, r) /\ VerdictInv(t, r) /\ (told[r] \cap Executed # {} => invoked[r] > 0)

----------------------------------------------------------------------------
(* Sequences.                                                              *)
LEMMA AbsentAppend ==
    ASSUME NEW S, NEW s \in Seq(S), NEW f \in S, NEW e
    PROVE  /\ f # e /\ Absent(s, e) => Absent(Append(s, f), e)
           /\ f # e /\ AtMostOnce(s, e) => AtMostOnce(Append(s, f), e)
           /\ Absent(s, e) => AtMostOnce(Append(s, f), e)
<1>1. /\ Append(s, f) \in Seq(S) /\ Len(Append(s, f)) = Len(s) + 1
      /\ \A i \in 1 .. Len(s) : Append(s, f)[i] = s[i]
      /\ Append(s, f)[Len(s) + 1] = f
  OBVIOUS
<1>2. \A i \in 1 .. Len(s) + 1 : i \in 1 .. Len(s) \/ i = Len(s) + 1
  OBVIOUS
<1> QED
  BY <1>1, <1>2 DEF Absent, AtMostOnce

LEMMA AbsentTail ==
    ASSUME NEW S, NEW s \in Seq(S), s # <<>>, NEW e
    PROVE  /\ Absent(s, e) => Absent(Tail(s), e)
           /\ AtMostOnce(s, e) => AtMostOnce(Tail(s), e)
           /\ AtMostOnce(s, e) /\ Head(s) = e => Absent(Tail(s), e)
           /\ Absent(s, e) => Head(s) # e
<1>1. /\ Len(Tail(s)) = Len(s) - 1 /\ Len(s) \in Nat \ {0}
      /\ \A i \in 1 .. Len(s) - 1 : Tail(s)[i] = s[i + 1]
      /\ Head(s) = s[1]
  OBVIOUS
<1>2. \A i \in 1 .. Len(s) - 1 : i \in Int /\ i + 1 \in 1 .. Len(s) /\ i + 1 # 1
  BY <1>1
<1> QED
  BY <1>1, <1>2 DEF Absent, AtMostOnce

LEMMA AbsentConcat ==
    ASSUME NEW S, NEW s \in Seq(S), NEW p \in S, NEW n \in Nat, NEW e
    PROVE  LET c == [i \in 1 .. n |-> p]
           IN  /\ s \o c \in Seq(S)
               /\ p # e /\ Absent(s, e) => Absent(s \o c, e)
               /\ p # e /\ AtMostOnce(s, e) => AtMostOnce(s \o c, e)
               /\ n = 1 /\ Absent(s, e) => AtMostOnce(s \o c, e)
<1> DEFINE c == [i \in 1 .. n |-> p]
<1>1. c \in Seq(S) /\ Len(c) = n /\ \A i \in 1 .. n : c[i] = p
  OBVIOUS
<1> HIDE DEF c
<1>2. /\ s \o c \in Seq(S) /\ Len(s \o c) = Len(s) + n
      /\ \A i \in 1 .. Len(s) : (s \o c)[i] = s[i]
      /\ \A i \in 1 .. Len(s) + n : i \notin 1 .. Len(s) => i - Len(s) \in 1 .. n /\ (s \o c)[i] = c[i - Len(s)]
  BY <1>1
<1>3. \A i \in 1 .. Len(s) + n : i \in 1 .. Len(s) \/ (s \o c)[i] = p
  BY <1>1, <1>2
<1>4. n = 1 => \A i \in 1 .. Len(s) + n : i \in 1 .. Len(s) \/ i = Len(s) + 1
  OBVIOUS
<1> QED
  BY <1>2, <1>3, <1>4 DEF Absent, AtMostOnce, c

LEMMA AbsentEmpty == \A e : Absent(<<>>, e) /\ AtMostOnce(<<>>, e)
  BY DEF Absent, AtMostOnce

LEMMA FramesDiffer ==
    ASSUME NEW r \in Ids
    PROVE  /\ RequestFrame(r) \in Frames /\ CancelFrame(r) \in Frames
           /\ \A q \in Ids : RequestFrame(q) = RequestFrame(r) => q = r
           /\ \A q \in Ids : CancelFrame(q) # RequestFrame(r)
<1>1. RequestFrame(r).type = "request" /\ \A q \in Ids : CancelFrame(q).type = "request.cancel"
  BY DEF RequestFrame, CancelFrame
<1>2. \A q \in Ids : RequestFrame(q).id = q
  BY DEF RequestFrame
<1> QED
  BY <1>1, <1>2 DEF Frames, RequestFrame, CancelFrame

LEMMA SeqOfMore ==
    ASSUME NEW S, NEW T, S \subseteq T, NEW s \in Seq(S)
    PROVE  s \in Seq(T)
  OBVIOUS

LEMMA ConcatOne ==
    ASSUME NEW S, NEW s \in Seq(S), NEW e \in S
    PROVE  s \o <<e>> = Append(s, e)
  OBVIOUS

----------------------------------------------------------------------------
(* What every step keeps.                                                  *)
Grows(t) ==
    \A r \in Mutations :
        (Sealed(t, r) => Sealed(t, r)') /\ (invoked[r] > 0 => invoked'[r] > 0)

LEMMA TruthStays ==
    ASSUME NEW t \in Tabs, Grows(t)
    PROVE  TrueAnswers \subseteq TrueAnswers' /\ TrueResponses(t) \subseteq TrueResponses(t)'
  BY DEF Grows, TrueAnswers, TrueResponses

(* Frames that disappear, calls that go on and executions that end disturb *)
(* no verdict.                                                             *)
LEMMA VerdictKept ==
    ASSUME NEW t \in Tabs, NEW r \in Mutations, VerdictInv(t, r),
           Doubtful(t, r)' => Doubtful(t, r),
           Doubtful(t, r)' /\ Out(r) => Out(r)',
           Untried(t, r) => Untried(t, r)',
           taken'[t] = r => taken[t] = r,
           Absent(toTab[t], RequestFrame(r)) => Absent(toTab'[t], RequestFrame(r)),
           AtMostOnce(toTab[t], RequestFrame(r)) => AtMostOnce(toTab'[t], RequestFrame(r)),
           Absent(toHost[t], Refusal(r)) => Absent(toHost'[t], Refusal(r)),
           AtMostOnce(toHost[t], Refusal(r)) => AtMostOnce(toHost'[t], Refusal(r))
    PROVE  VerdictInv(t, r)'
<1>1. RequestFrame(r)' = RequestFrame(r) /\ Refusal(r)' = Refusal(r)
  BY DEF RequestFrame, Refusal
<1> QED
  BY <1>1 DEF VerdictInv, Absent, AtMostOnce

(* A step that leaves the page alone.                                      *)
LEMMA PageUntouched ==
    ASSUME NEW t \in Tabs, UNCHANGED pageVars
    PROVE  /\ Grows(t)
           /\ \A r \in Mutations :
                 /\ PageInv(t, r) => PageInv(t, r)'
                 /\ Sealed(t, r)' = Sealed(t, r)
<1>1. UNCHANGED <<taken, memory, store, flight, invoked>>
  BY DEF pageVars
<1> QED
  BY <1>1 DEF Grows, PageInv, Sealed

LEMMA UntriedKept ==
    ASSUME NEW t \in Tabs, NEW r \in Mutations, Untried(t, r),
           UNCHANGED <<taken, flight, invoked>>,
           Absent(toTab[t], RequestFrame(r)) => Absent(toTab'[t], RequestFrame(r))
    PROVE  Untried(t, r)'
<1>1. RequestFrame(r)' = RequestFrame(r)
  BY DEF RequestFrame
<1> QED
  BY <1>1 DEF Untried, Absent

(* A host step that touches no frame.                                      *)
LEMMA QuietStep ==
    ASSUME NEW t \in Tabs, HonestInv(t), RequestInv', PendingTypeOK', UNCHANGED pageVars,
           toTab'[t] \in {toTab[t], <<>>}, toHost'[t] \in {toHost[t], <<>>},
           completed' \in Seq(TrueAnswers'),
           \A r \in Mutations :
              /\ told'[r] \cap Executed # {} => invoked[r] > 0
              /\ told[r] \subseteq told'[r]
              /\ Doubtful(t, r)' /\ Out(r) => Out(r)'
    PROVE  HonestInv(t)'
<1>1. /\ Grows(t)
      /\ \A r \in Mutations : PageInv(t, r)' /\ Sealed(t, r)' = Sealed(t, r)
  BY PageUntouched DEF HonestInv
<1>2. toHost'[t] \in Seq(TrueResponses(t)')
  <2>1. toHost[t] \in Seq(TrueResponses(t)')
    BY <1>1, TruthStays, SeqOfMore DEF HonestInv
  <2>2. <<>> \in Seq(TrueResponses(t)')
    OBVIOUS
  <2> QED
    BY <2>1, <2>2
<1>3. ASSUME NEW r \in Mutations PROVE VerdictInv(t, r)'
  <2>1. Doubtful(t, r)' => Doubtful(t, r)
    BY <1>1 DEF Doubtful, Warned
  <2>2. \A e : /\ Absent(toTab[t], e) => Absent(toTab'[t], e)
               /\ AtMostOnce(toTab[t], e) => AtMostOnce(toTab'[t], e)
               /\ Absent(toHost[t], e) => Absent(toHost'[t], e)
               /\ AtMostOnce(toHost[t], e) => AtMostOnce(toHost'[t], e)
    BY AbsentEmpty
  <2>3. Untried(t, r) => Untried(t, r)'
    BY <2>2, UntriedKept DEF pageVars
  <2>4. taken' = taken
    BY DEF pageVars
  <2> QED
    BY <2>1, <2>2, <2>3, <2>4, VerdictKept DEF HonestInv
<1> QED
  BY <1>1, <1>2, <1>3 DEF HonestInv, pageVars

----------------------------------------------------------------------------
(* The host's request table.                                               *)
LEMMA SentFrame ==
    ASSUME NEW t \in Tabs, Tabs = {t}, PendingTypeOK, NEW f \in Frames, SendLive(f)
    PROVE  /\ toTab' \in [Tabs -> Seq(Frames)]
           /\ \/ toTab'[t] = toTab[t]
              \/ live # None /\ toTab'[t] = Append(toTab[t], f)
<1>1. CASE live = None
  BY <1>1 DEF SendLive, PendingTypeOK
<1>2. CASE live # None
  <2>1. live = t /\ toTab' = [toTab EXCEPT ![t] = Queued(t, <<f>>)]
    BY <1>2 DEF SendLive, PendingTypeOK
  <2>2. toTab[t] \o <<f>> = Append(toTab[t], f) /\ Append(toTab[t], f) \in Seq(Frames)
    BY ConcatOne DEF PendingTypeOK
  <2>3. Queued(t, <<f>>) \in {toTab[t], Append(toTab[t], f)}
    BY <2>2 DEF Queued
  <2> QED
    BY <1>2, <2>1, <2>2, <2>3 DEF PendingTypeOK
<1> QED
  BY <1>1, <1>2

(* What waits: an entry is changed, removed, or added.                     *)
LEMMA PendingFinite ==
    ASSUME PendingTypeOK, NEW q \in Ids, NEW c \in Calls \cup {None},
           pending' = [pending EXCEPT ![q] = c]
    PROVE  /\ pending' \in [Ids -> Calls \cup {None}]
           /\ IsFiniteSet({r \in Ids : pending'[r] # None})
           /\ pending'[q] = c /\ \A r \in Ids \ {q} : pending'[r] = pending[r]
<1> DEFINE old == {r \in Ids : pending[r] # None}
<1>1. IsFiniteSet(old \cup {q})
  BY FS_AddElement DEF PendingTypeOK
<1>2. {r \in Ids : pending'[r] # None} \subseteq old \cup {q}
  BY DEF PendingTypeOK
<1>3. IsFiniteSet({r \in Ids : pending'[r] # None})
  BY <1>1, <1>2, FS_Subset
<1> QED
  BY <1>3 DEF PendingTypeOK

LEMMA RequestHonest ==
    ASSUME NEW t \in Tabs, Tabs = {t}, HonestInv(t), RequestInv', NEW q \in Ids, Request(q)
    PROVE  HonestInv(t)'
<1> DEFINE c == [dispatched |-> live # None, cancelled |-> FALSE]
<1>1. /\ PendingTypeOK /\ pending[q] = None /\ pending' = [pending EXCEPT ![q] = c] /\ c \in Calls
      /\ UNCHANGED <<completed, told, live, toHost>> /\ UNCHANGED pageVars
      /\ SendLive(RequestFrame(q)) /\ RequestFrame(q) \in Frames
  BY FramesDiffer DEF Request, Calls, HonestInv
<1>2. /\ pending' \in [Ids -> Calls \cup {None}]
      /\ IsFiniteSet({r \in Ids : pending'[r] # None})
      /\ pending'[q] = c /\ \A r \in Ids \ {q} : pending'[r] = pending[r]
  BY <1>1, PendingFinite
<1>3. /\ toTab' \in [Tabs -> Seq(Frames)]
      /\ \/ toTab'[t] = toTab[t]
         \/ live # None /\ toTab'[t] = Append(toTab[t], RequestFrame(q))
  BY <1>1, SentFrame
<1>4. PendingTypeOK'
  BY <1>1, <1>2, <1>3 DEF PendingTypeOK
<1>5. /\ Grows(t)
      /\ \A r \in Mutations : PageInv(t, r)' /\ Sealed(t, r)' = Sealed(t, r)
  BY <1>1, PageUntouched DEF HonestInv
<1>6. toHost'[t] \in Seq(TrueResponses(t)') /\ completed' \in Seq(TrueAnswers')
  BY <1>1, <1>5, TruthStays, SeqOfMore DEF HonestInv
<1>7. \A r \in Mutations : r \in Ids /\ Doubtful(t, r)' = Doubtful(t, r)
  BY <1>1, <1>5, RequestsAssumption DEF Doubtful, Warned
<1>8. ASSUME NEW r \in Mutations, r # q PROVE VerdictInv(t, r)'
  <2>1. Out(r)' = Out(r)
    BY <1>2, <1>7, <1>8 DEF Out
  <2>2. RequestFrame(q) # RequestFrame(r)
    BY <1>7, <1>8, FramesDiffer
  <2>3. /\ Absent(toTab[t], RequestFrame(r)) => Absent(toTab'[t], RequestFrame(r))
        /\ AtMostOnce(toTab[t], RequestFrame(r)) => AtMostOnce(toTab'[t], RequestFrame(r))
    <3>1. toTab[t] \in Seq(Frames)
      BY <1>1 DEF PendingTypeOK
    <3>2. LET s == Append(toTab[t], RequestFrame(q))
          IN  /\ Absent(toTab[t], RequestFrame(r)) => Absent(s, RequestFrame(r))
              /\ AtMostOnce(toTab[t], RequestFrame(r)) => AtMostOnce(s, RequestFrame(r))
      BY <1>1, <2>2, <3>1, AbsentAppend
    <3> QED
      BY <1>3, <3>2
  <2>4. Untried(t, r) => Untried(t, r)'
    BY <1>1, <2>3, UntriedKept DEF pageVars
  <2> QED
    BY <1>1, <1>7, <2>1, <2>3, <2>4, VerdictKept DEF HonestInv, pageVars
<1>9. ASSUME q \in Mutations PROVE VerdictInv(t, q)'
  <2>1. SUFFICES ASSUME Doubtful(t, q)' PROVE VerdictInv(t, q)'
    BY DEF VerdictInv
  <2>2. ~Out(q) /\ Untried(t, q) /\ Absent(toHost[t], Refusal(q))
        /\ AtMostOnce(toTab[t], RequestFrame(q))
    BY <1>1, <1>7, <1>9, <2>1 DEF HonestInv, VerdictInv, Out
  <2>3. RequestFrame(q)' = RequestFrame(q) /\ Refusal(q)' = Refusal(q)
    BY DEF RequestFrame, Refusal
  <2>4. CASE toTab'[t] = toTab[t]
    <3>1. Untried(t, q)'
      BY <1>1, <1>9, <2>2, <2>4, UntriedKept DEF pageVars
    <3>2. taken'[t] # q /\ toHost' = toHost
      BY <1>1, <2>2 DEF Untried, pageVars
    <3> QED
      BY <2>2, <2>3, <2>4, <3>1, <3>2 DEF VerdictInv, Absent, AtMostOnce
  <2>5. CASE live # None /\ toTab'[t] = Append(toTab[t], RequestFrame(q))
    <3>1. Out(q)'
      BY <1>1, <1>2, <2>5, RequestsAssumption DEF Out, Calls
    <3>2. AtMostOnce(toTab'[t], RequestFrame(q))
      BY <1>1, <2>2, <2>5, AbsentAppend DEF Untried, PendingTypeOK
    <3>3. taken'[t] # q /\ Absent(toHost'[t], Refusal(q))
      BY <1>1, <2>2 DEF Untried, pageVars
    <3> QED
      BY <2>3, <3>1, <3>2, <3>3 DEF VerdictInv, Absent, AtMostOnce
  <2> QED
    BY <1>3, <2>4, <2>5
<1>10. \A r \in Mutations : told'[r] \cap Executed # {} => invoked'[r] > 0
  BY <1>1 DEF HonestInv, pageVars
<1> QED
  BY <1>4, <1>5, <1>6, <1>8, <1>9, <1>10 DEF HonestInv

(* A cancellation: the call goes on waiting, and a frame says so.          *)
LEMMA CancelHonest ==
    ASSUME NEW t \in Tabs, Tabs = {t}, HonestInv(t), RequestInv', NEW q \in Ids, CancelPending(q)
    PROVE  HonestInv(t)'
<1> DEFINE c == [pending[q] EXCEPT !.cancelled = TRUE]
<1>1. /\ PendingTypeOK /\ pending[q] # None /\ pending' = [pending EXCEPT ![q] = c]
      /\ UNCHANGED <<completed, told, live, toHost>> /\ UNCHANGED pageVars
      /\ SendLive(CancelFrame(q)) /\ CancelFrame(q) \in Frames
  BY FramesDiffer DEF CancelPending, HonestInv
<1>2. c \in Calls /\ c.dispatched = pending[q].dispatched /\ c # None
  <2>1. pending[q] \in Calls
    BY <1>1 DEF PendingTypeOK
  <2>2. c \in Calls /\ c.dispatched = pending[q].dispatched
    BY <2>1 DEF Calls
  <2> QED
    BY <2>2, RequestsAssumption
<1> HIDE DEF c
<1>3. /\ pending' \in [Ids -> Calls \cup {None}]
      /\ IsFiniteSet({r \in Ids : pending'[r] # None})
      /\ pending'[q] = c /\ \A r \in Ids \ {q} : pending'[r] = pending[r]
  BY <1>1, <1>2, PendingFinite
<1>4. /\ toTab' \in [Tabs -> Seq(Frames)]
      /\ toTab'[t] \in {toTab[t], Append(toTab[t], CancelFrame(q))}
  BY <1>1, SentFrame
<1>5. PendingTypeOK'
  BY <1>1, <1>3, <1>4 DEF PendingTypeOK
<1>6. /\ Grows(t)
      /\ \A r \in Mutations : PageInv(t, r)' /\ Sealed(t, r)' = Sealed(t, r)
  BY <1>1, PageUntouched DEF HonestInv
<1>7. toHost'[t] \in Seq(TrueResponses(t)') /\ completed' \in Seq(TrueAnswers')
  BY <1>1, <1>6, TruthStays, SeqOfMore DEF HonestInv
<1>8. ASSUME NEW r \in Mutations PROVE VerdictInv(t, r)'
  <2>1. r \in Ids /\ Doubtful(t, r)' = Doubtful(t, r)
    BY <1>1, <1>6, RequestsAssumption DEF Doubtful, Warned
  <2>2. Out(r) => Out(r)'
    BY <1>2, <1>3, <2>1 DEF Out
  <2>3. toTab[t] \in Seq(Frames) /\ CancelFrame(q) # RequestFrame(r)
    BY <1>1, <2>1, FramesDiffer DEF PendingTypeOK
  <2>4. LET s == Append(toTab[t], CancelFrame(q))
        IN  /\ Absent(toTab[t], RequestFrame(r)) => Absent(s, RequestFrame(r))
            /\ AtMostOnce(toTab[t], RequestFrame(r)) => AtMostOnce(s, RequestFrame(r))
    BY <1>1, <2>3, AbsentAppend
  <2>5. /\ Absent(toTab[t], RequestFrame(r)) => Absent(toTab'[t], RequestFrame(r))
        /\ AtMostOnce(toTab[t], RequestFrame(r)) => AtMostOnce(toTab'[t], RequestFrame(r))
    BY <1>4, <2>4
  <2>6. Untried(t, r) => Untried(t, r)'
    BY <1>1, <2>5, UntriedKept DEF pageVars
  <2> QED
    BY <1>1, <2>1, <2>2, <2>5, <2>6, VerdictKept DEF HonestInv, pageVars
<1>9. \A r \in Mutations : told'[r] \cap Executed # {} => invoked'[r] > 0
  BY <1>1 DEF HonestInv, pageVars
<1> QED
  BY <1>5, <1>6, <1>7, <1>8, <1>9 DEF HonestInv

(* A verdict without an answer: nobody waits any more.                     *)
LEMMA UnacknowledgedHonest ==
    ASSUME NEW t \in Tabs, HonestInv(t), RequestInv', NEW q \in Ids, CancelUnacknowledged(q)
    PROVE  HonestInv(t)'
<1> DEFINE a == CancelVerdict(q, pending[q])
<1>1. /\ PendingTypeOK /\ pending[q] # None /\ pending' = [pending EXCEPT ![q] = None]
      /\ told' = [told EXCEPT ![q] = @ \cup {a}]
      /\ UNCHANGED <<completed, live, toTab, toHost>> /\ UNCHANGED pageVars
  BY DEF CancelUnacknowledged, Unacknowledged, Tell, wireVars, HonestInv
<1>2. /\ a \in {"INDETERMINATE_MUTATION", "CANCELLED"} /\ a \in Answers
      /\ q \in Mutations /\ Out(q) => a \in MayHaveRun
  BY DEF CancelVerdict, Indeterminate, Out, Answers, MayHaveRun, NeverRan
<1> HIDE DEF a
<1>3. /\ pending' \in [Ids -> Calls \cup {None}]
      /\ IsFiniteSet({r \in Ids : pending'[r] # None})
      /\ pending'[q] = None /\ \A r \in Ids \ {q} : pending'[r] = pending[r]
  BY <1>1, PendingFinite
<1>4. /\ told' \in [Ids -> SUBSET Answers] /\ told'[q] = told[q] \cup {a}
      /\ \A r \in Ids \ {q} : told'[r] = told[r]
  BY <1>1, <1>2 DEF PendingTypeOK
<1>5. PendingTypeOK'
  BY <1>1, <1>3, <1>4 DEF PendingTypeOK
<1>6. completed' \in Seq(TrueAnswers')
  BY <1>1, PageUntouched, TruthStays, SeqOfMore DEF HonestInv
<1>7. ASSUME NEW r \in Mutations
      PROVE  /\ told'[r] \cap Executed # {} => invoked[r] > 0
             /\ told[r] \subseteq told'[r]
             /\ Doubtful(t, r)' /\ Out(r) => Out(r)'
  <2>1. r \in Ids
    BY RequestsAssumption
  <2>2. CASE r = q
    BY <1>2, <1>4, <2>1, <2>2 DEF Executed, HonestInv, Doubtful, Warned
  <2>3. CASE r # q
    BY <1>3, <1>4, <2>1, <2>3 DEF HonestInv, Out
  <2> QED
    BY <2>2, <2>3
<1> QED
  BY <1>1, <1>5, <1>6, <1>7, QuietStep

(* A call that is answered at once.                                        *)
LEMMA AtOnceHonest ==
    ASSUME NEW t \in Tabs, HonestInv(t), RequestInv', NEW q \in Ids,
           RequestAgain(q) \/ RequestTooLate(q)
    PROVE  HonestInv(t)'
<1>1. /\ PendingTypeOK
      /\ UNCHANGED <<pending, completed, live, toTab, toHost>> /\ UNCHANGED pageVars
  BY DEF RequestAgain, RequestTooLate, wireVars, HonestInv
<1>2. PICK a \in Answers : Tell(q, a) /\ (q \in Mutations /\ a \in Executed => invoked[q] > 0)
  <2>1. CASE RequestTooLate(q)
    BY <2>1 DEF Executed, RequestTooLate, Answers, NeverRan
  <2>2. CASE RequestAgain(q)
    <3>1. PICK i \in 1 .. Len(completed) : completed[i].id = q /\ Tell(q, completed[i].answer)
      BY <2>2 DEF RequestAgain, CompletedAnswers
    <3>2. completed[i] \in TrueAnswers
      BY DEF HonestInv
    <3> QED
      BY <3>1, <3>2 DEF TrueAnswers, Responses
  <2> QED
    BY <2>1, <2>2
<1>3. /\ told' \in [Ids -> SUBSET Answers] /\ told'[q] = told[q] \cup {a}
      /\ \A r \in Ids \ {q} : told'[r] = told[r]
  BY <1>1, <1>2 DEF PendingTypeOK, Tell
<1>4. PendingTypeOK'
  BY <1>1, <1>3 DEF PendingTypeOK
<1>5. completed' \in Seq(TrueAnswers')
  BY <1>1, PageUntouched, TruthStays, SeqOfMore DEF HonestInv
<1>6. ASSUME NEW r \in Mutations
      PROVE  /\ told'[r] \cap Executed # {} => invoked[r] > 0
             /\ told[r] \subseteq told'[r]
             /\ Doubtful(t, r)' /\ Out(r) => Out(r)'
  BY <1>1, <1>2, <1>3, RequestsAssumption DEF HonestInv, Out
<1> QED
  BY <1>1, <1>4, <1>5, <1>6, QuietStep

(* The completed table keeps true answers.                                 *)
LEMMA NewestIn ==
    ASSUME NEW S, NEW s \in Seq(S), NEW e \in S
    PROVE  Newest(Append(s, e)) \in Seq(S)
<1>1. Append(s, e) \in Seq(S) /\ Append(s, e) # <<>>
  BY AppendProperties
<1>2. Tail(Append(s, e)) \in Seq(S)
  BY <1>1
<1> QED
  BY <1>1, <1>2 DEF Newest

(* A response: if it refuses, it was the end of the only copy; if it says  *)
(* that the mutation was cancelled, the page has that on disk.             *)
LEMMA ReceiveHonest ==
    ASSUME NEW t \in Tabs, Tabs = {t}, HonestInv(t), RequestInv', ReceiveResponse
    PROVE  HonestInv(t)'
<1>1. /\ live = t /\ toHost[t] # <<>> /\ toHost' = [toHost EXCEPT ![t] = Tail(@)]
      /\ UNCHANGED <<live, toTab>> /\ UNCHANGED pageVars /\ PendingTypeOK
  BY DEF ReceiveResponse, HonestInv, PendingTypeOK
<1>2. PICK p \in Responses : p = Head(toHost[t])
  BY <1>1 DEF PendingTypeOK
<1>3. /\ p \in TrueResponses(t) /\ toHost'[t] = Tail(toHost[t])
      /\ toHost'[t] \in Seq(TrueResponses(t)) /\ toHost' \in [Tabs -> Seq(Responses)]
      /\ \A e : /\ Absent(toHost[t], e) => Absent(toHost'[t], e)
                /\ AtMostOnce(toHost[t], e) => AtMostOnce(toHost'[t], e)
                /\ AtMostOnce(toHost[t], e) /\ p = e => Absent(toHost'[t], e)
                /\ Absent(toHost[t], e) => p # e
  <2>1. /\ toHost[t] \in Seq(TrueResponses(t)) /\ toHost[t] \in Seq(Responses)
        /\ toHost'[t] = Tail(toHost[t])
    BY <1>1 DEF HonestInv, PendingTypeOK
  <2>2. /\ p \in TrueResponses(t) /\ Tail(toHost[t]) \in Seq(TrueResponses(t))
        /\ Tail(toHost[t]) \in Seq(Responses)
    BY <1>1, <1>2, <2>1
  <2>3. toHost' \in [Tabs -> Seq(Responses)]
    BY <1>1, <2>2 DEF PendingTypeOK
  <2> QED
    BY <1>1, <1>2, <2>1, <2>2, <2>3, AbsentTail
<1>4. /\ Grows(t)
      /\ \A r \in Mutations : PageInv(t, r)' /\ Sealed(t, r)' = Sealed(t, r)
  BY <1>1, PageUntouched DEF HonestInv
<1>5. toHost'[t] \in Seq(TrueResponses(t)') /\ completed \in Seq(TrueAnswers') /\ p \in TrueAnswers'
  <2>1. p \in TrueAnswers
    BY <1>3 DEF TrueResponses
  <2> QED
    BY <1>3, <1>4, <2>1, TruthStays, SeqOfMore DEF HonestInv
<1>6. p.id \in Ids /\ p.answer \in Answers
  BY <1>3 DEF TrueResponses, TrueAnswers, Responses
<1>7. ASSUME NEW r \in Mutations, told'[r] = told[r], pending'[r] = pending[r]
      PROVE  VerdictInv(t, r)' /\ (told'[r] \cap Executed # {} => invoked'[r] > 0)
  <2>1. Doubtful(t, r)' = Doubtful(t, r) /\ Out(r)' = Out(r)
    BY <1>4, <1>7 DEF Doubtful, Warned, Out
  <2>2. Untried(t, r) => Untried(t, r)'
    BY <1>1, UntriedKept DEF pageVars
  <2>3. VerdictInv(t, r)'
    BY <1>1, <1>3, <2>1, <2>2, VerdictKept DEF HonestInv, pageVars
  <2> QED
    BY <1>1, <1>7, <2>3 DEF HonestInv, pageVars
<1>8. CASE UNCHANGED <<pending, completed, told>>
  <2>1. PendingTypeOK'
    BY <1>1, <1>3, <1>8 DEF PendingTypeOK
  <2> QED
    BY <1>4, <1>5, <1>7, <1>8, <2>1 DEF HonestInv
<1>9. CASE /\ pending' = [pending EXCEPT ![p.id] = None]
           /\ completed' = Newest(Append(completed, p))
           /\ Tell(p.id, p.answer)
  <2>1. /\ pending' \in [Ids -> Calls \cup {None}]
        /\ IsFiniteSet({r \in Ids : pending'[r] # None})
        /\ \A r \in Ids \ {p.id} : pending'[r] = pending[r]
    BY <1>1, <1>6, <1>9, PendingFinite
  <2>2. /\ told' \in [Ids -> SUBSET Answers] /\ told'[p.id] = told[p.id] \cup {p.answer}
        /\ \A r \in Ids \ {p.id} : told'[r] = told[r]
    BY <1>1, <1>6, <1>9 DEF PendingTypeOK, Tell
  <2>3. completed' \in Seq(TrueAnswers')
    BY <1>5, <1>9, NewestIn
  <2>4. TrueAnswers' \subseteq Responses
    BY DEF TrueAnswers
  <2>5. PendingTypeOK'
    BY <1>1, <1>3, <2>1, <2>2, <2>3, <2>4, SeqOfMore DEF PendingTypeOK
  <2>6. ASSUME NEW r \in Mutations, r # p.id
        PROVE  VerdictInv(t, r)' /\ (told'[r] \cap Executed # {} => invoked'[r] > 0)
    <3>1. r \in Ids \ {p.id}
      BY <2>6, RequestsAssumption
    <3> QED
      BY <1>7, <2>1, <2>2, <3>1
  <2>7. ASSUME p.id \in Mutations
        PROVE  VerdictInv(t, p.id)' /\ (told'[p.id] \cap Executed # {} => invoked'[p.id] > 0)
    <3>1. PICK r \in Mutations : r = p.id
      BY <2>7
    <3>2. told'[r] \cap Executed # {} => invoked'[r] > 0
      BY <1>1, <1>3, <2>2, <3>1 DEF HonestInv, TrueResponses, TrueAnswers, pageVars
    <3>3. SUFFICES ASSUME Doubtful(t, r)' PROVE VerdictInv(t, r)'
      BY <3>1, <3>2 DEF VerdictInv
    <3>4. Doubtful(t, r) /\ p.answer \notin MayHaveRun
      BY <1>4, <2>2, <3>1, <3>3 DEF Doubtful, Warned
    <3>5. p.answer = "NOT_DISPATCHED"
      BY <1>3, <1>6, <3>1, <3>4 DEF TrueResponses, Answers, Doubtful
    <3>6. p = Refusal(r)
      BY <1>3, <3>1, <3>5 DEF Refusal, TrueResponses, TrueAnswers, Responses
    <3>7. Untried(t, r) /\ AtMostOnce(toHost[t], Refusal(r)) /\ AtMostOnce(toTab[t], RequestFrame(r))
      BY <1>3, <3>4, <3>6 DEF HonestInv, VerdictInv
    <3>8. Absent(toHost'[t], Refusal(r))
      BY <1>3, <3>6, <3>7
    <3>9. Untried(t, r)' /\ taken'[t] # r
      BY <1>1, <3>7, UntriedKept DEF pageVars, Untried
    <3>10. RequestFrame(r)' = RequestFrame(r) /\ Refusal(r)' = Refusal(r)
      BY DEF RequestFrame, Refusal
    <3> QED
      BY <1>1, <3>7, <3>8, <3>9, <3>10 DEF VerdictInv, Absent, AtMostOnce
  <2> QED
    BY <1>4, <1>5, <2>3, <2>5, <2>6, <2>7 DEF HonestInv
<1> QED
  BY <1>1, <1>2, <1>8, <1>9 DEF ReceiveResponse

(* What is sent to a tab that activates is each waiting request once.      *)
LEMMA ResentFrames ==
    ASSUME PendingTypeOK, NEW again \in SetToSeqs({r \in Ids : Resent(r)})
    PROVE  LET s == [i \in DOMAIN again |-> RequestFrame(again[i])]
           IN  /\ s \in Seq(Frames)
               /\ \A r \in Ids : AtMostOnce(s, RequestFrame(r))
               /\ \A r \in Ids : ~Resent(r) => Absent(s, RequestFrame(r))
<1> DEFINE waiting == {r \in Ids : Resent(r)}
           n == Cardinality(waiting)
           s == [i \in DOMAIN again |-> RequestFrame(again[i])]
<1>1. IsFiniteSet(waiting)
  <2>1. waiting \subseteq {r \in Ids : pending[r] # None}
    BY DEF Resent
  <2> QED
    BY <2>1, FS_Subset DEF PendingTypeOK
<1>2. n \in Nat
  BY <1>1, FS_CardinalityType
<1>3. again \in [1 .. n -> waiting] /\ \A i, j \in 1 .. n : i # j => again[i] # again[j]
  BY DEF SetToSeqs
<1>4. \A i \in 1 .. n : again[i] \in Ids /\ Resent(again[i]) /\ RequestFrame(again[i]) \in Frames
  BY <1>3, FramesDiffer
<1>5. DOMAIN again = 1 .. n
  BY <1>3
<1> HIDE DEF n, waiting
<1>6. s \in Seq(Frames) /\ Len(s) = n /\ \A i \in 1 .. n : s[i] = RequestFrame(again[i])
  BY <1>2, <1>4, <1>5
<1> HIDE DEF s
<1>7. \A r \in Ids, i \in 1 .. n : s[i] = RequestFrame(r) => again[i] = r
  BY <1>4, <1>6, FramesDiffer
<1>8. \A r \in Ids : AtMostOnce(s, RequestFrame(r))
  BY <1>3, <1>6, <1>7 DEF AtMostOnce
<1>9. \A r \in Ids : ~Resent(r) => Absent(s, RequestFrame(r))
  BY <1>4, <1>6, <1>7 DEF Absent
<1> QED
  BY <1>6, <1>8, <1>9 DEF s

LEMMA ActivateHonest ==
    ASSUME NEW t \in Tabs, Tabs = {t}, HonestInv(t), RequestInv', Activate(t)
    PROVE  HonestInv(t)'
<1> DEFINE again(q) == IF Resent(q) THEN [pending[q] EXCEPT !.dispatched = TRUE] ELSE pending[q]
<1>1. /\ PendingTypeOK /\ taken[t] = None /\ live' = t
      /\ UNCHANGED <<completed, told>> /\ UNCHANGED pageVars
      /\ pending' = [q \in Ids |-> again(q)]
  BY DEF Activate, HonestInv
<1>2. PICK order \in SetToSeqs({r \in Ids : Resent(r)}) :
         toTab' = [toTab EXCEPT ![t] = [i \in DOMAIN order |-> RequestFrame(order[i])]]
  BY DEF Activate
<1>3. /\ toTab' \in [Tabs -> Seq(Frames)]
      /\ \A r \in Ids : AtMostOnce(toTab'[t], RequestFrame(r))
      /\ \A r \in Ids : ~Resent(r) => Absent(toTab'[t], RequestFrame(r))
  BY <1>1, <1>2, ResentFrames DEF PendingTypeOK
<1>4. toHost' \in [Tabs -> Seq(Responses)] /\ toHost'[t] = <<>>
  BY <1>1 DEF Activate, PendingTypeOK
<1>5. ASSUME NEW q \in Ids
      PROVE  /\ again(q) \in Calls \cup {None}
             /\ pending[q] = None <=> again(q) = None
             /\ Out(q) \/ Resent(q) => again(q) # None /\ again(q).dispatched
  <2>1. pending[q] \in Calls \cup {None}
    BY <1>1 DEF PendingTypeOK
  <2>2. CASE Resent(q)
    <3> DEFINE c == [pending[q] EXCEPT !.dispatched = TRUE]
    <3>1. c \in Calls /\ c.dispatched
      BY <2>1, <2>2 DEF Resent, Calls
    <3>2. c # None
      BY <3>1, RequestsAssumption
    <3> HIDE DEF c
    <3>3. again(q) = c
      BY <2>2 DEF c
    <3> QED
      BY <2>2, <3>1, <3>2, <3>3 DEF Resent
  <2>3. CASE ~Resent(q)
    BY <2>1, <2>3 DEF Out
  <2> QED
    BY <2>2, <2>3
<1> HIDE DEF again
<1>6. PendingTypeOK'
  <2>1. {r \in Ids : pending'[r] # None} = {r \in Ids : pending[r] # None}
    BY <1>1, <1>5
  <2> QED
    BY <1>1, <1>3, <1>4, <1>5, <2>1 DEF PendingTypeOK
<1>7. /\ Grows(t)
      /\ \A r \in Mutations : PageInv(t, r)' /\ Sealed(t, r)' = Sealed(t, r)
  BY <1>1, PageUntouched DEF HonestInv
<1>8. completed' \in Seq(TrueAnswers') /\ toHost'[t] \in Seq(TrueResponses(t)')
  <2>1. <<>> \in Seq(TrueResponses(t)')
    OBVIOUS
  <2> QED
    BY <1>1, <1>4, <1>7, <2>1, TruthStays, SeqOfMore DEF HonestInv
<1>9. ASSUME NEW r \in Mutations PROVE VerdictInv(t, r)'
  <2>1. r \in Ids /\ Doubtful(t, r)' = Doubtful(t, r) /\ taken'[t] # r
    BY <1>1, <1>7, RequestsAssumption DEF Doubtful, Warned, pageVars
  <2>2. RequestFrame(r)' = RequestFrame(r) /\ Refusal(r)' = Refusal(r)
    BY DEF RequestFrame, Refusal
  <2>3. Out(r) \/ Resent(r) => Out(r)'
    BY <1>1, <1>5, <2>1 DEF Out
  <2>4. Untried(t, r) /\ ~Resent(r) => Untried(t, r)'
    BY <1>1, <1>3, <2>1, UntriedKept DEF pageVars
  <2>5. AtMostOnce(toTab'[t], RequestFrame(r)) /\ Absent(toHost'[t], Refusal(r))
    BY <1>3, <1>4, <2>1, AbsentEmpty
  <2>6. Doubtful(t, r) => Untried(t, r)' \/ Out(r)'
    BY <2>3, <2>4 DEF HonestInv, VerdictInv
  <2> QED
    BY <2>1, <2>2, <2>5, <2>6 DEF VerdictInv, Absent, AtMostOnce
<1>10. \A r \in Mutations : told'[r] \cap Executed # {} => invoked'[r] > 0
  BY <1>1 DEF HonestInv, pageVars
<1> QED
  BY <1>6, <1>7, <1>8, <1>9, <1>10 DEF HonestInv

(* The host goes and comes back.                                           *)
LEMMA RestartHonest ==
    ASSUME NEW t \in Tabs, Tabs = {t}, HonestInv(t), RequestInv', HostRestart
    PROVE  HonestInv(t)'
<1>1. /\ PendingTypeOK /\ pending' = [r \in Ids |-> None] /\ completed' = <<>> /\ live' = None
      /\ toHost' = [u \in Tabs |-> <<>>] /\ UNCHANGED toTab /\ UNCHANGED pageVars
  BY DEF HostRestart, HonestInv
<1>2. PICK crash \in BOOLEAN :
         told' = [r \in Ids |->
                    IF pending[r] = None THEN told[r]
                    ELSE told[r] \cup {IF crash THEN "LOST" ELSE ShutdownVerdict(r, pending[r])}]
  BY DEF HostRestart
<1>3. ASSUME NEW r \in Ids
      PROVE  LET a == IF crash THEN "LOST" ELSE ShutdownVerdict(r, pending[r])
             IN  /\ a \in Answers /\ a \notin Executed
                 /\ r \in Mutations /\ Out(r) => a \in MayHaveRun
  <2>1. pending[r] # None => pending[r] \in Calls
    BY <1>1 DEF PendingTypeOK
  <2>2. ShutdownVerdict(r, pending[r]) \in {"INDETERMINATE_MUTATION", "CANCELLED", "OFFLINE_BRIDGE"}
    BY DEF ShutdownVerdict, CancelVerdict
  <2>3. r \in Mutations /\ Out(r) => ShutdownVerdict(r, pending[r]) = "INDETERMINATE_MUTATION"
    BY <2>1 DEF ShutdownVerdict, CancelVerdict, Indeterminate, Out, Calls
  <2> QED
    BY <2>2, <2>3 DEF Executed, Answers, MayHaveRun, NeverRan
<1>4. told' \in [Ids -> SUBSET Answers]
  BY <1>1, <1>2, <1>3 DEF PendingTypeOK
<1>5. PendingTypeOK'
  <2>1. IsFiniteSet({r \in Ids : pending'[r] # None})
    <3>1. {r \in Ids : pending'[r] # None} = {}
      BY <1>1
    <3> QED
      BY <3>1, FS_EmptySet
  <2>2. pending' \in [Ids -> Calls \cup {None}] /\ toHost' \in [Tabs -> Seq(Responses)]
    BY <1>1
  <2>3. completed' \in Seq(Responses)
    BY <1>1
  <2> QED
    BY <1>1, <1>4, <2>1, <2>2, <2>3 DEF PendingTypeOK
<1>6. ASSUME NEW r \in Mutations
      PROVE  /\ told'[r] \cap Executed # {} => invoked[r] > 0
             /\ told[r] \subseteq told'[r]
             /\ Doubtful(t, r)' /\ Out(r) => Out(r)'
  <2>1. r \in Ids
    BY RequestsAssumption
  <2>2. Out(r) => Warned(r)'
    BY <1>2, <1>3, <2>1 DEF Out, Warned
  <2> QED
    BY <1>2, <1>3, <2>1, <2>2 DEF HonestInv, Doubtful
<1>7. completed' \in Seq(TrueAnswers')
  BY <1>1
<1> QED
  BY <1>1, <1>5, <1>6, <1>7, QuietStep

(* The frames of a socket that is gone.                                    *)
LEMMA QueueEmptied ==
    ASSUME NEW t \in Tabs, NEW S, NEW q \in [Tabs -> Seq(S)], NEW p,
           p = q \/ p = [q EXCEPT ![t] = <<>>]
    PROVE  p \in [Tabs -> Seq(S)] /\ p[t] \in {q[t], <<>>}
<1>1. <<>> \in Seq(S)
  OBVIOUS
<1>2. CASE p = [q EXCEPT ![t] = <<>>]
  BY <1>1, <1>2
<1> QED
  BY <1>2

(* Sockets that come and go.                                               *)
LEMMA SocketHonest ==
    ASSUME NEW t \in Tabs, Tabs = {t}, HonestInv(t), RequestInv',
           Connect(t) \/ SocketClosed(t) \/ HostSocketClosed \/ HostDrop \/ BrowserDrop(t)
    PROVE  HonestInv(t)'
<1>1. PendingTypeOK /\ UNCHANGED <<pending, completed, told>> /\ UNCHANGED pageVars
  BY DEF Connect, SocketClosed, HostSocketClosed, HostDrop, BrowserDrop, hostVars, HonestInv
<1>2. /\ toTab' = toTab \/ toTab' = [toTab EXCEPT ![t] = <<>>]
      /\ toHost' = toHost \/ toHost' = [toHost EXCEPT ![t] = <<>>]
      /\ live' \in {live, None}
  <2>1. live # None => live = t
    BY <1>1 DEF PendingTypeOK
  <2> QED
    BY <2>1 DEF Connect, SocketClosed, HostSocketClosed, HostDrop, BrowserDrop
<1>3. /\ PendingTypeOK' /\ toTab'[t] \in {toTab[t], <<>>} /\ toHost'[t] \in {toHost[t], <<>>}
  <2>1. toTab' \in [Tabs -> Seq(Frames)] /\ toTab'[t] \in {toTab[t], <<>>}
    BY <1>1, <1>2, QueueEmptied DEF PendingTypeOK
  <2>2. toHost' \in [Tabs -> Seq(Responses)] /\ toHost'[t] \in {toHost[t], <<>>}
    BY <1>1, <1>2, QueueEmptied DEF PendingTypeOK
  <2> QED
    BY <1>1, <1>2, <2>1, <2>2 DEF PendingTypeOK
<1>4. completed' \in Seq(TrueAnswers')
  BY <1>1, PageUntouched, TruthStays, SeqOfMore DEF HonestInv
<1>5. \A r \in Mutations : Out(r)' = Out(r) /\ (told'[r] \cap Executed # {} => invoked[r] > 0)
  BY <1>1 DEF Out, HonestInv
<1> QED
  BY <1>1, <1>3, <1>4, <1>5, QuietStep

----------------------------------------------------------------------------
(* The page.  Nothing is added that is about a mutation.                   *)
Kept(t, r) ==
    /\ Untried(t, r) => Untried(t, r)'
    /\ taken'[t] = r => taken[t] = r
    /\ Absent(toTab[t], RequestFrame(r)) => Absent(toTab'[t], RequestFrame(r))
    /\ AtMostOnce(toTab[t], RequestFrame(r)) => AtMostOnce(toTab'[t], RequestFrame(r))
    /\ Absent(toHost[t], Refusal(r)) => Absent(toHost'[t], Refusal(r))
    /\ AtMostOnce(toHost[t], Refusal(r)) => AtMostOnce(toHost'[t], Refusal(r))

LEMMA UntriedStays ==
    ASSUME NEW t \in Tabs, NEW r \in Mutations, taken'[t] # r, flight'[t][r] = None,
           invoked'[r] = 0, Absent(toTab'[t], RequestFrame(r))
    PROVE  Untried(t, r)'
<1>1. RequestFrame(r)' = RequestFrame(r)
  BY DEF RequestFrame
<1> QED
  BY <1>1 DEF Untried, Absent

LEMMA PageStep ==
    ASSUME NEW t \in Tabs, HonestInv(t), RequestInv', Grows(t),
           UNCHANGED <<pending, completed, told, live>>,
           toTab' \in [Tabs -> Seq(Frames)], toHost' \in [Tabs -> Seq(Responses)],
           toHost'[t] \in Seq(TrueResponses(t)'),
           \A r \in Mutations :
              PageInv(t, r)' /\ (VerdictInv(t, r)' \/ (Doubtful(t, r)' => Kept(t, r)))
    PROVE  HonestInv(t)'
<1>1. PendingTypeOK'
  BY DEF HonestInv, PendingTypeOK
<1>2. completed' \in Seq(TrueAnswers')
  BY TruthStays, SeqOfMore DEF HonestInv
<1>3. ASSUME NEW r \in Mutations
      PROVE  VerdictInv(t, r)' /\ (told'[r] \cap Executed # {} => invoked'[r] > 0)
  <2>1. told'[r] \cap Executed # {} => invoked'[r] > 0
    BY DEF HonestInv, Grows
  <2>2. SUFFICES ASSUME Doubtful(t, r)', Kept(t, r) PROVE VerdictInv(t, r)'
    BY <2>1 DEF VerdictInv
  <2>3. Doubtful(t, r) /\ Out(r)' = Out(r)
    BY <2>2 DEF Doubtful, Warned, Grows, Out
  <2> QED
    BY <2>2, <2>3, VerdictKept DEF HonestInv, Kept
<1> QED
  BY <1>1, <1>2, <1>3 DEF HonestInv

(* A write of the page's memory, about a mutation whose response stands or *)
(* that has none yet.                                                      *)
LEMMA WriteKeeps ==
    ASSUME NEW t \in Tabs, PageTypeOK, UNCHANGED invoked,
           NEW responses \in [Ids -> Answers \cup {None}], NEW guards \in SUBSET Mutations,
           Saved(t, responses, guards) \/ NotSaved(t, responses, guards),
           NEW r \in Mutations, PageInv(t, r), responses[r] = memory[t].responses[r],
           flight'[t][r] # None =>
              memory[t].responses[r] = None /\ (flight'[t][r].running => invoked[r] > 0)
    PROVE  PageInv(t, r)' /\ Sealed(t, r)' = Sealed(t, r)
<1>1. /\ memory'[t].responses[r] = memory[t].responses[r]
      /\ store'.responses[r] \in {store.responses[r], memory'[t].responses[r]}
  BY SavedEffect, NotSavedEffect DEF PageTypeOK
<1> QED
  BY <1>1 DEF PageInv, Sealed

LEMMA WriteNew ==
    ASSUME NEW t \in Tabs, PageTypeOK, UNCHANGED invoked,
           NEW responses \in [Ids -> Answers \cup {None}], NEW guards \in SUBSET Mutations,
           Saved(t, responses, guards) \/ NotSaved(t, responses, guards),
           NEW r \in Mutations, PageInv(t, r), memory[t].responses[r] = None,
           flight'[t][r] = None,
           responses[r] \in NeverRan => Saved(t, responses, guards) /\ invoked[r] = 0,
           responses[r] \in Executed => invoked[r] > 0
    PROVE  PageInv(t, r)' /\ Sealed(t, r)' = (responses[r] \in NeverRan) /\ ~Sealed(t, r)
<1>1. store.responses[r] = None /\ None \notin NeverRan
  BY RequestsAssumption DEF PageInv, Answers
<1>2. memory'[t].responses[r] = responses[r]
  <2>1. CASE Saved(t, responses, guards)
    BY <2>1, SavedEffect DEF PageTypeOK
  <2>2. CASE NotSaved(t, responses, guards)
    BY <2>2, NotSavedEffect DEF PageTypeOK
  <2> QED
    BY <2>1, <2>2
<1>3. store'.responses[r] = responses[r] \/ (responses[r] \notin NeverRan /\ store'.responses[r] = None)
  <2>1. CASE Saved(t, responses, guards)
    BY <2>1, SavedEffect DEF PageTypeOK
  <2>2. CASE ~Saved(t, responses, guards)
    BY <1>1, <2>2, NotSavedEffect DEF PageTypeOK
  <2> QED
    BY <2>1, <2>2
<1> QED
  BY <1>1, <1>2, <1>3 DEF PageInv, Sealed

(* What an answer adds to the socket.                                      *)
LEMMA AnswerEffect ==
    ASSUME NEW t \in Tabs, NEW r \in Ids, NEW a \in Answers, NEW n \in Nat, PendingTypeOK,
           Answer(t, r, a, n), NEW S, toHost[t] \in Seq(S), [id |-> r, answer |-> a] \in S
    PROVE  /\ UNCHANGED <<live, toTab>>
           /\ toHost' \in [Tabs -> Seq(Responses)] /\ toHost'[t] \in Seq(S)
           /\ \A e : /\ [id |-> r, answer |-> a] # e =>
                         /\ Absent(toHost[t], e) => Absent(toHost'[t], e)
                         /\ AtMostOnce(toHost[t], e) => AtMostOnce(toHost'[t], e)
                     /\ n = 1 /\ Absent(toHost[t], e) => AtMostOnce(toHost'[t], e)
<1> DEFINE p == [id |-> r, answer |-> a]
           added == [i \in 1 .. n |-> p]
<1>1. p \in Responses /\ p \in S
  BY DEF Responses
<1>2. /\ UNCHANGED <<live, toTab>>
      /\ toHost' = toHost \/ toHost' = [toHost EXCEPT ![t] = toHost[t] \o added]
  BY DEF Answer
<1> HIDE DEF p
<1>3. toHost[t] \in Seq(Responses)
  BY DEF PendingTypeOK
<1>4. toHost[t] \o added \in Seq(S) /\ toHost[t] \o added \in Seq(Responses)
  BY <1>1, <1>3, AbsentConcat
<1>5. ASSUME NEW e
      PROVE  /\ p # e /\ Absent(toHost[t], e) => Absent(toHost[t] \o added, e)
             /\ p # e /\ AtMostOnce(toHost[t], e) => AtMostOnce(toHost[t] \o added, e)
             /\ n = 1 /\ Absent(toHost[t], e) => AtMostOnce(toHost[t] \o added, e)
  BY <1>1, <1>3, AbsentConcat
<1> HIDE DEF added
<1>6. \A e : Absent(toHost[t], e) => AtMostOnce(toHost[t], e)
  BY DEF Absent, AtMostOnce
<1>7. toHost' \in [Tabs -> Seq(Responses)] /\ toHost'[t] \in {toHost[t], toHost[t] \o added}
  BY <1>2, <1>4 DEF PendingTypeOK
<1>8. toHost'[t] \in Seq(S)
  BY <1>4, <1>7
<1> QED
  BY <1>2, <1>5, <1>6, <1>7, <1>8 DEF p

LEMMA AnswerTrue ==
    ASSUME NEW t \in Tabs, NEW r \in Ids, NEW a \in Answers, NEW n \in Nat, HonestInv(t),
           Answer(t, r, a, n), Grows(t), [id |-> r, answer |-> a] \in TrueResponses(t)'
    PROVE  /\ UNCHANGED <<live, toTab>>
           /\ toHost' \in [Tabs -> Seq(Responses)] /\ toHost'[t] \in Seq(TrueResponses(t)')
           /\ \A e : [id |-> r, answer |-> a] # e =>
                        /\ Absent(toHost[t], e) => Absent(toHost'[t], e)
                        /\ AtMostOnce(toHost[t], e) => AtMostOnce(toHost'[t], e)
           /\ n = 1 => \A e : Absent(toHost[t], e) => AtMostOnce(toHost'[t], e)
<1> DEFINE p == [id |-> r, answer |-> a]
<1>1. PICK S : S = TrueResponses(t)'
  OBVIOUS
<1>2. toHost[t] \in Seq(S) /\ p \in S
  BY <1>1, TruthStays, SeqOfMore DEF HonestInv
<1>3. /\ UNCHANGED <<live, toTab>>
      /\ toHost' \in [Tabs -> Seq(Responses)] /\ toHost'[t] \in Seq(S)
      /\ \A e : /\ p # e =>
                    /\ Absent(toHost[t], e) => Absent(toHost'[t], e)
                    /\ AtMostOnce(toHost[t], e) => AtMostOnce(toHost'[t], e)
                /\ n = 1 /\ Absent(toHost[t], e) => AtMostOnce(toHost'[t], e)
  BY <1>2, AnswerEffect DEF HonestInv
<1>4. toHost'[t] \in Seq(TrueResponses(t)')
  BY <1>1, <1>3
<1> QED
  BY <1>3, <1>4

----------------------------------------------------------------------------
(* An abort changes neither what is in flight nor what runs.               *)
LEMMA FlightAborted ==
    ASSUME NEW t \in Tabs, NEW q \in Ids, NEW r \in Ids, PageTypeOK,
           \/ UNCHANGED flight
           \/ flight[t][q] # None /\ flight' = [flight EXCEPT ![t][q].aborted = TRUE]
    PROVE  flight'[t][r] # None =>
              flight[t][r] # None /\ flight'[t][r].running = flight[t][r].running
<1> DEFINE f == [flight[t][q] EXCEPT !.aborted = TRUE]
<1>1. CASE UNCHANGED flight
  BY <1>1
<1>2. CASE flight[t][q] # None /\ flight' = [flight EXCEPT ![t][q] = f]
  <2>1. f \in Flights /\ f.running = flight[t][q].running
    BY <1>2, FlightChange
  <2> HIDE DEF f
  <2>2. flight'[t][q] = f /\ \A p \in Ids \ {q} : flight'[t][p] = flight[t][p]
    BY <1>2, <2>1, FlightEntry
  <2> QED
    BY <1>2, <2>1, <2>2
<1> QED
  BY <1>1, <1>2

(* The receive queue takes a frame.                                        *)
LEMMA ReceiveFrameHonest ==
    ASSUME NEW t \in Tabs, Tabs = {t}, HonestInv(t), RequestInv', Receive(t)
    PROVE  HonestInv(t)'
<1>1. /\ PendingTypeOK /\ PageTypeOK /\ toTab[t] # <<>> /\ toTab' = [toTab EXCEPT ![t] = Tail(@)]
      /\ UNCHANGED <<pending, completed, told, live, toHost>>
      /\ UNCHANGED <<memory, store, invoked>>
  BY DEF Receive, hostVars, HonestInv, RequestInv
<1>2. PICK q \in Ids :
         \/ /\ Head(toTab[t]) = RequestFrame(q)
            /\ taken' = [taken EXCEPT ![t] = q] /\ UNCHANGED flight
         \/ /\ Head(toTab[t]) = CancelFrame(q) /\ UNCHANGED taken
            /\ flight' = IF flight[t][q] = None THEN flight
                         ELSE [flight EXCEPT ![t][q].aborted = TRUE]
  BY <1>1 DEF Receive
<1>3. /\ toTab[t] \in Seq(Frames) /\ Tail(toTab[t]) \in Seq(Frames)
      /\ toTab'[t] = Tail(toTab[t]) /\ toTab' \in [Tabs -> Seq(Frames)]
  BY <1>1 DEF PendingTypeOK
<1>4. \A e : /\ Absent(toTab[t], e) => Absent(toTab'[t], e)
             /\ AtMostOnce(toTab[t], e) => AtMostOnce(toTab'[t], e)
             /\ AtMostOnce(toTab[t], e) /\ Head(toTab[t]) = e => Absent(toTab'[t], e)
             /\ Absent(toTab[t], e) => Head(toTab[t]) # e
  BY <1>1, <1>3, AbsentTail
<1>5. ASSUME NEW r \in Ids
      PROVE  flight'[t][r] # None =>
                flight[t][r] # None /\ flight'[t][r].running = flight[t][r].running
  BY <1>1, <1>2, FlightAborted
<1>6. Grows(t) /\ toHost'[t] \in Seq(TrueResponses(t)')
  <2>1. Grows(t)
    BY <1>1 DEF Grows, Sealed
  <2> QED
    BY <1>1, <2>1, TruthStays, SeqOfMore DEF HonestInv
<1>7. ASSUME NEW r \in Mutations
      PROVE  PageInv(t, r)' /\ (VerdictInv(t, r)' \/ Kept(t, r))
  <2>1. r \in Ids
    BY RequestsAssumption
  <2>2. PageInv(t, r) /\ VerdictInv(t, r)
    BY DEF HonestInv
  <2>3. PageInv(t, r)'
    BY <1>1, <1>5, <2>1, <2>2 DEF PageInv, Sealed
  <2>4. CASE taken'[t] # r
    <3>1. Untried(t, r) => Untried(t, r)'
      BY <1>1, <1>4, <1>5, <2>1, <2>4, UntriedStays DEF Untried
    <3> QED
      BY <1>1, <1>4, <2>3, <2>4, <3>1 DEF Kept
  <2>5. CASE taken'[t] = r /\ Head(toTab[t]) = RequestFrame(r)
    <3>1. SUFFICES ASSUME Doubtful(t, r)' PROVE VerdictInv(t, r)'
      BY <2>3 DEF VerdictInv
    <3>2. Doubtful(t, r) /\ Out(r)' = Out(r)
      BY <1>1, <3>1 DEF Doubtful, Warned, Sealed, Out
    <3>3. ~Untried(t, r)
      BY <1>4, <2>5 DEF Untried
    <3>4. /\ Out(r) /\ Absent(toHost[t], Refusal(r))
          /\ Absent(toTab'[t], RequestFrame(r)) /\ AtMostOnce(toTab'[t], RequestFrame(r))
      BY <1>4, <2>2, <2>5, <3>2, <3>3 DEF VerdictInv
    <3>5. RequestFrame(r)' = RequestFrame(r) /\ Refusal(r)' = Refusal(r)
      BY DEF RequestFrame, Refusal
    <3> QED
      BY <1>1, <3>2, <3>4, <3>5 DEF VerdictInv, Absent, AtMostOnce
  <2>6. CASE taken'[t] = r /\ Head(toTab[t]) # RequestFrame(r)
    <3>1. taken[t] = r
      BY <1>1, <1>2, <2>6 DEF PageTypeOK
    <3> QED
      BY <1>1, <1>4, <2>3, <3>1 DEF Kept, Untried
  <2> QED
    BY <2>4, <2>5, <2>6
<1>8. toHost' \in [Tabs -> Seq(Responses)]
  BY <1>1 DEF PendingTypeOK
<1> QED
  BY <1>1, <1>3, <1>6, <1>7, <1>8, PageStep

(* Executions that are started or aborted.                                 *)
LEMMA ExecutionHonest ==
    ASSUME NEW t \in Tabs, Tabs = {t}, HonestInv(t), RequestInv', NEW q \in Ids,
           Dispatch(t, q) \/ PageDeadline(t, q)
    PROVE  HonestInv(t)'
<1>1. /\ PendingTypeOK /\ PageTypeOK /\ flight[t][q] # None
      /\ UNCHANGED <<pending, completed, told, live, toTab, toHost>>
      /\ UNCHANGED <<taken, memory, store>>
  BY DEF Dispatch, PageDeadline, hostVars, wireVars, HonestInv, RequestInv
<1>2. ASSUME NEW r \in Mutations
      PROVE  /\ r \in Ids
             /\ flight'[t][r] # None =>
                   /\ flight[t][r] # None
                   /\ flight'[t][r].running => flight[t][r].running \/ invoked'[r] > 0
             /\ invoked'[r] = invoked[r] \/ (r = q /\ invoked'[r] > 0)
  <2>1. r \in Ids
    BY RequestsAssumption
  <2>2. CASE PageDeadline(t, q)
    BY <1>1, <2>1, <2>2, FlightAborted DEF PageDeadline
  <2>3. CASE Dispatch(t, q)
    <3> DEFINE f == [flight[t][q] EXCEPT !.running = TRUE]
    <3>1. f \in Flights /\ flight' = [flight EXCEPT ![t][q] = f]
      BY <1>1, <2>3, FlightChange DEF Dispatch
    <3> HIDE DEF f
    <3>3. /\ flight'[t][q] = f /\ \A p \in Ids \ {q} : flight'[t][p] = flight[t][p]
      BY <1>1, <3>1, FlightEntry
    <3>4. invoked'[r] = invoked[r] \/ (r = q /\ invoked'[r] > 0)
      BY <1>1, <2>3 DEF Dispatch, PageTypeOK
    <3>5. r = q => invoked'[r] > 0
      BY <1>1, <2>3 DEF Dispatch, PageTypeOK
    <3> QED
      BY <1>1, <2>1, <3>3, <3>4, <3>5
  <2> QED
    BY <2>2, <2>3
<1>3. ASSUME NEW r \in Mutations
      PROVE  /\ invoked[r] > 0 => invoked'[r] > 0
             /\ PageInv(t, r)' /\ Kept(t, r) /\ Sealed(t, r)' = Sealed(t, r)
  <2>1. PageInv(t, r) /\ Sealed(t, r)' = Sealed(t, r)
    BY <1>1 DEF HonestInv, Sealed
  <2>2. flight[t][r] # None => ~Sealed(t, r)
    BY <2>1, RequestsAssumption DEF PageInv, Sealed, Answers
  <2>3. PageInv(t, r)'
    BY <1>1, <1>2, <2>1, <2>2 DEF PageInv, Sealed
  <2>4. Untried(t, r) => Untried(t, r)'
    BY <1>1, <1>2, UntriedStays DEF Untried
  <2> QED
    BY <1>1, <1>2, <2>1, <2>3, <2>4 DEF Kept
<1>4. Grows(t)
  BY <1>3 DEF Grows
<1>5. /\ toTab' \in [Tabs -> Seq(Frames)] /\ toHost' \in [Tabs -> Seq(Responses)]
      /\ toHost'[t] \in Seq(TrueResponses(t)')
  BY <1>1, <1>4, TruthStays, SeqOfMore DEF HonestInv, PendingTypeOK
<1> QED
  BY <1>1, <1>3, <1>4, <1>5, PageStep

(* stop(), and a reload: the page forgets frames and executions.           *)
LEMMA StopHonest ==
    ASSUME NEW t \in Tabs, Tabs = {t}, HonestInv(t), RequestInv', Stop(t) \/ Reload(t)
    PROVE  HonestInv(t)'
<1>1. /\ PendingTypeOK /\ PageTypeOK /\ toTab' = [toTab EXCEPT ![t] = <<>>]
      /\ UNCHANGED <<pending, completed, told, live, toHost, store, invoked>>
      /\ taken' \in {taken, [taken EXCEPT ![t] = None]}
      /\ memory' \in {memory, [memory EXCEPT ![t] = store]}
  BY DEF Stop, Reload, hostVars, HonestInv, RequestInv
<1>2. toTab' \in [Tabs -> Seq(Frames)] /\ toTab'[t] = <<>>
  BY <1>1 DEF PendingTypeOK
<1>3. ASSUME NEW r \in Ids, flight'[t][r] # None
      PROVE  /\ flight[t][r] # None /\ flight'[t][r].running = flight[t][r].running
             /\ memory' = memory
  <2>1. flight[t][r] \in Flights \cup {None}
    BY <1>1 DEF PageTypeOK
  <2>2. CASE Stop(t)
    <3>1. /\ memory' = memory
          /\ flight'[t][r] = IF flight[t][r] = None THEN None ELSE [flight[t][r] EXCEPT !.aborted = TRUE]
      BY <1>1, <2>2 DEF Stop, PageTypeOK
    <3> QED
      BY <1>3, <2>1, <3>1 DEF Flights
  <2>3. CASE Reload(t)
    BY <1>1, <1>3, <2>3 DEF Reload, PageTypeOK
  <2> QED
    BY <2>2, <2>3
<1>4. ASSUME NEW r \in Mutations
      PROVE  PageInv(t, r)' /\ Kept(t, r) /\ (Sealed(t, r) => Sealed(t, r)')
  <2>1. r \in Ids /\ PageInv(t, r) /\ None \notin NeverRan /\ None \notin Executed
    BY RequestsAssumption DEF Executed, HonestInv, Answers, MayHaveRun
  <2>2. memory'[t] \in {memory[t], store}
    BY <1>1 DEF PageTypeOK
  <2>3. PageInv(t, r)' /\ (Sealed(t, r) => Sealed(t, r)')
    BY <1>1, <1>3, <2>1, <2>2 DEF PageInv, Sealed
  <2>4. taken'[t] = r => taken[t] = r
    BY <1>1, <2>1, RequestsAssumption DEF PageTypeOK
  <2>5. Untried(t, r) => Untried(t, r)'
    BY <1>1, <1>2, <1>3, <2>1, <2>4, AbsentEmpty, UntriedStays DEF Untried
  <2> QED
    BY <1>1, <1>2, <2>3, <2>4, <2>5, AbsentEmpty DEF Kept
<1>5. Grows(t)
  BY <1>1, <1>4 DEF Grows
<1>6. toHost' \in [Tabs -> Seq(Responses)] /\ toHost'[t] \in Seq(TrueResponses(t)')
  BY <1>1, <1>5, TruthStays, SeqOfMore DEF HonestInv, PendingTypeOK
<1> QED
  BY <1>1, <1>2, <1>4, <1>5, <1>6, PageStep

LEMMA PersistHonest ==
    ASSUME NEW t \in Tabs, Tabs = {t}, HonestInv(t), RequestInv', PersistForEvents(t)
    PROVE  HonestInv(t)'
<1> DEFINE responses == memory[t].responses
           guards == memory[t].guards
<1>1. /\ PendingTypeOK /\ PageTypeOK
      /\ UNCHANGED <<pending, completed, told, live, toTab, toHost>>
      /\ UNCHANGED <<taken, flight, invoked>>
      /\ Saved(t, responses, guards) \/ NotSaved(t, responses, guards)
      /\ responses \in [Ids -> Answers \cup {None}] /\ guards \in SUBSET Mutations
  BY DEF PersistForEvents, hostVars, wireVars, HonestInv, RequestInv, PageTypeOK, States
<1>2. ASSUME NEW r \in Mutations
      PROVE  PageInv(t, r)' /\ Sealed(t, r)' = Sealed(t, r)
  <2>1. PageInv(t, r) /\ responses[r] = memory[t].responses[r]
    BY DEF HonestInv
  <2>2. flight'[t][r] # None =>
           memory[t].responses[r] = None /\ (flight'[t][r].running => invoked[r] > 0)
    BY <1>1, <2>1 DEF PageInv
  <2> HIDE DEF responses, guards
  <2> QED
    BY <1>1, <2>1, <2>2, WriteKeeps
<1>3. Grows(t)
  BY <1>1, <1>2 DEF Grows
<1>4. \A r \in Mutations : Kept(t, r)
  BY <1>1, UntriedStays DEF Kept, Untried
<1>5. /\ toTab' \in [Tabs -> Seq(Frames)] /\ toHost' \in [Tabs -> Seq(Responses)]
      /\ toHost'[t] \in Seq(TrueResponses(t)')
  BY <1>1, <1>3, TruthStays, SeqOfMore DEF HonestInv, PendingTypeOK
<1> HIDE DEF responses, guards
<1> QED
  BY <1>1, <1>2, <1>3, <1>4, <1>5, PageStep

(* The end of an execution.                                                *)
LEMMA FinishHonest ==
    ASSUME NEW t \in Tabs, Tabs = {t}, HonestInv(t), RequestInv', NEW q \in Ids, Finish(t, q)
    PROVE  HonestInv(t)'
<1>1. /\ PendingTypeOK /\ PageTypeOK /\ Guarded /\ flight[t][q] # None
      /\ flight' = [flight EXCEPT ![t][q] = None]
      /\ UNCHANGED <<pending, completed, told, taken, invoked>>
  BY DEF Finish, hostVars, HonestInv, RequestInv
<1>2. PICK outcome \in Outcomes(q, flight[t][q]) :
         LET guards    == memory[t].guards \ {q}
             unwritten == IF q \in Mutations THEN "INDETERMINATE_MUTATION" ELSE outcome
         IN  \/ /\ Saved(t, Cached(t, q, outcome), guards)
                /\ Answer(t, q, outcome, flight[t][q].waiters)
             \/ /\ NotSaved(t, Cached(t, q, unwritten), guards \cup (Mutations \cap {q}))
                /\ Answer(t, q, unwritten, flight[t][q].waiters)
  BY DEF Finish
<1>3. PICK a \in Answers, guards \in SUBSET Mutations, n \in Nat :
         /\ Saved(t, Cached(t, q, a), guards) \/ NotSaved(t, Cached(t, q, a), guards)
         /\ Answer(t, q, a, n) /\ a # "NOT_DISPATCHED"
         /\ q \in Mutations /\ a \in NeverRan => Saved(t, Cached(t, q, a), guards) /\ invoked[q] = 0
         /\ q \in Mutations /\ a \in Executed => invoked[q] > 0
  <2>1. flight[t][q] \in Flights
    BY <1>1 DEF PageTypeOK
  <2>2. /\ flight[t][q].waiters \in Nat /\ flight[t][q].running \in BOOLEAN
        /\ flight[t][q].aborted \in BOOLEAN
    BY <2>1 DEF Flights
  <2>3. /\ memory[t].guards \ {q} \in SUBSET Mutations
        /\ (memory[t].guards \ {q}) \cup (Mutations \cap {q}) \in SUBSET Mutations
    BY <1>1 DEF PageTypeOK, States
  <2>4. outcome \in Answers /\ outcome # "NOT_DISPATCHED"
    BY <2>2 DEF Outcomes, Answers, MayHaveRun, NeverRan
  <2>5. q \in Mutations =>
           /\ outcome \in NeverRan => ~flight[t][q].running
           /\ outcome \in Executed => flight[t][q].running
    BY <2>2 DEF Executed, Outcomes, NeverRan
  <2>6. q \in Mutations =>
           /\ outcome \in NeverRan => invoked[q] = 0
           /\ outcome \in Executed => invoked[q] > 0
    BY <1>1, <2>5 DEF Guarded, HonestInv, PageInv
  <2>7. /\ "INDETERMINATE_MUTATION" \in Answers \ NeverRan
        /\ "INDETERMINATE_MUTATION" \notin Executed \cup {"NOT_DISPATCHED"}
    BY DEF Executed, Answers, MayHaveRun, NeverRan
  <2> QED
    BY <1>2, <2>2, <2>3, <2>4, <2>6, <2>7
<1> DEFINE responses == Cached(t, q, a)
           p == [id |-> q, answer |-> a]
<1>4. /\ responses \in [Ids -> Answers \cup {None}] /\ responses[q] = a
      /\ \A r \in Ids \ {q} : responses[r] = memory[t].responses[r]
  BY <1>1 DEF Cached, PageTypeOK, States
<1>5. /\ flight'[t][q] = None /\ \A r \in Ids \ {q} : flight'[t][r] = flight[t][r]
  BY <1>1 DEF PageTypeOK
<1>6. Saved(t, responses, guards) \/ NotSaved(t, responses, guards)
  BY <1>3
<1>7. /\ q \in Mutations /\ a \in NeverRan => Saved(t, responses, guards) /\ invoked[q] = 0
      /\ q \in Mutations /\ a \in Executed => invoked[q] > 0
  BY <1>3
<1> HIDE DEF responses
<1>8. ASSUME NEW r \in Mutations, r # q
      PROVE  PageInv(t, r)' /\ Sealed(t, r)' = Sealed(t, r)
  <2>1. r \in Ids \ {q} /\ PageInv(t, r)
    BY <1>8, RequestsAssumption DEF HonestInv
  <2>2. flight'[t][r] # None =>
           memory[t].responses[r] = None /\ (flight'[t][r].running => invoked[r] > 0)
    BY <1>5, <2>1 DEF PageInv
  <2> QED
    BY <1>1, <1>4, <1>6, <2>1, <2>2, WriteKeeps
<1>9. ASSUME q \in Mutations
      PROVE  PageInv(t, q)' /\ Sealed(t, q)' = (a \in NeverRan) /\ ~Sealed(t, q)
  <2>1. PageInv(t, q) /\ memory[t].responses[q] = None
    BY <1>1, <1>9 DEF HonestInv, PageInv
  <2> QED
    BY <1>1, <1>4, <1>5, <1>6, <1>7, <1>9, <2>1, WriteNew
<1>10. Grows(t)
  BY <1>1, <1>8, <1>9 DEF Grows
<1>11. p \in TrueResponses(t)'
  <2>1. p \in Responses
    BY DEF Responses
  <2> QED
    BY <1>1, <1>7, <1>9, <2>1 DEF TrueResponses, TrueAnswers
<1>12. /\ UNCHANGED <<live, toTab>>
       /\ toHost' \in [Tabs -> Seq(Responses)] /\ toHost'[t] \in Seq(TrueResponses(t)')
       /\ \A e : p # e => /\ Absent(toHost[t], e) => Absent(toHost'[t], e)
                          /\ AtMostOnce(toHost[t], e) => AtMostOnce(toHost'[t], e)
  BY <1>3, <1>10, <1>11, AnswerTrue
<1>13. ASSUME NEW r \in Mutations PROVE PageInv(t, r)' /\ Kept(t, r)
  <2>1. PageInv(t, r)' /\ r \in Ids
    BY <1>8, <1>9, RequestsAssumption
  <2>2. p # Refusal(r)
    BY <1>3 DEF Refusal
  <2>3. Untried(t, r) => Untried(t, r)'
    <3>1. toTab' = toTab /\ taken' = taken /\ invoked' = invoked
      BY <1>1, <1>12
    <3>2. Untried(t, r) => flight'[t][r] = None
      BY <1>1, <1>5, <2>1 DEF Untried
    <3> QED
      BY <3>1, <3>2, UntriedStays DEF Untried
  <2> QED
    <3>1. /\ Absent(toHost[t], Refusal(r)) => Absent(toHost'[t], Refusal(r))
          /\ AtMostOnce(toHost[t], Refusal(r)) => AtMostOnce(toHost'[t], Refusal(r))
      BY <1>12, <2>2
    <3> QED
      BY <1>1, <1>12, <2>1, <2>3, <3>1 DEF Kept
<1>14. toTab' \in [Tabs -> Seq(Frames)]
  BY <1>1, <1>12 DEF PendingTypeOK
<1> QED
  BY <1>1, <1>10, <1>12, <1>13, <1>14, PageStep

----------------------------------------------------------------------------
(* #beginRequest, branch by branch: the request it ends is no longer held. *)
LEMMA BeginEnds ==
    ASSUME NEW t \in Tabs, HonestInv(t), RequestInv', Grows(t),
           NEW q \in Ids, taken[t] = q, taken' = [taken EXCEPT ![t] = None],
           UNCHANGED <<pending, completed, told, live, toTab, invoked>>,
           toHost' \in [Tabs -> Seq(Responses)], toHost'[t] \in Seq(TrueResponses(t)'),
           \A r \in Mutations :
              PageInv(t, r)' /\ (r # q /\ flight[t][r] = None => flight'[t][r] = None),
           \A r \in Mutations :
              \/ VerdictInv(t, r)'
              \/ Doubtful(t, r)' =>
                    /\ Absent(toHost[t], Refusal(r)) => Absent(toHost'[t], Refusal(r))
                    /\ AtMostOnce(toHost[t], Refusal(r)) => AtMostOnce(toHost'[t], Refusal(r))
    PROVE  HonestInv(t)'
<1>1. toTab' \in [Tabs -> Seq(Frames)] /\ taken'[t] = None
  BY DEF HonestInv, PendingTypeOK, RequestInv, PageTypeOK
<1>2. ASSUME NEW r \in Mutations
      PROVE  VerdictInv(t, r)' \/ (Doubtful(t, r)' => Kept(t, r))
  <2>1. SUFFICES ASSUME Doubtful(t, r)', ~VerdictInv(t, r)' PROVE Kept(t, r)
    OBVIOUS
  <2>2. taken'[t] # r
    BY <1>1, RequestsAssumption
  <2>3. Untried(t, r) => Untried(t, r)'
    BY <2>2, UntriedStays DEF Untried
  <2> QED
    BY <2>1, <2>2, <2>3 DEF Kept
<1> QED
  BY <1>1, <1>2, PageStep

LEMMA BeginHonest ==
    ASSUME NEW t \in Tabs, Tabs = {t}, HonestInv(t), RequestInv', Begin(t)
    PROVE  HonestInv(t)'
<1>1. PICK q \in Ids : q = taken[t]
  BY DEF Begin, HonestInv, RequestInv, PageTypeOK
<1> DEFINE responses == memory[t].responses
           guards == memory[t].guards
           p(a) == [id |-> q, answer |-> a]
<1>2. /\ PendingTypeOK /\ PageTypeOK /\ RequestInv /\ taken' = [taken EXCEPT ![t] = None]
      /\ UNCHANGED <<pending, completed, told, invoked>>
      /\ responses \in [Ids -> Answers \cup {None}] /\ guards \in SUBSET Mutations
  BY <1>1 DEF Begin, hostVars, HonestInv, RequestInv, PageTypeOK, States
<1>3. /\ \A r \in Mutations : r \in Ids /\ PageInv(t, r) /\ VerdictInv(t, r)
      /\ toHost \in [Tabs -> Seq(Responses)] /\ toHost[t] \in Seq(TrueResponses(t))
      /\ "NOT_DISPATCHED" \in NeverRan
  BY RequestsAssumption DEF HonestInv, PendingTypeOK, NeverRan
<1>4. CASE BeginCached(t, q)
  <2>1. PICK a \in Answers : a = responses[q] /\ Answer(t, q, a, 1)
    BY <1>2, <1>4 DEF BeginCached
  <2>2. UNCHANGED <<memory, store, flight>>
    BY <1>4 DEF BeginCached
  <2>3. \A r \in Mutations : PageInv(t, r)' /\ Sealed(t, r)' = Sealed(t, r)
    BY <1>2, <1>3, <2>2 DEF PageInv, Sealed
  <2>4. Grows(t)
    BY <1>2, <2>3 DEF Grows
  <2>5. p(a) \in TrueResponses(t)'
    <3>1. p(a) \in Responses
      BY DEF Responses
    <3>2. q \in Mutations => (a \in Executed => invoked[q] > 0) /\ (a \in NeverRan => Sealed(t, q)')
      BY <1>3, <2>1, <2>3 DEF PageInv, Sealed
    <3> QED
      BY <1>2, <3>1, <3>2 DEF TrueResponses, TrueAnswers
  <2>6. /\ UNCHANGED <<live, toTab>>
        /\ toHost' \in [Tabs -> Seq(Responses)] /\ toHost'[t] \in Seq(TrueResponses(t)')
        /\ \A e : p(a) # e => /\ Absent(toHost[t], e) => Absent(toHost'[t], e)
                              /\ AtMostOnce(toHost[t], e) => AtMostOnce(toHost'[t], e)
    BY <2>1, <2>4, <2>5, AnswerTrue
  <2>7. ASSUME NEW r \in Mutations, Doubtful(t, r)' PROVE p(a) # Refusal(r)
    <3>1. SUFFICES ASSUME p(a) = Refusal(r) PROVE FALSE
      OBVIOUS
    <3>2. r = q /\ a = "NOT_DISPATCHED"
      BY <3>1 DEF Refusal
    <3> QED
      BY <1>3, <2>1, <2>3, <2>7, <3>2 DEF Doubtful, Sealed
  <2> HIDE DEF p
  <2>8. ASSUME NEW r \in Mutations, Doubtful(t, r)'
        PROVE  /\ Absent(toHost[t], Refusal(r)) => Absent(toHost'[t], Refusal(r))
               /\ AtMostOnce(toHost[t], Refusal(r)) => AtMostOnce(toHost'[t], Refusal(r))
    BY <2>6, <2>7, <2>8
  <2> QED
    BY <1>1, <1>2, <2>2, <2>3, <2>4, <2>6, <2>8, BeginEnds
<1>5. CASE BeginJoined(t, q)
  <2>1. /\ UNCHANGED <<live, toTab, toHost, memory, store>> /\ flight[t][q] # None
        /\ flight' = [flight EXCEPT ![t][q].waiters = @ + 1]
    BY <1>5 DEF BeginJoined, wireVars
  <2>2. flight[t][q] \in Flights
    BY <1>2, <2>1 DEF PageTypeOK
  <2>3. /\ flight'[t][q].running = flight[t][q].running
        /\ \A r \in Ids \ {q} : flight'[t][r] = flight[t][r]
    BY <1>2, <2>1, <2>2 DEF Flights, PageTypeOK
  <2>4. \A r \in Mutations : PageInv(t, r)' /\ Sealed(t, r)' = Sealed(t, r)
    BY <1>2, <1>3, <2>1, <2>3 DEF PageInv, Sealed
  <2>5. Grows(t)
    BY <1>2, <2>4 DEF Grows
  <2>6. toHost'[t] \in Seq(TrueResponses(t)')
    BY <1>3, <2>1, <2>5, TruthStays, SeqOfMore
  <2> QED
    BY <1>1, <1>2, <1>3, <2>1, <2>3, <2>4, <2>5, <2>6, BeginEnds
<1>6. CASE BeginRecovered(t, q)
  <2> DEFINE written == Cached(t, q, "INDETERMINATE_MUTATION")
  <2>1. /\ Saved(t, written, guards \ {q}) \/ NotSaved(t, written, guards)
        /\ Answer(t, q, "INDETERMINATE_MUTATION", 1) /\ UNCHANGED flight
        /\ responses[q] = None /\ flight[t][q] = None
    BY <1>6 DEF BeginRecovered
  <2>2. /\ "INDETERMINATE_MUTATION" \in Answers \ NeverRan
        /\ "INDETERMINATE_MUTATION" \notin Executed \cup {"NOT_DISPATCHED"}
    BY DEF Executed, Answers, MayHaveRun, NeverRan
  <2>3. /\ written \in [Ids -> Answers \cup {None}] /\ written[q] = "INDETERMINATE_MUTATION"
        /\ \A r \in Ids \ {q} : written[r] = responses[r]
    BY <1>2, <2>2 DEF Cached
  <2>4. PICK kept \in SUBSET Mutations : Saved(t, written, kept) \/ NotSaved(t, written, kept)
    BY <1>2, <2>1
  <2> HIDE DEF written
  <2>5. ASSUME NEW r \in Mutations PROVE PageInv(t, r)' /\ Sealed(t, r)' = Sealed(t, r)
    <3>1. CASE r = q
      <4>1. /\ flight'[t][r] = None /\ memory[t].responses[r] = None
            /\ written[r] \notin NeverRan /\ written[r] \notin Executed
        BY <2>1, <2>2, <2>3, <3>1
      <4>2. PageInv(t, r)' /\ Sealed(t, r)' = (written[r] \in NeverRan) /\ ~Sealed(t, r)
        BY <1>2, <1>3, <2>3, <2>4, <4>1, WriteNew
      <4> QED
        BY <4>1, <4>2 DEF Sealed
    <3>2. CASE r # q
      <4>1. flight'[t][r] # None =>
               memory[t].responses[r] = None /\ (flight'[t][r].running => invoked[r] > 0)
        BY <1>3, <2>1 DEF PageInv
      <4> QED
        BY <1>2, <1>3, <2>3, <2>4, <3>2, <4>1, WriteKeeps
    <3> QED
      BY <3>1, <3>2
  <2>6. Grows(t)
    BY <1>2, <2>5 DEF Grows
  <2>7. p("INDETERMINATE_MUTATION") \in TrueResponses(t)'
    <3>1. p("INDETERMINATE_MUTATION") \in Responses
      BY <2>2 DEF Responses
    <3> QED
      BY <2>2, <3>1 DEF TrueResponses, TrueAnswers
  <2>8. /\ UNCHANGED <<live, toTab>>
        /\ toHost' \in [Tabs -> Seq(Responses)] /\ toHost'[t] \in Seq(TrueResponses(t)')
        /\ \A e : p("INDETERMINATE_MUTATION") # e =>
                     /\ Absent(toHost[t], e) => Absent(toHost'[t], e)
                     /\ AtMostOnce(toHost[t], e) => AtMostOnce(toHost'[t], e)
    BY <2>1, <2>2, <2>6, <2>7, AnswerTrue
  <2>9. \A r \in Mutations : p("INDETERMINATE_MUTATION") # Refusal(r)
    BY <2>2 DEF Refusal
  <2> HIDE DEF p
  <2>10. ASSUME NEW r \in Mutations
         PROVE  /\ Absent(toHost[t], Refusal(r)) => Absent(toHost'[t], Refusal(r))
                /\ AtMostOnce(toHost[t], Refusal(r)) => AtMostOnce(toHost'[t], Refusal(r))
    BY <2>8, <2>9
  <2> QED
    BY <1>1, <1>2, <2>1, <2>5, <2>6, <2>8, <2>10, BeginEnds
<1>7. CASE BeginFresh(t, q)
  <2>1. /\ responses[q] = None /\ flight[t][q] = None
        /\ UNCHANGED <<live, toTab, toHost>>
    BY <1>7 DEF BeginFresh, Fresh, wireVars
  <2>2. PICK f \in Flights : ~f.running /\ flight' = [flight EXCEPT ![t][q] = f]
    <3>1. PICK late \in BOOLEAN :
             flight' = [flight EXCEPT ![t][q] = [running |-> FALSE, aborted |-> late, waiters |-> 1]]
      BY <1>7 DEF BeginFresh, Launch
    <3> DEFINE begun == [running |-> FALSE, aborted |-> late, waiters |-> 1]
    <3>2. begun \in Flights /\ ~begun.running
      BY DEF Flights
    <3>3. flight' = [flight EXCEPT ![t][q] = begun]
      BY <3>1
    <3> HIDE DEF begun
    <3> QED
      BY <3>2, <3>3
  <2>3. flight'[t][q] = f /\ \A r \in Ids \ {q} : flight'[t][r] = flight[t][r]
    BY <1>2, <2>2, FlightEntry
  <2>4. ASSUME NEW r \in Mutations
        PROVE  flight'[t][r] # None =>
                  memory[t].responses[r] = None /\ (flight'[t][r].running => invoked[r] > 0)
    BY <1>3, <2>1, <2>2, <2>3 DEF PageInv
  <2>5. ASSUME NEW r \in Mutations PROVE PageInv(t, r)' /\ Sealed(t, r)' = Sealed(t, r)
    <3>1. CASE q \in Mutations
      <4>1. Saved(t, responses, guards \cup {q}) /\ guards \cup {q} \in SUBSET Mutations
        BY <1>2, <1>7, <3>1 DEF BeginFresh
      <4>2. responses[r] = memory[t].responses[r]
        OBVIOUS
      <4> HIDE DEF responses
      <4> QED
        BY <1>2, <1>3, <2>4, <4>1, <4>2, WriteKeeps
    <3>2. CASE q \notin Mutations
      <4>1. UNCHANGED <<memory, store>>
        BY <1>7, <3>2 DEF BeginFresh
      <4> QED
        BY <1>2, <1>3, <2>4, <4>1 DEF PageInv, Sealed
    <3> QED
      BY <3>1, <3>2
  <2>6. Grows(t)
    BY <1>2, <2>5 DEF Grows
  <2>7. toHost'[t] \in Seq(TrueResponses(t)')
    BY <1>3, <2>1, <2>6, TruthStays, SeqOfMore
  <2> QED
    BY <1>1, <1>2, <1>3, <2>1, <2>3, <2>5, <2>6, <2>7, BeginEnds
<1>8. CASE BeginUnguarded(t, q)
  <2>1. /\ responses[q] = None /\ flight[t][q] = None /\ q \notin guards /\ q \in Mutations
        /\ NotSaved(t, responses, guards) /\ Answer(t, q, "NOT_DISPATCHED", 1) /\ UNCHANGED flight
    BY <1>8 DEF BeginUnguarded, Fresh, Recovered
  <2>2. invoked[q] = 0
    BY <1>2, <2>1 DEF RequestInv, PageTypeOK, Remembers
  <2>3. ASSUME NEW r \in Mutations PROVE PageInv(t, r)' /\ Sealed(t, r)' = Sealed(t, r)
    <3>1. flight'[t][r] # None =>
             memory[t].responses[r] = None /\ (flight'[t][r].running => invoked[r] > 0)
      BY <1>3, <2>1 DEF PageInv
    <3>2. responses[r] = memory[t].responses[r]
      OBVIOUS
    <3> HIDE DEF responses, guards
    <3> QED
      BY <1>2, <1>3, <2>1, <3>1, <3>2, WriteKeeps
  <2>4. Grows(t)
    BY <1>2, <2>3 DEF Grows
  <2>5. p("NOT_DISPATCHED") \in TrueResponses(t)' /\ "NOT_DISPATCHED" \in Answers
    BY <1>3 DEF Executed, TrueResponses, TrueAnswers, Responses, Answers
  <2>6. /\ UNCHANGED <<live, toTab>>
        /\ toHost' \in [Tabs -> Seq(Responses)] /\ toHost'[t] \in Seq(TrueResponses(t)')
        /\ \A e : p("NOT_DISPATCHED") # e =>
                     /\ Absent(toHost[t], e) => Absent(toHost'[t], e)
                     /\ AtMostOnce(toHost[t], e) => AtMostOnce(toHost'[t], e)
        /\ \A e : Absent(toHost[t], e) => AtMostOnce(toHost'[t], e)
    BY <2>1, <2>4, <2>5, AnswerTrue
  <2>7. ASSUME NEW r \in Mutations, r # q
        PROVE  /\ Absent(toHost[t], Refusal(r)) => Absent(toHost'[t], Refusal(r))
               /\ AtMostOnce(toHost[t], Refusal(r)) => AtMostOnce(toHost'[t], Refusal(r))
    <3>1. p("NOT_DISPATCHED") # Refusal(r)
      BY <2>7 DEF Refusal
    <3> HIDE DEF p
    <3> QED
      BY <2>6, <3>1
  <2>8. VerdictInv(t, q)'
    <3>1. SUFFICES ASSUME Doubtful(t, q)' PROVE VerdictInv(t, q)'
      BY DEF VerdictInv
    <3>2. Doubtful(t, q) /\ Out(q)' = Out(q)
      BY <1>2, <2>1, <2>3, <3>1 DEF Doubtful, Warned, Out
    <3>3. /\ Out(q) /\ Absent(toHost[t], Refusal(q)) /\ Absent(toTab[t], RequestFrame(q))
          /\ AtMostOnce(toTab[t], RequestFrame(q))
      BY <1>1, <1>3, <2>1, <3>2 DEF VerdictInv, Untried
    <3>4. taken'[t] # q
      BY <1>2, RequestsAssumption DEF PageTypeOK
    <3>5. Untried(t, q)'
      BY <1>2, <2>1, <2>2, <2>6, <3>3, <3>4, UntriedStays
    <3>6. AtMostOnce(toHost'[t], Refusal(q))
      BY <2>6, <3>3
    <3>7. RequestFrame(q)' = RequestFrame(q) /\ Refusal(q)' = Refusal(q)
      BY DEF RequestFrame, Refusal
    <3> QED
      BY <2>6, <3>2, <3>3, <3>4, <3>5, <3>6, <3>7 DEF VerdictInv, Absent, AtMostOnce
  <2> HIDE DEF p
  <2> QED
    BY <1>1, <1>2, <2>1, <2>3, <2>4, <2>6, <2>7, <2>8, BeginEnds
<1> QED
  BY <1>1, <1>4, <1>5, <1>6, <1>7, <1>8 DEF Begin

----------------------------------------------------------------------------
LEMMA HonestInit ==
    ASSUME NEW t \in Tabs
    PROVE  Init => HonestInv(t)
<1> SUFFICES ASSUME Init PROVE HonestInv(t)
  OBVIOUS
<1>1. RequestInv
  BY RequestInitInv
<1>2. /\ \A r \in Mutations : r \in Ids /\ None \notin NeverRan /\ None \notin Executed /\ None # r
  BY RequestsAssumption DEF Executed, Answers, MayHaveRun
<1>3. PendingTypeOK
  <2>1. {r \in Ids : pending[r] # None} = {}
    BY DEF Init
  <2>2. IsFiniteSet({r \in Ids : pending[r] # None})
    BY <2>1, FS_EmptySet
  <2> QED
    BY <2>2 DEF Init, PendingTypeOK
<1>4. /\ toTab[t] = <<>> /\ toHost[t] = <<>> /\ completed = <<>> /\ taken[t] = None
      /\ \A r \in Ids : memory[t].responses[r] = None /\ store.responses[r] = None
      /\ \A r \in Ids : flight[t][r] = None /\ told[r] = {}
      /\ \A r \in Mutations : invoked[r] = 0
  BY DEF Init, EmptyState, NoAnswers
<1>5. \A r \in Mutations : PageInv(t, r)
  BY <1>2, <1>4 DEF PageInv, Sealed
<1>6. \A r \in Mutations : VerdictInv(t, r)
  BY <1>2, <1>4, AbsentEmpty DEF VerdictInv, Untried
<1>7. toHost[t] \in Seq(TrueResponses(t)) /\ completed \in Seq(TrueAnswers)
  BY <1>4
<1> QED
  BY <1>1, <1>2, <1>3, <1>4, <1>5, <1>6, <1>7 DEF HonestInv

(* Every step keeps the verdicts honest, with one tab.                     *)
LEMMA HonestStep ==
    ASSUME NEW t \in Tabs, Tabs = {t}, HonestInv(t), [Next]_vars
    PROVE  HonestInv(t)'
<1>1. RequestInv'
  BY RequestStep DEF HonestInv
<1>2. CASE UNCHANGED vars
  <2>1. /\ UNCHANGED pageVars /\ UNCHANGED <<pending, completed, told, live, toTab, toHost>>
    BY <1>2 DEF vars, hostVars, wireVars
  <2>2. PendingTypeOK' /\ completed' \in Seq(TrueAnswers')
    BY <2>1, PageUntouched, TruthStays, SeqOfMore DEF HonestInv, PendingTypeOK
  <2>3. \A r \in Mutations : Out(r)' = Out(r) /\ (told'[r] \cap Executed # {} => invoked[r] > 0)
    BY <2>1 DEF Out, HonestInv
  <2> QED
    BY <1>1, <2>1, <2>2, <2>3, QuietStep
<1>3. CASE Next
  <2>1. CASE \E r \in Ids : RequestAgain(r) \/ RequestTooLate(r) \/ Request(r)
    BY <1>1, <2>1, AtOnceHonest, RequestHonest
  <2>2. CASE \E r \in Ids : CancelPending(r) \/ CancelUnacknowledged(r)
    BY <1>1, <2>2, CancelHonest, UnacknowledgedHonest
  <2>3. CASE ReceiveResponse \/ HostRestart
    BY <1>1, <2>3, ReceiveHonest, RestartHonest
  <2>4. CASE HostSocketClosed \/ HostDrop \/ Connect(t) \/ SocketClosed(t) \/ BrowserDrop(t)
    BY <1>1, <2>4, SocketHonest
  <2>5. CASE Activate(t)
    BY <1>1, <2>5, ActivateHonest
  <2>6. CASE Receive(t) \/ Begin(t) \/ PersistForEvents(t)
    BY <1>1, <2>6, ReceiveFrameHonest, BeginHonest, PersistHonest
  <2>7. CASE \E r \in Ids : Dispatch(t, r) \/ PageDeadline(t, r) \/ Finish(t, r)
    BY <1>1, <2>7, ExecutionHonest, FinishHonest
  <2>8. CASE Stop(t) \/ Reload(t)
    BY <1>1, <2>8, StopHonest
  <2> QED
    BY <1>3, <2>1, <2>2, <2>3, <2>4, <2>5, <2>6, <2>7, <2>8 DEF Next
<1> QED
  BY <1>2, <1>3

LEMMA HonestVerdictOf ==
    ASSUME NEW t \in Tabs, HonestInv(t)
    PROVE  HonestVerdict
<1> SUFFICES ASSUME NEW r \in Mutations, invoked[r] > 0
             PROVE  pending[r] # None \/ told[r] \cap MayHaveRun # {}
  BY DEF Executed, HonestVerdict, HonestInv
<1>1. ~Untried(t, r) /\ ~Sealed(t, r)
  BY DEF HonestInv, PageInv, Untried
<1> QED
  BY <1>1 DEF HonestInv, VerdictInv, Doubtful, Warned, Out

(* With one tab, the callers of a mutation are never all told that it did  *)
(* not run when it did, and success is reported only for one that ran.     *)
THEOREM VerdictHolds ==
    ASSUME NEW tab \in Tabs, Tabs = {tab}
    PROVE  Spec => []HonestVerdict
<1>1. Init => HonestInv(tab)
  BY HonestInit
<1>2. HonestInv(tab) /\ [Next]_vars => HonestInv(tab)'
  BY HonestStep
<1>3. HonestInv(tab) => HonestVerdict
  BY HonestVerdictOf
<1> QED
  BY <1>1, <1>2, <1>3, PTL DEF Spec

----------------------------------------------------------------------------
(* The types of the two sides.                                             *)
BoundsOK == link \in [Tabs -> LinkStates] /\ Len(completed) <= MaxCompleted

(* A socket goes from one of its states to another.                        *)
LEMMA LinkStep ==
    ASSUME link \in [Tabs -> LinkStates], Next
    PROVE  link' \in [Tabs -> LinkStates]
<1>1. \A t \in Tabs, s \in LinkStates : [link EXCEPT ![t] = s] \in [Tabs -> LinkStates]
  OBVIOUS
<1>2. {"none", "opening", "open", "closing"} \subseteq LinkStates
  BY DEF LinkStates
<1>3. ASSUME NEW t \in Tabs, NEW r, NEW answer, NEW n, Answer(t, r, answer, n)
      PROVE  link' \in [Tabs -> LinkStates]
  BY <1>1, <1>2, <1>3 DEF Answer
<1>4. CASE UNCHANGED link
  BY <1>4
<1>5. CASE \E r \in Ids : \/ RequestAgain(r) \/ RequestTooLate(r) \/ Request(r)
                          \/ CancelPending(r) \/ CancelUnacknowledged(r)
  <2>1. UNCHANGED link
    BY <1>5 DEF RequestAgain, RequestTooLate, Request, CancelPending, CancelUnacknowledged, wireVars
  <2> QED
    BY <2>1, <1>4
<1>6. CASE ReceiveResponse \/ HostSocketClosed
  BY <1>4, <1>6 DEF ReceiveResponse, HostSocketClosed
<1>7. CASE \E t \in Tabs : Connect(t) \/ SocketClosed(t) \/ BrowserDrop(t) \/ Stop(t) \/ Reload(t)
  BY <1>1, <1>2, <1>7 DEF Connect, SocketClosed, BrowserDrop, Stop, Reload
<1>8. ASSUME NEW t \in Tabs, Activate(t)
      PROVE  link' \in [Tabs -> LinkStates]
  <2>1. link' = [u \in Tabs |->
                   CASE u = t -> "open"
                     [] u # t /\ u = live /\ link[u] = "open" -> "closing"
                     [] OTHER -> link[u]]
    BY <1>8 DEF Activate
  <2> QED
    BY <1>2, <2>1
<1>9. ASSUME NEW t \in Tabs, Receive(t) \/ PersistForEvents(t)
      PROVE  link' \in [Tabs -> LinkStates]
  BY <1>4, <1>9 DEF Receive, PersistForEvents, wireVars
<1>10. ASSUME NEW t \in Tabs, Begin(t)
       PROVE  link' \in [Tabs -> LinkStates]
  BY <1>3, <1>4, <1>10
  DEF Begin, BeginCached, BeginJoined, BeginRecovered, BeginFresh, BeginUnguarded, wireVars
<1>11. ASSUME NEW t \in Tabs, NEW r \in Ids, Dispatch(t, r) \/ PageDeadline(t, r) \/ Finish(t, r)
       PROVE  link' \in [Tabs -> LinkStates]
  BY <1>3, <1>4, <1>11 DEF Dispatch, PageDeadline, Finish, wireVars
<1>12. CASE HostDrop
  <2>1. Dying(live) \in LinkStates
    BY <1>2 DEF Dying
  <2>2. link' = [link EXCEPT ![live] = Dying(live)]
    BY <1>12 DEF HostDrop
  <2> QED
    BY <2>1, <2>2
<1>13. CASE HostRestart
  BY <1>2, <1>13 DEF HostRestart, Dying
<1> QED
  BY <1>5, <1>6, <1>7, <1>8, <1>9, <1>10, <1>11, <1>12, <1>13 DEF Next

(* The table of completed answers stays within its bound: the oldest goes  *)
(* when a new one does not fit.                                            *)
LEMMA CompletedStep ==
    ASSUME completed \in Seq(Responses), Len(completed) <= MaxCompleted, PendingTypeOK, Next
    PROVE  Len(completed') <= MaxCompleted
<1>1. CASE UNCHANGED completed
  BY <1>1
<1>2. CASE ReceiveResponse
  <2>1. \/ UNCHANGED completed
        \/ \E p \in Responses : completed' = Newest(Append(completed, p))
    <3>1. live \in Tabs /\ toHost[live] \in Seq(Responses) /\ toHost[live] # <<>>
      BY <1>2, RequestsAssumption DEF ReceiveResponse, PendingTypeOK
    <3>2. Head(toHost[live]) \in Responses
      BY <3>1
    <3> QED
      BY <1>2, <3>2 DEF ReceiveResponse
  <2>2. ASSUME NEW p \in Responses, completed' = Newest(Append(completed, p))
        PROVE  Len(completed') <= MaxCompleted
    <3>1. /\ Len(Append(completed, p)) = Len(completed) + 1 /\ Len(completed) \in Nat
          /\ Len(Tail(Append(completed, p))) = Len(completed)
      OBVIOUS
    <3> QED
      BY <2>2, <3>1, RequestsAssumption DEF Newest
  <2> QED
    BY <1>1, <2>1, <2>2
<1>3. CASE HostRestart
  BY <1>3, RequestsAssumption DEF HostRestart
<1>4. CASE \E r \in Ids : \/ RequestAgain(r) \/ RequestTooLate(r) \/ Request(r)
                          \/ CancelPending(r) \/ CancelUnacknowledged(r)
  BY <1>1, <1>4 DEF RequestAgain, RequestTooLate, Request, CancelPending, CancelUnacknowledged
<1>5. CASE \/ HostSocketClosed \/ HostDrop
           \/ \E t \in Tabs : \/ Connect(t) \/ Activate(t) \/ SocketClosed(t) \/ Receive(t)
                              \/ Begin(t) \/ PersistForEvents(t)
                              \/ BrowserDrop(t) \/ Stop(t) \/ Reload(t)
                              \/ \E r \in Ids : Dispatch(t, r) \/ PageDeadline(t, r) \/ Finish(t, r)
  <2>1. UNCHANGED completed
    BY <1>5 DEF HostSocketClosed, HostDrop, Connect, Activate, SocketClosed, Receive, Begin,
      PersistForEvents, BrowserDrop, Stop, Reload, Dispatch, PageDeadline, Finish, hostVars
  <2> QED
    BY <1>1, <2>1
<1> QED
  BY <1>2, <1>3, <1>4, <1>5 DEF Next

(* With one tab, the state of the two sides keeps its types, the table of  *)
(* completed answers its bound, and what was handed to Foundry stays       *)
(* remembered on disk (companion-server.ts, #pending and #completed, and   *)
(* companion-client.ts, #persist).                                         *)
THEOREM RequestsInvHolds ==
    ASSUME NEW tab \in Tabs, Tabs = {tab}
    PROVE  Spec => []RequestsInv
<1>1. Init => HonestInv(tab) /\ BoundsOK
  <2> SUFFICES ASSUME Init PROVE HonestInv(tab) /\ BoundsOK
    OBVIOUS
  <2>1. BoundsOK
    BY RequestsAssumption DEF Init, BoundsOK, LinkStates
  <2> QED
    BY <2>1, HonestInit
<1>2. HonestInv(tab) /\ BoundsOK /\ [Next]_vars => HonestInv(tab)' /\ BoundsOK'
  <2> SUFFICES ASSUME HonestInv(tab), BoundsOK, [Next]_vars PROVE BoundsOK'
    BY HonestStep
  <2>1. CASE UNCHANGED vars
    BY <2>1 DEF vars, hostVars, wireVars, BoundsOK
  <2>2. CASE Next
    <3>1. completed \in Seq(Responses) /\ PendingTypeOK
      BY DEF HonestInv, PendingTypeOK
    <3> QED
      BY <2>2, <3>1, LinkStep, CompletedStep DEF BoundsOK
  <2> QED
    BY <2>1, <2>2
<1>3. HonestInv(tab) /\ BoundsOK => RequestsInv
  <2> SUFFICES ASSUME HonestInv(tab), BoundsOK PROVE RequestsInv
    OBVIOUS
  <2>1. PageTypeOK /\ PendingTypeOK /\ InvokedIsRemembered
    BY DEF HonestInv, RequestInv
  <2>2. \A s \in {memory[t] : t \in Tabs} \cup {store} : s \in States
    BY <2>1 DEF PageTypeOK
  <2>3. \A s \in States : s.responses \in [Ids -> Answers \cup {None}] /\ s.guards \subseteq Mutations
    BY DEF States
  <2>4. \A t \in Tabs, r \in Ids : flight[t][r] = None \/ flight[t][r] \in Flights
    BY <2>1 DEF PageTypeOK
  <2>5. TypeOK
    BY <2>1, <2>2, <2>3, <2>4 DEF TypeOK, BoundsOK, PendingTypeOK, PageTypeOK, Responses
  <2> QED
    BY <2>1, <2>5 DEF RequestsInv
<1> QED
  BY <1>1, <1>2, <1>3, PTL DEF Spec
----------------------------------------------------------------------------

----------------------------------------------------------------------------
(* The abstract mutation.  What a step does to one mutation m: nothing is  *)
(* told and no call of it ends; or it is handed to Foundry; or its callers *)
(* are told an answer.                                                     *)
Waits(m)  == told'[m] = told[m] /\ invoked'[m] = invoked[m] /\ (pending[m] # None => pending'[m] # None)
Runs(m)   == told'[m] = told[m] /\ invoked'[m] = invoked[m] + 1 /\ pending'[m] = pending[m]
Told(m)   ==
    /\ \E answer \in Answers : told'[m] = told[m] \cup {answer}
    /\ invoked'[m] = invoked[m] /\ (pending'[m] # None => pending[m] # None)

(* What an execution answered is told only after it ran, so that of all the *)
(* answers that leave its callers in doubt only two can come before a run. *)
ExecutedRan == \A r \in Mutations : told[r] \cap Executed # {} => invoked[r] > 0

(* Honest verdicts and one run at most make each of the three a step of    *)
(* the abstract mutation, or a stutter of it.                              *)
LEMMA MutationStep ==
    ASSUME NEW m \in Mutations, invoked \in [Mutations -> Nat], ExecutedRan,
           HonestVerdict', MutationRunsAtMostOnce', Waits(m) \/ Runs(m) \/ Told(m)
    PROVE  Service(m)!Step
<1>1. /\ invoked'[m] > 0 => pending'[m] # None \/ told'[m] \cap MayHaveRun # {}
      /\ "ok" \in told'[m] => invoked'[m] > 0
      /\ invoked'[m] <= 1 /\ invoked[m] \in Nat
  BY DEF HonestVerdict, MutationRunsAtMostOnce
<1>2. CASE Waits(m)
  <2>1. CASE pending[m] = None /\ pending'[m] # None
    BY <1>2, <2>1 DEF Waits, Service!Step, Service!Next, Service!Ask
  <2>2. CASE (pending[m] # None) = (pending'[m] # None)
    BY <1>2, <2>2 DEF Waits, Service!Step
  <2> QED
    BY <1>2, <2>1, <2>2 DEF Waits
<1>3. CASE Runs(m)
  <2>1. invoked[m] = 0 /\ invoked'[m] = 1
    BY <1>1, <1>3 DEF Runs
  <2>2. pending[m] # None \/ told[m] \cap {"INDETERMINATE_MUTATION", "LOST"} # {}
    BY <1>1, <1>3, <2>1 DEF Runs, ExecutedRan, Executed, MayHaveRun
  <2>3. Service(m)!Run
    BY <1>3, <2>1, <2>2 DEF Runs, Service!Run, Service!Told
  <2> QED
    BY <2>3 DEF Service!Step, Service!Next
<1>4. CASE Told(m)
  <2>1. PICK answer \in Answers : told'[m] = told[m] \cup {answer}
    BY <1>4 DEF Told
  <2>2. Service(m)!Tell
    BY <1>1, <1>4, <2>1 DEF Told, Service!Tell, Service!Told
  <2> QED
    BY <2>2 DEF Service!Step, Service!Next
<1> QED
  BY <1>2, <1>3, <1>4

(* An answer is told to the callers of one id.                             *)
LEMMA TellOne ==
    ASSUME PendingTypeOK, invoked' = invoked, NEW q \in Ids, NEW answer \in Answers, Tell(q, answer),
           pending' = pending \/ pending' = [pending EXCEPT ![q] = None]
    PROVE  \A m \in Mutations : Waits(m) \/ Told(m)
<1> SUFFICES ASSUME NEW m \in Mutations PROVE Waits(m) \/ Told(m)
  OBVIOUS
<1>1. /\ m \in Ids /\ invoked'[m] = invoked[m]
      /\ told'[q] = told[q] \cup {answer} /\ \A r \in Ids \ {q} : told'[r] = told[r]
      /\ \A r \in Ids \ {q} : pending'[r] = pending[r]
      /\ pending'[q] = pending[q] \/ pending'[q] = None
  BY RequestsAssumption DEF PendingTypeOK, Tell
<1> QED
  BY <1>1 DEF Waits, Told

(* The steps of the host that end calls or answer them.                    *)
LEMMA AnswerSteps ==
    ASSUME NEW t \in Tabs, HonestInv(t),
           \/ \E q \in Ids : RequestAgain(q) \/ RequestTooLate(q) \/ CancelUnacknowledged(q)
           \/ ReceiveResponse
    PROVE  \A m \in Mutations : Waits(m) \/ Told(m)
<1>1. PendingTypeOK /\ \A i \in 1 .. Len(completed) : completed[i].answer \in Answers
  <2>1. PendingTypeOK /\ completed \in Seq(Responses)
    BY DEF HonestInv, PendingTypeOK
  <2>2. \A p \in Responses : p.answer \in Answers
    BY DEF Responses
  <2> QED
    BY <2>1, <2>2
<1>2. ASSUME NEW q \in Ids, RequestAgain(q) PROVE \A m \in Mutations : Waits(m) \/ Told(m)
  <2>1. /\ UNCHANGED pending /\ UNCHANGED invoked
        /\ \E i \in 1 .. Len(completed) : Tell(q, completed[i].answer)
    BY <1>2 DEF RequestAgain, CompletedAnswers, pageVars
  <2> QED
    BY <1>1, <2>1, TellOne
<1>3. ASSUME NEW q \in Ids, RequestTooLate(q) PROVE \A m \in Mutations : Waits(m) \/ Told(m)
  <2>1. UNCHANGED pending /\ UNCHANGED invoked /\ Tell(q, "CANCELLED") /\ "CANCELLED" \in Answers
    BY <1>3 DEF RequestTooLate, pageVars, Answers, NeverRan
  <2> QED
    BY <1>1, <2>1, TellOne
<1>4. ASSUME NEW q \in Ids, CancelUnacknowledged(q) PROVE \A m \in Mutations : Waits(m) \/ Told(m)
  <2>1. /\ pending' = [pending EXCEPT ![q] = None] /\ UNCHANGED invoked
        /\ Tell(q, CancelVerdict(q, pending[q])) /\ CancelVerdict(q, pending[q]) \in Answers
    BY <1>4 DEF CancelUnacknowledged, CancelVerdict, pageVars, Answers, NeverRan, MayHaveRun
  <2> QED
    BY <1>1, <2>1, TellOne
<1>5. CASE ReceiveResponse
  <2>1. live \in Tabs /\ toHost[live] \in Seq(Responses) /\ toHost[live] # <<>>
    BY <1>1, <1>5, RequestsAssumption DEF ReceiveResponse, PendingTypeOK
  <2>2. Head(toHost[live]) \in Responses
    BY <2>1
  <2>3. PICK p \in Responses :
           /\ UNCHANGED invoked
           /\ \/ pending' = [pending EXCEPT ![p.id] = None] /\ Tell(p.id, p.answer)
              \/ UNCHANGED <<pending, told>>
    BY <1>5, <2>2 DEF ReceiveResponse, pageVars
  <2>4. p.id \in Ids /\ p.answer \in Answers
    BY DEF Responses
  <2>5. CASE pending' = [pending EXCEPT ![p.id] = None] /\ Tell(p.id, p.answer)
    BY <1>1, <2>3, <2>4, <2>5, TellOne
  <2>6. CASE UNCHANGED <<pending, told>>
    BY <2>3, <2>6 DEF Waits
  <2> QED
    BY <2>3, <2>5, <2>6
<1> QED
  BY <1>2, <1>3, <1>4, <1>5

(* A restart of the host ends every call with an answer.                   *)
LEMMA RestartStep ==
    ASSUME NEW t \in Tabs, HonestInv(t), HostRestart
    PROVE  \A m \in Mutations : Waits(m) \/ Told(m)
<1> SUFFICES ASSUME NEW m \in Mutations PROVE Waits(m) \/ Told(m)
  OBVIOUS
<1>1. /\ m \in Ids /\ UNCHANGED invoked /\ pending' = [r \in Ids |-> None] /\ PendingTypeOK
  BY RequestsAssumption DEF HostRestart, HonestInv, pageVars
<1>2. PICK crash \in BOOLEAN :
         told' = [r \in Ids |->
                    IF pending[r] = None THEN told[r]
                    ELSE told[r] \cup {IF crash THEN "LOST" ELSE ShutdownVerdict(r, pending[r])}]
  BY DEF HostRestart
<1>3. (IF crash THEN "LOST" ELSE ShutdownVerdict(m, pending[m])) \in Answers
  BY DEF ShutdownVerdict, CancelVerdict, Answers, NeverRan, MayHaveRun
<1>4. CASE pending[m] = None
  BY <1>1, <1>2, <1>4 DEF Waits
<1>5. CASE pending[m] # None
  BY <1>1, <1>2, <1>3, <1>5 DEF Told
<1> QED
  BY <1>4, <1>5

(* Calls, cancellations and a socket that is activated end no call; the    *)
(* page runs a mutation or nothing.                                        *)
LEMMA QuietOrRuns ==
    ASSUME NEW t \in Tabs, HonestInv(t), NEW u \in Tabs, NEW q \in Ids,
           \/ Request(q) \/ CancelPending(q) \/ Activate(u)
           \/ HostSocketClosed \/ HostDrop \/ Connect(u) \/ SocketClosed(u) \/ BrowserDrop(u)
           \/ Receive(u) \/ Begin(u) \/ PersistForEvents(u) \/ Stop(u) \/ Reload(u)
           \/ Dispatch(u, q) \/ PageDeadline(u, q) \/ Finish(u, q)
    PROVE  \A m \in Mutations : Waits(m) \/ Runs(m)
<1> SUFFICES ASSUME NEW m \in Mutations PROVE Waits(m) \/ Runs(m)
  OBVIOUS
<1>1. /\ PendingTypeOK /\ m \in Ids /\ None \notin Calls /\ invoked \in [Mutations -> Nat]
  BY RequestsAssumption DEF HonestInv, RequestInv, PageTypeOK
<1>2. CASE Request(q)
  <2>1. /\ UNCHANGED told /\ UNCHANGED invoked /\ pending[q] = None
        /\ pending' = [pending EXCEPT ![q] = [dispatched |-> live # None, cancelled |-> FALSE]]
    BY <1>2 DEF Request, pageVars
  <2> QED
    BY <1>1, <2>1 DEF PendingTypeOK, Waits
<1>3. CASE CancelPending(q)
  <2>1. /\ UNCHANGED told /\ UNCHANGED invoked /\ pending[q] \in Calls
        /\ pending' = [pending EXCEPT ![q] = [@ EXCEPT !.cancelled = TRUE]]
    BY <1>1, <1>3 DEF CancelPending, pageVars, PendingTypeOK
  <2>2. [pending[q] EXCEPT !.cancelled = TRUE] \in Calls
    BY <2>1 DEF Calls
  <2> QED
    BY <1>1, <2>1, <2>2 DEF PendingTypeOK, Waits
<1>4. CASE Activate(u)
  <2>1. /\ UNCHANGED told /\ UNCHANGED invoked
        /\ pending'[m] = IF Resent(m) THEN [pending[m] EXCEPT !.dispatched = TRUE] ELSE pending[m]
    BY <1>1, <1>4 DEF Activate, pageVars
  <2>2. pending[m] \in Calls => [pending[m] EXCEPT !.dispatched = TRUE] \in Calls
    BY DEF Calls
  <2> QED
    BY <1>1, <2>1, <2>2 DEF PendingTypeOK, Waits
<1>5. CASE \/ HostSocketClosed \/ HostDrop \/ Connect(u) \/ SocketClosed(u) \/ BrowserDrop(u)
           \/ Receive(u) \/ Begin(u) \/ PersistForEvents(u) \/ Stop(u) \/ Reload(u)
           \/ PageDeadline(u, q) \/ Finish(u, q)
  <2>1. UNCHANGED <<pending, told, invoked>>
    BY <1>5 DEF HostSocketClosed, HostDrop, Connect, SocketClosed, BrowserDrop, Receive, Begin,
      PersistForEvents, Stop, Reload, PageDeadline, Finish, hostVars, pageVars
  <2> QED
    BY <2>1 DEF Waits
<1>6. CASE Dispatch(u, q)
  <2>1. /\ UNCHANGED <<pending, told>>
        /\ invoked' = IF q \in Mutations THEN [invoked EXCEPT ![q] = @ + 1] ELSE invoked
    BY <1>6 DEF Dispatch, hostVars
  <2>2. invoked'[m] = invoked[m] \/ invoked'[m] = invoked[m] + 1
    BY <1>1, <2>1
  <2> QED
    BY <2>1, <2>2 DEF Waits, Runs
<1> QED
  BY <1>2, <1>3, <1>4, <1>5, <1>6

(* With one tab, every step does one of the three to every mutation.       *)
LEMMA MutationSteps ==
    ASSUME NEW t \in Tabs, HonestInv(t), Next, NEW m \in Mutations
    PROVE  Waits(m) \/ Runs(m) \/ Told(m)
<1>1. m \in Ids
  BY RequestsAssumption
<1>2. CASE \/ \E q \in Ids : RequestAgain(q) \/ RequestTooLate(q) \/ CancelUnacknowledged(q)
           \/ ReceiveResponse
  BY <1>2, AnswerSteps
<1>3. CASE HostRestart
  BY <1>3, RestartStep
<1>4. CASE \E u \in Tabs, q \in Ids :
              \/ Request(q) \/ CancelPending(q) \/ Activate(u)
              \/ HostSocketClosed \/ HostDrop \/ Connect(u) \/ SocketClosed(u) \/ BrowserDrop(u)
              \/ Receive(u) \/ Begin(u) \/ PersistForEvents(u) \/ Stop(u) \/ Reload(u)
              \/ Dispatch(u, q) \/ PageDeadline(u, q) \/ Finish(u, q)
  BY <1>4, QuietOrRuns
<1> QED
  BY <1>1, <1>2, <1>3, <1>4 DEF Next

(* With one tab, the host's request table, the sockets and the page with   *)
(* its cache, guards and executions do for every mutation what Mutation    *)
(* promises: it runs once, for callers who wait or know that it may, and   *)
(* none of them is left with a denial of what ran (companion-server.ts     *)
(* and companion-client.ts).                                               *)
THEOREM CompanionImplementsMutation ==
    ASSUME NEW tab \in Tabs, Tabs = {tab}
    PROVE  Spec => CompanionServes
<1>1. Init => HonestInv(tab)
  BY HonestInit
<1>2. HonestInv(tab) /\ [Next]_vars => HonestInv(tab)'
  BY HonestStep
<1>3. Init => \A m \in Mutations : Service(m)!Init
  <2> SUFFICES ASSUME Init, NEW m \in Mutations PROVE Service(m)!Init
    OBVIOUS
  <2>1. pending[m] = None /\ told[m] = {} /\ invoked[m] = 0
    BY RequestsAssumption DEF Init
  <2> QED
    BY <2>1 DEF Service!Init
<1>4. HonestInv(tab) => HonestVerdict /\ MutationRunsAtMostOnce
  BY HonestVerdictOf DEF HonestInv, RequestInv
<1>5. /\ HonestInv(tab) /\ [Next]_vars /\ HonestVerdict' /\ MutationRunsAtMostOnce'
      =>
      [\A m \in Mutations : Service(m)!Step]_vars
  <2> SUFFICES ASSUME HonestInv(tab), Next, HonestVerdict', MutationRunsAtMostOnce',
                      NEW m \in Mutations
               PROVE  Service(m)!Step
    OBVIOUS
  <2>1. invoked \in [Mutations -> Nat] /\ ExecutedRan
    BY DEF HonestInv, RequestInv, PageTypeOK, ExecutedRan
  <2> QED
    BY <2>1, MutationSteps, MutationStep
<1> QED
  BY <1>1, <1>2, <1>3, <1>4, <1>5, PTL DEF Spec, CompanionServes

(* The promises of Mutation are the two properties of its callers: whoever *)
(* keeps them runs a mutation once and leaves nobody with a lie, whatever  *)
(* the page and the sockets do.                                            *)
THEOREM ServiceIsHonest == CompanionServes => [](MutationRunsAtMostOnce /\ HonestVerdict)
<1> DEFINE Promised ==
      \A m \in Mutations :
          /\ invoked[m] \in {0, 1}
          /\ invoked[m] > 0 => pending[m] # None \/ told[m] \cap MayHaveRun # {}
          /\ "ok" \in told[m] => invoked[m] > 0
<1>1. (\A m \in Mutations : Service(m)!Init) => Promised
  BY DEF Service!Init
<1>2. Promised /\ [\A m \in Mutations : Service(m)!Step]_vars => Promised'
  <2> SUFFICES ASSUME Promised, [\A m \in Mutations : Service(m)!Step]_vars, NEW m \in Mutations
               PROVE  /\ invoked'[m] \in {0, 1}
                      /\ invoked'[m] > 0 => pending'[m] # None \/ told'[m] \cap MayHaveRun # {}
                      /\ "ok" \in told'[m] => invoked'[m] > 0
    OBVIOUS
  <2>2. CASE UNCHANGED vars
    BY <2>2 DEF vars, hostVars, pageVars
  <2>3. CASE UNCHANGED <<pending[m] # None, invoked[m], told[m]>>
    BY <2>3
  <2>4. CASE Service(m)!Ask
    BY <2>4 DEF Service!Ask
  <2>5. CASE Service(m)!Run
    BY <2>5 DEF Service!Run, Service!Told, MayHaveRun
  <2>6. CASE Service(m)!Tell
    BY <2>6 DEF Service!Tell, Service!Told
  <2> QED
    BY <2>2, <2>3, <2>4, <2>5, <2>6 DEF Service!Step, Service!Next
<1>3. Promised => MutationRunsAtMostOnce /\ HonestVerdict
  BY DEF MutationRunsAtMostOnce, HonestVerdict
<1> QED
  BY <1>1, <1>2, <1>3, PTL DEF CompanionServes
=============================================================================
