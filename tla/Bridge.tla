------------------------------- MODULE Bridge -------------------------------
(***************************************************************************)
(* The adapter's side of the bridge: connecting and authenticating the     *)
(* pipe (packages/host/src/bridge/pipe-client.ts, pipe-server.ts,          *)
(* bridge-auth.ts), the requests in flight with their deadlines and        *)
(* cancellations (packages/mcp-adapter/src/bridge-connection.ts), and what *)
(* the MCP client is told (packages/mcp-adapter/src/tools/bridge-tool.ts), *)
(* composed with the host's router.                                        *)
(***************************************************************************)
EXTENDS Router

CONSTANTS
    Hello,       \* the request "initialize" that negotiates the version
    Workloads,   \* sets of requests that are called
    MaxFrames,   \* MAX_AUTHENTICATED_FRAMES_PER_CONNECTION
    MaxDrops     \* bound: connections that break

ASSUME BridgeAssumption ==
    /\ Hello \in Requests \ (Mutations \cup Reporting)
    /\ Workloads \subseteq SUBSET (Requests \ {Hello})
    /\ MaxFrames \in Nat /\ MaxDrops \in Nat

VARIABLES
    client,    \* "connecting", "proved", "authenticated", "negotiated" or "closed"
    server,    \* "accepted", "initialized", "authenticated"
    seen,      \* nonces each end has seen
    toHost,    \* frames on their way to the host
    call,      \* per request: what the adapter knows of it
    drops

pipeVars == <<socket, client, server, seen, toHost, call, drops>>
vars == <<hostVars, pipeVars>>

Frame(type, q) == [type |-> type, id |-> q]
Plain(type) == [type |-> type, id |-> None]

----------------------------------------------------------------------------
(* Mutated forms.                                                          *)

GraceNever(q) == FALSE
RejectedOpen(q) == call[q]

----------------------------------------------------------------------------
(* What becomes of a call.                                                 *)

Pending(q) == call[q].at = "pending"
Told(q, answer) == call' = [call EXCEPT ![q] = [at |-> "told", answer |-> answer]]

\* cancellationWithoutAcknowledgement.
Unacknowledged(q) == IF q \in Mutations THEN "INDETERMINATE_MUTATION" ELSE "CANCELLED"

\* rejectPending and forwardBridgeTool: an error that is no envelope is
\* OFFLINE_BRIDGE, which may be retried.
Rejected(q) ==
    IF Pending(q)
    THEN [at |-> "told", answer |-> IF call[q].cancelled THEN Unacknowledged(q) ELSE "OFFLINE_BRIDGE"]
    ELSE call[q]

\* The connection is gone at both ends; the host may have read a part of what
\* was sent, and what it works on goes on.
Closed(kept) ==
    /\ socket' = FALSE /\ client' = "closed"
    /\ toAdapter' = <<>>
    /\ toHost' = SubSeq(toHost, 1, kept)
    /\ call' = [q \in Requests |-> Rejected(q)]

Close == \E kept \in 0 .. Len(toHost) : Closed(kept)

----------------------------------------------------------------------------
(* The adapter.                                                            *)

MayCall(q) == IF q = Hello THEN client = "authenticated" ELSE client = "negotiated"

Call(q) ==
    /\ call[q].at = "called" /\ MayCall(q)
    /\ call' = [call EXCEPT ![q] = [at |-> "pending", cancelled |-> FALSE]]
    /\ toHost' = Append(toHost, Frame("request", q))
    /\ UNCHANGED <<hostVars, socket, client, server, seen, drops>>

\* Cancelled, or its deadline over, before it is sent; or no connection.
CallRefused(q) ==
    /\ call[q].at = "called"
    /\ \/ MayCall(q) /\ q # Hello /\ Told(q, "CANCELLED")
       \/ client = "closed" /\ Told(q, "OFFLINE_BRIDGE")
    /\ UNCHANGED <<hostVars, socket, client, server, seen, toHost, drops>>

\* The signal of the MCP client or the deadline timer.
Cancel(q) ==
    /\ Pending(q) /\ ~call[q].cancelled
    /\ call' = [call EXCEPT ![q].cancelled = TRUE]
    /\ toHost' = IF socket THEN Append(toHost, Frame("cancel", q)) ELSE toHost
    /\ UNCHANGED <<hostVars, socket, client, server, seen, drops>>

GraceOver(q) == Pending(q) /\ call[q].cancelled

\* CANCELLATION_ACK_TIMEOUT_MS is over.
NotAcknowledged(q) ==
    /\ GraceOver(q)
    /\ Told(q, Unacknowledged(q))
    /\ UNCHANGED <<hostVars, socket, client, server, seen, toHost, drops>>

----------------------------------------------------------------------------
(* Frames.  Every frame but the first of each end is authenticated, and    *)
(* its nonce remembered up to the budget.                                  *)

Verified(end) == seen[end] < MaxFrames /\ seen' = [seen EXCEPT ![end] = @ + 1]

HostReads ==
    /\ toHost # <<>>
    /\ toHost' = Tail(toHost)
    /\ UNCHANGED <<socket, client, call, drops>>

HostInit ==
    /\ HostReads /\ Head(toHost).type = "init" /\ server = "accepted"
    /\ server' = "initialized"
    /\ UNCHANGED <<hostVars, seen>>

HostProof ==
    /\ HostReads /\ Head(toHost).type = "proof" /\ server = "initialized"
    /\ Verified("host")
    /\ server' = "authenticated"
    /\ toAdapter' = IF socket THEN Append(toAdapter, Plain("ready")) ELSE toAdapter
    /\ UNCHANGED <<online, work, effect, policy, faults, changes>>

HostRequest ==
    /\ HostReads /\ Head(toHost).type = "request" /\ server = "authenticated"
    /\ Verified("host")
    /\ LET q == Head(toHost).id
       IN  IF q = Hello
           THEN /\ Finish(q, "ok")
                /\ UNCHANGED <<online, effect, policy, faults, changes>>
           ELSE Handle(q)
    /\ UNCHANGED server

HostCancel ==
    /\ HostReads /\ Head(toHost).type = "cancel" /\ server = "authenticated"
    /\ Verified("host")
    /\ Abort(Head(toHost).id)
    /\ UNCHANGED <<online, toAdapter, effect, policy, faults, changes, server>>

\* The budget is used up: the connection is closed.
HostBudgetOver ==
    /\ socket /\ toHost # <<>> /\ Head(toHost).type # "init" /\ seen["host"] = MaxFrames
    /\ Closed(0)
    /\ UNCHANGED <<online, work, effect, policy, faults, changes, server, seen, drops>>

AdapterReads ==
    /\ socket /\ toAdapter # <<>>
    /\ toAdapter' = Tail(toAdapter)
    /\ UNCHANGED <<online, work, effect, policy, faults, changes, socket, server, drops>>

AdapterChallenge ==
    /\ AdapterReads /\ Head(toAdapter).type = "challenge"
    /\ client' = "proved"
    /\ toHost' = Append(toHost, Plain("proof"))
    /\ UNCHANGED <<seen, call>>

AdapterReady ==
    /\ AdapterReads /\ Head(toAdapter).type = "ready"
    /\ Verified("adapter")
    /\ client' = "authenticated"
    /\ UNCHANGED <<toHost, call>>

\* Progress goes to the MCP client, and to nobody if the request is settled.
AdapterProgress ==
    /\ AdapterReads /\ Head(toAdapter).type = "progress"
    /\ Verified("adapter")
    /\ UNCHANGED <<client, toHost, call>>

\* A response: one that nobody waits for is ignored.
AdapterResponse ==
    /\ AdapterReads /\ Head(toAdapter).type = "response"
    /\ Verified("adapter")
    /\ LET q == Head(toAdapter).id
       IN  /\ IF Pending(q) THEN Told(q, Head(toAdapter).answer) ELSE UNCHANGED call
           /\ client' = IF q = Hello /\ Pending(q) THEN "negotiated" ELSE client
    /\ UNCHANGED toHost

AdapterBudgetOver ==
    /\ socket /\ toAdapter # <<>> /\ Head(toAdapter).type # "challenge"
    /\ seen["adapter"] = MaxFrames
    /\ Close
    /\ UNCHANGED <<online, work, effect, policy, faults, changes, server, seen, drops>>

\* The handshake or the negotiation takes too long: the connection is closed.
ConnectTimesOut ==
    /\ socket /\ client # "negotiated"
    /\ Close
    /\ UNCHANGED <<online, work, effect, policy, faults, changes, server, seen, drops>>

Drop ==
    /\ socket /\ client = "negotiated" /\ drops < MaxDrops
    /\ drops' = drops + 1
    /\ Close
    /\ UNCHANGED <<online, work, effect, policy, faults, changes, server, seen>>

Init ==
    /\ RouterInit
    /\ socket = TRUE /\ client = "connecting" /\ server = "accepted"
    /\ seen = [end \in {"host", "adapter"} |-> 0]
    /\ toHost = <<Plain("init")>> /\ toAdapter = <<Plain("challenge")>>
    /\ \E w \in Workloads :
          call = [q \in Requests |-> [at |-> IF q \in w \cup {Hello} THEN "called" ELSE "idle"]]
    /\ drops = 0

Over == \A q \in Requests : call[q].at \in {"idle", "told"} /\ ~Active(q)

Next ==
    \/ \E q \in Requests : Call(q) \/ CallRefused(q) \/ Cancel(q) \/ NotAcknowledged(q)
    \/ HostInit \/ HostProof \/ HostRequest \/ HostCancel \/ HostBudgetOver
    \/ AdapterChallenge \/ AdapterReady \/ AdapterProgress \/ AdapterResponse \/ AdapterBudgetOver
    \/ ConnectTimesOut \/ Drop
    \/ /\ \/ \E q \in Requests : RouterStep(q)
          \/ SetCapabilityGrant \/ CompanionComesOrGoes
       /\ UNCHANGED pipeVars
    \/ Over /\ UNCHANGED vars

\* Timers fire and sockets deliver; an MCP client cancels only if it likes, but
\* the deadline timer is one of the two ways to Cancel.
Fairness ==
    /\ WF_vars(ConnectTimesOut) /\ WF_vars(HostRequest)
    /\ \A q \in Requests :
          /\ WF_vars(Call(q)) /\ WF_vars(CallRefused(q) /\ client = "closed")
          /\ WF_vars(Cancel(q)) /\ WF_vars(NotAcknowledged(q))
          /\ WF_vars(Expire(q) /\ UNCHANGED pipeVars)
          /\ WF_vars(SourceFails(q) /\ UNCHANGED pipeVars)
          /\ WF_vars(CompanionGivesUp(q) /\ UNCHANGED pipeVars)

Spec == Init /\ [][Next]_vars /\ Fairness

----------------------------------------------------------------------------
TypeOK ==
    /\ \A q \in Requests :
          /\ call[q].at \in {"idle", "called", "pending", "told"}
          /\ Pending(q) => socket
    /\ \A end \in DOMAIN seen : seen[end] \in 0 .. MaxFrames
    /\ server # "authenticated" => \A q \in Requests : work[q] = None
    /\ client = "negotiated" => server = "authenticated" /\ socket

\* The connection's two ends agree, and no mutation runs ahead of its decision.
BridgeInv == TypeOK /\ NothingUnauthorized

\* What the MCP client is told of a mutation is true for good: "ok" was carried
\* out, and a refusal, a timeout, a cancellation was not and will not be; where
\* that cannot be known the answer says so, or that the bridge went offline.
AnswersAreTrue ==
    \A q \in Mutations : call[q].at = "told" =>
        /\ call[q].answer = "ok" => effect[q]
        /\ effect[q] => call[q].answer \in {"ok", "INDETERMINATE_MUTATION", "FOUNDRY_ERROR",
                                            "OFFLINE_BRIDGE"}

\* A mutation as the MCP client sees it: it waits while its call is pending.
Service(q) ==
    INSTANCE Mutation WITH
        Answers <- Answers \cup {"OFFLINE_BRIDGE"},
        MayHaveRun <- {"ok", "INDETERMINATE_MUTATION", "FOUNDRY_ERROR", "OFFLINE_BRIDGE"},
        MayYetRun <- {"INDETERMINATE_MUTATION", "OFFLINE_BRIDGE"},
        asked <- Pending(q), runs <- IF effect[q] THEN 1 ELSE 0,
        told <- IF call[q].at = "told" THEN {call[q].answer} ELSE {}

\* Adapter, pipe and router together keep every promise of Mutation.
BridgeServes ==
    /\ \A q \in Mutations : Service(q)!Init
    /\ [][\A q \in Mutations : Service(q)!Step]_vars

\* Every call is answered, and the host is done with it, also when the pipe
\* breaks, the companion is gone or nobody listens any more.
EveryCallEnds == <>[]Over

\* What OFFLINE_BRIDGE's "retryable" promises, which a pipe that breaks refutes.
OfflineDidNotRun ==
    \A q \in Mutations : call[q].at = "told" /\ call[q].answer = "OFFLINE_BRIDGE" => ~effect[q]
=============================================================================
