------------------------------- MODULE Router -------------------------------
(***************************************************************************)
(* What the host does with a request of the adapter                        *)
(* (packages/host/src/bridge/router.ts): mutations pass the policy and the *)
(* audit log (packages/host/src/security/policy.ts), some fetch an image   *)
(* first, and everything ends at the companion server.                     *)
(*                                                                         *)
(* The companion is what the module CompanionRequests shows of it: an      *)
(* answer that says the mutation did not run is true, and one that cannot  *)
(* be known is INDETERMINATE_MUTATION.  TIMEOUT and CANCELLED are one.     *)
(***************************************************************************)
EXTENDS Integers, FiniteSets, Sequences

CONSTANTS
    Requests,     \* request ids
    Mutations,    \* those that are sent as mutation.execute
    Reporting,    \* requests whose control asks for progress
    Sourced,      \* mutations whose image the host reads, imports or generates
    Capabilities, \* the mutation capabilities
    Needs,        \* per mutation: the capability of its method and its additional ones
    MethodNeeds,  \* per mutation: the capability of its method alone
    None,         \* nothing
    MaxUnread,    \* bound: frames in the pipe when the companion reports progress
    MaxFaults,    \* bound: database errors
    MaxChanges    \* bound: grants changed, companions lost and connected

\* What HostBridgeRouter answers, and the values of an entry of #active until then
\* and after.
Answers == {"ok", "CANCELLED", "FOUNDRY_ERROR", "PERMISSION_DENIED", "INDETERMINATE_MUTATION"}
Works ==
    [at : {"source", "companion"}, aborted : BOOLEAN, sent : BOOLEAN]
    \cup [at : {"answered"}, answer : Answers, sent : BOOLEAN]

ASSUME RouterAssumption ==
    /\ Sourced \subseteq Mutations /\ Mutations \subseteq Requests
    /\ Needs \in [Mutations -> SUBSET Capabilities]
    /\ \A q \in Mutations : MethodNeeds[q] \in Needs[q]
    /\ Reporting \subseteq Requests /\ MaxUnread \in Nat
    /\ None \notin Requests \cup Works /\ MaxFaults \in Nat /\ MaxChanges \in Nat

VARIABLES
    online,     \* the connection is in listConnections
    grants,     \* capabilities granted to the connection and its role
    work,       \* per request: #active and where its operation is, or None
    socket,     \* the adapter's pipe is open
    toAdapter,  \* frames on their way to the adapter
    effect,     \* per mutation: it was carried out
    audit,      \* per mutation: the outcomes in audit_log
    unaudited,  \* mutations whose audit failed and was reported
    decided,    \* history, per mutation: the grants when it was decided
    faults, changes

policy  == <<grants, audit, unaudited, decided>>
hostVars == <<online, work, toAdapter, effect, policy, faults, changes>>

----------------------------------------------------------------------------
(* Mutated forms.                                                          *)

AllowedFirst(q) == MethodNeeds[q] \in grants
AuditTwice(q, outcome) == audit' = [audit EXCEPT ![q] = @ \o <<outcome, outcome>>]
AnswerOfAny(q, answer) == IF work[q].aborted THEN "CANCELLED" ELSE answer

----------------------------------------------------------------------------
(* The policy and the audit log.                                           *)

\* evaluatePolicy for each capability; what is not granted is denied.
Allowed(q) == Needs[q] \subseteq grants

Record(q, outcome) == audit' = [audit EXCEPT ![q] = Append(@, outcome)]

\* recordAudit; its failure is reported and changes no answer.
Audited(q, outcome) ==
    \/ /\ Record(q, outcome)
       /\ UNCHANGED <<unaudited, faults>>
    \/ /\ faults < MaxFaults /\ faults' = faults + 1
       /\ unaudited' = unaudited \cup {q}
       /\ UNCHANGED audit

Unaudited == UNCHANGED <<audit, unaudited, faults>>

----------------------------------------------------------------------------
(* Answers and the companion.                                              *)

Send(frames) == toAdapter' = IF socket THEN toAdapter \o frames ELSE toAdapter

\* reportProgress: when a request begins, when the companion says so, and before a
\* result.
Report(q, when) == IF when /\ q \in Reporting THEN <<[type |-> "progress", id |-> q]>> ELSE <<>>
Started(q) == Report(q, work[q] = None)

Respond(q, answer) ==
    Send(Started(q) \o Report(q, answer = "ok")
         \o <<[type |-> "response", id |-> q, answer |-> answer]>>)

Finish(q, answer) ==
    /\ work' = [work EXCEPT ![q] = [at |-> "answered", answer |-> answer,
                                    sent |-> IF @ = None THEN FALSE ELSE @.sent]]
    /\ Respond(q, answer)

\* companion.request: dispatched at once if the companion is there.
ToCompanion(q) ==
    /\ work' = [work EXCEPT ![q] =
          [at |-> "companion", aborted |-> FALSE, sent |-> online]]
    /\ Send(Started(q))

OutcomeOf(answer) == IF answer = "ok" THEN "success" ELSE "error"

\* A read that was aborted is answered so; a mutation gives the answer it has.
AnswerOf(q, answer) ==
    IF q \in Mutations THEN answer ELSE IF work[q].aborted THEN "CANCELLED" ELSE answer

Settle(q, answer) ==
    /\ Finish(q, AnswerOf(q, answer))
    /\ IF q \in Mutations THEN Audited(q, OutcomeOf(answer)) ELSE Unaudited
    /\ UNCHANGED <<online, grants, effect, decided, changes>>

----------------------------------------------------------------------------
(* handle and dispatch up to the first await.                              *)

TooLate(q) == Finish(q, "CANCELLED") /\ Unaudited /\ UNCHANGED decided

Read(q) == q \notin Mutations /\ ToCompanion(q) /\ Unaudited /\ UNCHANGED decided

Offline(q) ==
    /\ q \in Mutations /\ ~online
    /\ Finish(q, "FOUNDRY_ERROR") /\ Unaudited /\ UNCHANGED decided

PolicyFails(q) ==
    /\ q \in Mutations /\ online /\ faults < MaxFaults
    /\ Finish(q, "FOUNDRY_ERROR")
    /\ faults' = faults + 1 /\ Record(q, "error")
    /\ UNCHANGED <<unaudited, decided>>

Denied(q) ==
    /\ q \in Mutations /\ online /\ ~Allowed(q)
    /\ Finish(q, "PERMISSION_DENIED")
    /\ Audited(q, "denied") /\ UNCHANGED decided

Authorized(q) ==
    /\ q \in Mutations /\ online /\ Allowed(q)
    /\ decided' = [decided EXCEPT ![q] = grants]
    /\ Unaudited
    /\ IF q \in Sourced
       THEN /\ work' = [work EXCEPT ![q] = [at |-> "source", aborted |-> FALSE, sent |-> FALSE]]
            /\ Send(Started(q))
       ELSE ToCompanion(q)

Handle(q) ==
    /\ work[q] = None
    /\ \/ TooLate(q) \/ Read(q) \/ Offline(q)
       \/ PolicyFails(q) \/ Denied(q) \/ Authorized(q)
    /\ UNCHANGED <<online, grants, effect, changes>>

----------------------------------------------------------------------------
(* Cancellation and the deadline.                                          *)

Active(q) == work[q] # None /\ work[q].at # "answered"

Abort(q) ==
    work' = IF Active(q) THEN [work EXCEPT ![q].aborted = TRUE] ELSE work

Expire(q) ==
    /\ Active(q) /\ ~work[q].aborted
    /\ Abort(q)
    /\ UNCHANGED <<online, toAdapter, effect, policy, faults, changes>>

----------------------------------------------------------------------------
(* The image of a mutation: a local file, a URL, or a provider.            *)

Stopped(q) == work[q].aborted

SourceReady(q) ==
    /\ Active(q) /\ work[q].at = "source" /\ ~Stopped(q)
    /\ ToCompanion(q)
    /\ UNCHANGED <<online, effect, policy, faults, changes>>

SourceFails(q) ==
    /\ Active(q) /\ work[q].at = "source"
    /\ Settle(q, IF Stopped(q) THEN "CANCELLED" ELSE "FOUNDRY_ERROR")

----------------------------------------------------------------------------
(* The companion.                                                          *)

InFlight(q) == Active(q) /\ work[q].at = "companion"

\* What it was sent it carries out, also when nobody waits for it any more.
CompanionRuns(q) ==
    /\ q \in Mutations /\ ~effect[q]
    /\ work[q] # None /\ work[q].sent
    /\ InFlight(q) \/ (work[q].at = "answered" /\ work[q].answer = "INDETERMINATE_MUTATION")
    /\ effect' = [effect EXCEPT ![q] = TRUE]
    /\ UNCHANGED <<online, work, toAdapter, policy, faults, changes>>

CompanionReports(q) ==
    /\ InFlight(q) /\ work[q].sent /\ online
    /\ socket /\ q \in Reporting /\ Len(toAdapter) < MaxUnread
    /\ Send(Report(q, TRUE))
    /\ UNCHANGED <<online, work, effect, policy, faults, changes>>

CompanionAnswers(q) ==
    /\ InFlight(q) /\ work[q].sent /\ online
    /\ IF q \in Mutations /\ ~effect[q] THEN Settle(q, "FOUNDRY_ERROR")
       ELSE Settle(q, "ok") \/ Settle(q, "FOUNDRY_ERROR")

CancelAcknowledged(q) ==
    /\ InFlight(q) /\ work[q].sent /\ work[q].aborted
    /\ q \in Mutations => ~effect[q]
    /\ Settle(q, "CANCELLED")

Verdict(q) == IF q \in Mutations /\ work[q].sent THEN "INDETERMINATE_MUTATION" ELSE "CANCELLED"

CompanionGivesUp(q) ==
    /\ InFlight(q) /\ work[q].aborted
    /\ Settle(q, Verdict(q))

Change ==
    /\ changes < MaxChanges /\ changes' = changes + 1
    /\ UNCHANGED <<toAdapter, effect, audit, unaudited, decided, faults>>

SetCapabilityGrant ==
    /\ Change
    /\ \E c \in Capabilities :
          grants' = IF c \in grants THEN grants \ {c} ELSE grants \cup {c}
    /\ UNCHANGED <<online, work>>

\* The companion is lost, or comes back and is sent what still waits.
CompanionComesOrGoes ==
    /\ Change
    /\ online' = ~online
    /\ work' = [q \in Requests |->
                  IF InFlight(q) /\ ~online /\ ~work[q].aborted
                  THEN [work[q] EXCEPT !.sent = TRUE] ELSE work[q]]
    /\ UNCHANGED grants

RouterInit ==
    /\ online = TRUE /\ grants \in SUBSET Capabilities
    /\ work = [q \in Requests |-> None]
    /\ effect = [q \in Mutations |-> FALSE]
    /\ audit = [q \in Mutations |-> <<>>] /\ unaudited = {}
    /\ decided = [q \in Mutations |-> None]
    /\ faults = 0 /\ changes = 0

RouterStep(q) ==
    \/ Expire(q) \/ SourceReady(q) \/ SourceFails(q) \/ CompanionRuns(q)
    \/ CompanionReports(q) \/ CompanionAnswers(q)
    \/ CancelAcknowledged(q) \/ CompanionGivesUp(q)

----------------------------------------------------------------------------
Settled(q) == work[q] # None /\ work[q].at = "answered"

\* A mutation leaves one line in the audit log, or a report that it could not
\* be written; none says "denied" of something that was carried out, "success"
\* of something that was not, or anything at all of what was not decided.
AuditTellsTheTruth ==
    \A q \in Mutations :
        /\ Len(audit[q]) + (IF q \in unaudited THEN 1 ELSE 0) <= 1
        /\ effect[q] /\ Settled(q) => q \in unaudited \/ audit[q] \in {<<"success">>, <<"error">>}
        /\ audit[q] = <<"success">> => effect[q]

\* Nothing is read, fetched, generated or carried out for a mutation unless
\* all the capabilities it needs were granted at one moment.
NothingUnauthorized ==
    \A q \in Mutations :
        effect[q] \/ Active(q) => Needs[q] \subseteq decided[q]
=============================================================================
