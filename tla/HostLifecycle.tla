--------------------------- MODULE HostLifecycle ---------------------------
(***************************************************************************)
(* The life of the host process (packages/host/src/daemon.ts): it opens    *)
(* the database, starts the companion server, the coordinator of the       *)
(* reconciliations (packages/host/src/intelligence/coordinator.ts) and the *)
(* pipe, in that order, while pages and adapters already come; and it      *)
(* closes them one after the other while their work is under way.          *)
(*                                                                         *)
(* What a reconciliation reads is the module Reconciler, what becomes of a *)
(* companion request CompanionRequests, and of a mutation Router.          *)
(***************************************************************************)
EXTENDS PipeServer

CONSTANTS
    Conns,      \* connection ids
    Mutations,  \* mutations the adapters may ask for, one time each
    Target      \* per mutation: the connection it is meant for

ASSUME LifecycleAssumption == IsFiniteSet(Conns) /\ Target \in [Mutations -> Conns]

VARIABLES
    phase,        \* where startDaemon, or shutdown, is
    db,           \* "open" or "closed"
    companion,    \* "down", "up", "closing" or "closed"
    live,         \* connections of the companion server
    coordinator,  \* "absent", "running" or "stopped"
    connected,    \* #connected
    tracked,      \* connections of whose reconciliation #pending holds a promise
    active,       \* per connection: its reconciliation: "none", "asking", "aborted"
    mutation,     \* per mutation: "idle", "image", "asked", "settling" or "done"
    dispatched,   \* mutations a page was sent
    audited,      \* mutations with a row in audit_log
    status,       \* status.json: state and activeConnections
    behind,       \* the last write of it failed
    late,         \* history: who wrote to the database after it was closed
    swept         \* history: pages for which a reconciliation began or was
                  \* joined after they came

coordVars == <<coordinator, connected, tracked, active>>
workVars == <<mutation, dispatched, audited>>
vars == <<pipeVars, phase, db, companion, live, coordVars, workVars, status, behind, late, swept>>

Starting == {"secret", "companion", "providers", "pipe", "undo"}
Stopping == {"pipeClosing", "companionClosing", "draining"}

TypeOK ==
    /\ PipeTypeOK
    /\ phase \in Starting \cup Stopping \cup {"running", "stopped", "threw"}
    /\ db \in {"open", "closed"} /\ companion \in {"down", "up", "closing", "closed"}
    /\ live \subseteq Conns /\ (companion # "up" => live = {})
    /\ coordinator \in {"absent", "running", "stopped"}
    /\ connected \subseteq Conns /\ tracked \subseteq Conns
    /\ active \in [Conns -> {"none", "asking", "aborted"}]
    /\ mutation \in [Mutations -> {"idle", "image", "asked", "settling", "done"}]
    /\ dispatched \subseteq Mutations /\ audited \subseteq Mutations
    /\ status \in [state : {"absent", "running", "stopped"}, count : 0 .. Cardinality(Conns)]
    /\ behind \in BOOLEAN /\ late \subseteq {"mutation", "reconciler", "retention"}
    /\ swept \subseteq live

Init ==
    /\ PipeInit /\ phase = "secret" /\ db = "open" /\ companion = "down" /\ live = {}
    /\ coordinator = "absent" /\ connected = {} /\ tracked = {}
    /\ active = [c \in Conns |-> "none"]
    /\ mutation = [q \in Mutations |-> "idle"] /\ dispatched = {} /\ audited = {}
    /\ status = [state |-> "absent", count |-> 0]
    /\ behind = FALSE /\ late = {} /\ swept = {}

\* The continuations of promises that are already settled run before any timer,
\* signal or frame.
Settled == \A q \in Mutations : mutation[q] # "settling"

----------------------------------------------------------------------------
(* Mutated forms.                                                          *)

EarlyUnnoticed ==
    coordinator' = "running" /\ UNCHANGED <<connected, tracked, active, swept>>
DrainedAlready == TRUE
CountKept(state, n) == status' = [state |-> state, count |-> status.count]
PendingForgotten ==
    /\ companion' = "closing" /\ live' = {} /\ swept' = {} /\ UNCHANGED workVars
    /\ status' = [state |-> "running", count |-> 0] /\ UNCHANGED behind

----------------------------------------------------------------------------
(* status.json.                                                            *)

WriteStatus(state, n) == status' = [state |-> state, count |-> n]

\* updateStatus: an error is logged.
UpdateStatus(state, n) ==
    \/ WriteStatus(state, n) /\ behind' = FALSE
    \/ UNCHANGED status /\ behind' = TRUE
SameStatus == UNCHANGED <<status, behind>>

----------------------------------------------------------------------------
(* The coordinator.                                                        *)

\* reconcile and #track: a run that is under way is joined.
Reconciling(cs) ==
    /\ active' = [c \in Conns |-> IF c \in cs /\ active[c] = "none" THEN "asking" ELSE active[c]]
    /\ tracked' = tracked \cup cs

\* updateConnections: each connection that is new is reconciled.
UpdateConnections(ids) ==
    IF coordinator = "running"
    THEN /\ Reconciling(ids \ connected)
         /\ connected' = ids
         /\ swept' = (swept \cap ids) \cup (ids \ connected)
         /\ UNCHANGED coordinator
    ELSE UNCHANGED coordVars /\ swept' = swept \cap ids

\* stop: the signal aborts every run.
Aborted == [c \in Conns |-> IF active[c] = "asking" THEN "aborted" ELSE active[c]]
Stop ==
    /\ coordinator' = IF coordinator = "absent" THEN "absent" ELSE "stopped"
    /\ connected' = {} /\ active' = Aborted /\ UNCHANGED tracked
Drained == tracked = {}

Writes(who) == late' = IF db = "open" THEN late ELSE late \cup {who}

\* runPeriodic.
RunPeriodic ==
    /\ Settled /\ coordinator = "running"
    /\ Reconciling(connected) /\ swept' = swept \cup (connected \cap live)
    /\ UNCHANGED <<pipeVars, phase, db, companion, live, coordinator, connected, workVars, late>>
    /\ SameStatus

\* runRetention.
RunRetention ==
    /\ Settled /\ coordinator = "running" /\ Writes("retention")
    /\ UNCHANGED <<pipeVars, phase, db, companion, live, coordVars, workVars, swept>> /\ SameStatus

\* A run ends: it has read everything, a request of it was rejected, or its signal
\* was aborted; it records how.  #track forgets it.
ReconcileEnds(c) ==
    /\ Settled /\ active[c] # "none" /\ active' = [active EXCEPT ![c] = "none"]
    /\ tracked' = tracked \ {c} /\ Writes("reconciler")
    /\ UNCHANGED <<pipeVars, phase, db, companion, live, coordinator, connected, workVars, swept>>
    /\ SameStatus

----------------------------------------------------------------------------
(* The companion server: who is connected.                                 *)

\* onConnectionsChanged.
ConnectionsChanged(ids) == UpdateStatus("running", Cardinality(ids)) /\ UpdateConnections(ids)

\* activateConnection: what waits for the connection is sent to it.
Activate(c) ==
    /\ Settled /\ companion = "up" /\ c \notin live
    /\ live' = live \cup {c} /\ ConnectionsChanged(live')
    /\ dispatched' = dispatched \cup {q \in Mutations : mutation[q] = "asked" /\ Target[q] = c}
    /\ UNCHANGED <<pipeVars, phase, db, companion, mutation, audited, late>>

\* The same page comes again before its old socket has closed.
TakeOver(c) ==
    /\ Settled /\ companion = "up" /\ c \in live /\ UNCHANGED live
    /\ UpdateStatus("running", Cardinality(live))
    /\ UNCHANGED <<pipeVars, phase, db, companion, coordVars, workVars, late>>
    /\ swept' = swept \ {c}

Disconnect(c) ==
    /\ Settled /\ companion = "up" /\ c \in live
    /\ live' = live \ {c} /\ ConnectionsChanged(live')
    /\ UNCHANGED <<pipeVars, phase, db, companion, workVars, late>>

\* close: every pending request is rejected, the sockets are terminated.
CloseCompanion ==
    /\ companion' = "closing" /\ live' = {} /\ swept' = {}
    /\ UpdateStatus("running", 0)
    /\ mutation' = [q \in Mutations |-> IF mutation[q] = "asked" THEN "settling" ELSE mutation[q]]
    /\ UNCHANGED <<dispatched, audited>>

----------------------------------------------------------------------------
(* Mutations of the adapters.                                              *)

SameButWork == UNCHANGED <<pipeVars, phase, db, companion, live, coordVars, swept>> /\ SameStatus

\* companion.request: refused while closing, else pending and sent to a page that
\* is there.
Requested(q) ==
    IF companion = "up"
    THEN /\ mutation' = [mutation EXCEPT ![q] = "asked"]
         /\ dispatched' = IF Target[q] \in live THEN dispatched \cup {q} ELSE dispatched
    ELSE mutation' = [mutation EXCEPT ![q] = "settling"] /\ UNCHANGED dispatched

\* The router takes a mutation for a connection that is there; some wait for an
\* image first.
Mutate(q) ==
    /\ Settled /\ mutation[q] = "idle" /\ served # {} /\ Target[q] \in live
    /\ \/ mutation' = [mutation EXCEPT ![q] = "image"] /\ UNCHANGED dispatched
       \/ Requested(q)
    /\ UNCHANGED <<audited, late>> /\ SameButWork

ImageReady(q) ==
    /\ Settled /\ mutation[q] = "image" /\ Requested(q)
    /\ UNCHANGED <<audited, late>> /\ SameButWork

\* The page answers, the request times out, or there will be no image.
RequestEnds(q) ==
    /\ Settled /\ mutation[q] \in {"image", "asked"}
    /\ mutation' = [mutation EXCEPT ![q] = "settling"]
    /\ UNCHANGED <<dispatched, audited, late>> /\ SameButWork

\* runAuthorizedOperation writes the outcome to audit_log.
AuditIn(q) == mutation[q] = "settling"
Finish(q) ==
    /\ AuditIn(q) /\ mutation' = [mutation EXCEPT ![q] = "done"]
    /\ audited' = IF db = "open" THEN audited \cup {q} ELSE audited
    /\ Writes("mutation") /\ UNCHANGED dispatched /\ SameButWork

----------------------------------------------------------------------------
(* startDaemon.                                                            *)

Go(from, to) == Settled /\ phase = from /\ phase' = to
SameWork == UNCHANGED <<workVars, late>>

\* The pairing secret: without it the database is closed again.
LoadSecret ==
    /\ \/ Go("secret", "companion") /\ UNCHANGED db
       \/ Go("secret", "threw") /\ db' = "closed"
    /\ UNCHANGED <<pipeVars, companion, live, coordVars, swept>> /\ SameWork /\ SameStatus

\* startHostCompanionServer: it listens, or the port is taken.
StartCompanion ==
    /\ \/ Go("companion", "providers") /\ companion' = "up"
       \/ Go("companion", "threw") /\ UNCHANGED companion
    /\ UNCHANGED <<pipeVars, db, live, coordVars, swept>> /\ SameWork /\ SameStatus

\* createImageProviderRegistry, which reads a key, and may fail; then the
\* coordinator starts and is told of the pages that came meanwhile.
Early == /\ coordinator' = "running" /\ connected' = live
         /\ Reconciling(live) /\ swept' = live
StartCoordinator ==
    /\ \/ Go("providers", "pipe") /\ Early
       \/ Go("providers", "threw") /\ UNCHANGED <<coordVars, swept>>
    /\ UNCHANGED <<pipeVars, db, companion, live>> /\ SameWork /\ SameStatus

\* startPipeServer runs; the broker may answer.
OpenPipe ==
    /\ Settled /\ phase = "pipe" /\ (PipeOpens \/ PipeEnds)
    /\ UNCHANGED <<phase, db, companion, live, coordVars, swept>> /\ SameWork /\ SameStatus
Answered ==
    /\ Settled /\ phase = "pipe" /\ BrokerAnswers
    /\ UNCHANGED <<phase, db, companion, live, coordVars, swept>> /\ SameWork /\ SameStatus

\* It returned a pipe that is ready, or one that is not: then the coordinator
\* stops and the companion server closes, or it threw.
PipeStarted ==
    /\ UNCHANGED <<pipeVars, db>>
    /\ \/ /\ Go("pipe", "running") /\ pipe = "ready"
          /\ UpdateStatus("running", Cardinality(live))
          /\ UNCHANGED <<companion, live, coordVars, swept>> /\ SameWork
       \/ /\ Go("pipe", "undo") /\ pipe = "failed"
          /\ Stop /\ CloseCompanion /\ UNCHANGED late
       \/ /\ Go("pipe", "threw") /\ pipe = "threw"
          /\ UNCHANGED <<companion, live, coordVars, swept>> /\ SameWork /\ SameStatus

\* Both awaits of the way back.
Undone ==
    /\ Go("undo", "running") /\ Drained /\ companion' = "closed"
    /\ UpdateStatus("running", 0)
    /\ UNCHANGED <<pipeVars, db, live, coordVars, swept>> /\ SameWork

----------------------------------------------------------------------------
(* shutdown.                                                               *)

\* A signal.
Shutdown ==
    /\ Go("running", "pipeClosing") /\ Stop
    /\ (ClosePipe \/ CloseFailedPipe)
    /\ UNCHANGED <<db, companion, live, swept>> /\ SameWork /\ SameStatus

ClosingPipe ==
    /\ Settled /\ phase = "pipeClosing" /\ PipeEnds
    /\ UNCHANGED <<phase, db, companion, live, coordVars, swept>> /\ SameWork /\ SameStatus

\* The companion server is closed, unless startDaemon has done it.
ShutCompanion ==
    /\ Go("pipeClosing", "companionClosing") /\ pipe \in {"closed", "failed"}
    /\ \/ companion = "up" /\ CloseCompanion
       \/ companion = "closed" /\ UNCHANGED <<companion, live, swept, workVars>> /\ SameStatus
    /\ UNCHANGED <<pipeVars, db, coordVars, late>>

\* wss.close has called back, and drain returns.
CompanionClosed ==
    /\ Go("companionClosing", "draining") /\ companion' = "closed"
    /\ UNCHANGED <<pipeVars, db, live, coordVars, swept>> /\ SameWork /\ SameStatus

CloseDatabase ==
    /\ Go("draining", "stopped") /\ Drained /\ db' = "closed"
    /\ UpdateStatus("stopped", 0)
    /\ UNCHANGED <<pipeVars, companion, live, coordVars, swept>> /\ SameWork

----------------------------------------------------------------------------

\* Adapters and the broker at any other time.
Peers ==
    /\ Settled /\ PipePeers
    /\ UNCHANGED <<phase, db, companion, live, coordVars, swept>> /\ SameWork /\ SameStatus

Over == /\ phase = "stopped" \/ (phase = "threw" /\ companion = "down")
        /\ UNCHANGED vars

Daemon == LoadSecret \/ StartCompanion \/ StartCoordinator \/ OpenPipe \/ PipeStarted \/ Undone
          \/ ClosingPipe \/ ShutCompanion \/ CompanionClosed \/ CloseDatabase

Next ==
    \/ Daemon \/ Answered \/ Shutdown \/ Peers \/ RunPeriodic \/ RunRetention \/ Over
    \/ \E c \in Conns : Activate(c) \/ TakeOver(c) \/ Disconnect(c) \/ ReconcileEnds(c)
    \/ \E q \in Mutations : Mutate(q) \/ ImageReady(q) \/ RequestEnds(q) \/ Finish(q)

Spec == Init /\ [][Next]_vars

----------------------------------------------------------------------------
(* Properties.                                                             *)

\* The host stops with the outcome of every mutation it has sent to a page in
\* its audit log: the companion server rejects what is pending while the
\* database is still open (daemon.ts, shutdown).
DispatchedIsAudited == phase = "stopped" => dispatched \subseteq audited

\* Nobody writes to the closed database, except the audit of a mutation that
\* never got as far as a page.
NoLateWrite == late \subseteq {"mutation"}

\* status.json, as far as it can be written, shows what the host is: the doctor
\* reads it.
StatusIsTrue ==
    ~behind => /\ status.count = Cardinality(live)
               /\ phase = "running" => status.state = "running"
               /\ phase = "stopped" => status.state = "stopped"

\* Types, and what the host writes down: audits, rows and its status.
LifecycleInv == TypeOK /\ DispatchedIsAudited /\ NoLateWrite /\ StatusIsTrue

\* A host whose pipe did not open, or that has stopped, leaves no reconciliation,
\* no page, no adapter and no broker process behind.
NothingLeftOver ==
    (phase = "running" /\ pipe = "failed") \/ phase = "stopped" =>
        /\ companion = "closed" /\ coordinator = "stopped" /\ tracked = {}
        /\ \A c \in Conns : active[c] = "none"
        /\ broker # "alive" /\ sockets = {} /\ pipe \in {"closed", "failed"}

\* A start that fails serves nobody.  The code does not keep this: startDaemon
\* throws with the companion server up when a provider's key cannot be read or the
\* Unix socket cannot be opened, and the command only sets its exit code.
FailedStartServesNobody == phase = "threw" => companion = "down"

\* Fairness: what the daemon awaits happens or times out (the broker's start after
\* 15 seconds, its end after 5), the probe of the ACL ends, requests end by their
\* timers, continuations run, and the reconciliation timer fires.  Nothing makes an
\* adapter, a page or the operator do anything.
Fairness ==
    /\ WF_vars(Daemon) /\ WF_vars(RunPeriodic)
    /\ \A c \in Conns : WF_vars(ReconcileEnds(c))
    /\ \A q \in Mutations : WF_vars(RequestEnds(q)) /\ WF_vars(Finish(q))
FairSpec == Spec /\ Fairness

\* Every page is reconciled after it comes: those that came before the
\* coordinator, and those that came again before their old socket closed, too.
EveryPageSwept ==
    \A c \in Conns :
        c \in live ~> (c \in swept \/ c \notin live \/ phase = "threw" \/ coordinator = "stopped")

\* The host comes up or says why not, whatever the broker does.
StartEnds == <>(phase \notin Starting)

\* Shutdown ends, with reconciliations and mutations under way, once no adapter
\* holds its Unix socket.
ShutdownEnds ==
    <>[](platform = "win32" \/ sockets = {}) => (phase \in Stopping ~> phase = "stopped")

StartAndShutdownEnd == StartEnds /\ ShutdownEnds

\* Graceful shutdown closes the bridge sockets (docs/PRD.md).  The code waits for the
\* adapters to close theirs.
ShutdownAlwaysEnds == phase \in Stopping ~> phase = "stopped"
=============================================================================
