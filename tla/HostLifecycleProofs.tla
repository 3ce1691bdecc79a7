------------------------ MODULE HostLifecycleProofs ------------------------
(***************************************************************************)
(* What the host leaves behind and writes down when it starts, fails to    *)
(* start and stops, for any pages, adapters and mutations.                 *)
(***************************************************************************)
EXTENDS HostLifecycle, TLAPS, FiniteSetTheorems

(* The inductive invariant, part by part; the parts together say TypeOK.   *)

(* A pipe that is not open has no broker process and no adapter; on        *)
(* Windows the adapters are attached to the broker and go with it.         *)
PipeClean ==
    /\ pipe \in {"off", "closed", "failed", "threw"} => broker # "alive"
    /\ pipe \in {"off", "starting", "closed", "failed", "threw"} => sockets = {}
    /\ platform = "win32" /\ broker # "alive" => sockets = {}

PipePart == PipeTypeOK /\ PipeClean

(* Every reconciliation under way is one that drain waits for.             *)
CoordPart ==
    /\ coordinator \in {"absent", "running", "stopped"}
    /\ connected \subseteq Conns /\ tracked \subseteq Conns
    /\ active \in [Conns -> {"none", "asking", "aborted"}]
    /\ \A c \in Conns : active[c] # "none" => c \in tracked

LivePart ==
    /\ companion \in {"down", "up", "closing", "closed"}
    /\ live \subseteq Conns /\ (companion # "up" => live = {})
    /\ swept \subseteq live

(* Every mutation a page was sent is pending, or on its way into the audit *)
(* log, or in it.                                                          *)
WorkPart ==
    /\ mutation \in [Mutations -> {"idle", "image", "asked", "settling", "done"}]
    /\ dispatched \subseteq Mutations /\ audited \subseteq Mutations
    /\ \A q \in dispatched : /\ mutation[q] \in {"asked", "settling", "done"}
                             /\ mutation[q] = "done" => q \in audited

(* None is pending unless the companion server is up; and the database is  *)
(* closed only when each is in the audit log.                              *)
NonePendingWithout ==
    /\ companion # "up" => \A q \in Mutations : mutation[q] # "asked"
    /\ db = "closed" => \A q \in dispatched : mutation[q] = "done"

StatusTypes ==
    /\ status \in [state : {"absent", "running", "stopped"}, count : 0 .. Cardinality(Conns)]
    /\ behind \in BOOLEAN

(* What is up, and what is down for good, at each stage of startDaemon and *)
(* shutdown.  The database is closed only when nobody is left to write.    *)
Stages ==
    /\ phase \in Starting \cup Stopping \cup {"running", "stopped", "threw"}
    /\ db \in {"open", "closed"}
    /\ phase \in {"secret", "companion"} => companion = "down"
    /\ phase = "secret" => dispatched = {}
    /\ phase \in {"secret", "companion", "providers"} => coordinator = "absent"
    /\ phase \in {"providers", "pipe"} => companion = "up"
    /\ phase = "pipe" => coordinator = "running"
    /\ phase = "undo" => pipe = "failed" /\ coordinator = "stopped" /\ companion = "closing"
    /\ phase = "running" =>
         \/ pipe = "ready" /\ companion = "up" /\ coordinator = "running"
         \/ pipe = "failed" /\ companion = "closed" /\ coordinator = "stopped" /\ tracked = {}
    /\ phase \in Stopping \cup {"stopped"} => coordinator = "stopped"
    /\ phase \in {"companionClosing", "draining", "stopped"} => pipe \in {"closed", "failed"}
    /\ phase = "pipeClosing" => companion \in {"up", "closed"}
    /\ phase = "companionClosing" => companion \in {"closing", "closed"}
    /\ phase \in {"draining", "stopped"} => companion = "closed"
    /\ phase = "stopped" => tracked = {} /\ db = "closed"
    /\ coordinator = "absent" => tracked = {}
    /\ db = "closed" => /\ phase \in {"stopped", "threw"} /\ coordinator # "running"
                        /\ tracked = {} /\ companion # "up"

HostInv ==
    /\ PipePart /\ CoordPart /\ LivePart /\ WorkPart /\ NonePendingWithout
    /\ StatusTypes /\ Stages /\ NoLateWrite /\ StatusIsTrue

(* It says what the runs check.                                            *)
LEMMA HostInvSays == HostInv => LifecycleInv /\ NothingLeftOver
<1> SUFFICES ASSUME HostInv PROVE LifecycleInv /\ NothingLeftOver
  OBVIOUS
<1>1. late \subseteq {"mutation", "reconciler", "retention"}
  BY DEF HostInv, NoLateWrite
<1>2. TypeOK
  BY <1>1 DEF HostInv, PipePart, CoordPart, LivePart, WorkPart, StatusTypes, Stages, TypeOK
<1>3. DispatchedIsAudited
  BY DEF HostInv, Stages, WorkPart, NonePendingWithout, DispatchedIsAudited
<1>4. NothingLeftOver
  BY DEF HostInv, Stages, PipePart, PipeClean, CoordPart, NothingLeftOver
<1> QED
  BY <1>2, <1>3, <1>4 DEF HostInv, LifecycleInv

-----------------------------------------------------------------------------
(* The pipe.                                                               *)

PipeSteps == PipeOpens \/ BrokerAnswers \/ PipeEnds \/ PipePeers \/ ClosePipe \/ CloseFailedPipe

(* Whatever the host, the broker and the adapters do with the pipe, it     *)
(* keeps its types and leaves nothing behind.                              *)
LEMMA PipeKept ==
    ASSUME PipePart, PipeSteps
    PROVE  PipePart'
<1> USE DEF PipePart
<1>1. CASE StartPipe
  BY <1>1 DEF StartPipe, PipeTypeOK, PipeClean, SamePeers, PipeStates
<1>2. CASE BrokerReady
  BY <1>2 DEF BrokerReady, PipeTypeOK, PipeClean, SamePeers, PipeStates
<1>3. CASE BrokerLost
  BY <1>3 DEF BrokerLost, PipeTypeOK, PipeClean, SamePeers, PipeStates
<1>4. CASE BrokerRejected
  BY <1>4 DEF BrokerRejected, GiveUp, Killed, PipeTypeOK, PipeClean, SamePeers, PipeStates
<1>5. CASE BrokerDies
  BY <1>5 DEF BrokerDies, NobodyAttached, PipeTypeOK, PipeClean, PipeStates
<1>6. CASE AclAllowed \/ AclDenied
  BY <1>6 DEF AclAllowed, AclDenied, PipeTypeOK, PipeClean, SamePeers, PipeStates
<1>7. CASE ClosePipe \/ CloseFailedPipe
  BY <1>7 DEF ClosePipe, CloseFailedPipe, NobodyAttached, pipeVars, PipeTypeOK, PipeClean,
              SamePeers, PipeStates
<1>8. CASE PipeClosed
  <2>1. pipe' \in {"failed", "closed"} /\ UNCHANGED <<platform, broker, sockets, served>>
    BY <1>8 DEF PipeClosed, AfterClose, SamePeers
  <2>2. broker # "alive" /\ sockets = {}
    BY <1>8, PipeAssumption DEF PipeClosed, Released, PipeTypeOK, PipeClean
  <2> QED
    BY <2>1, <2>2 DEF PipeTypeOK, PipeClean, PipeStates
<1>9. CASE ShutdownTimeout
  BY <1>9 DEF ShutdownTimeout, AfterClose, Killed, NobodyAttached, PipeTypeOK, PipeClean, PipeStates
<1>10. ASSUME NEW a \in Adapters, Attach(a) \/ Prove(a) \/ Detach(a)
       PROVE  PipePart'
  BY <1>10 DEF Attach, Accepting, Prove, Detach, PipeTypeOK, PipeClean, PipeStates
<1> QED
  BY <1>1, <1>2, <1>3, <1>4, <1>5, <1>6, <1>7, <1>8, <1>9, <1>10
     DEF PipeSteps, PipeOpens, BrokerAnswers, PipeEnds, PipePeers

(* What can become of the state of the pipe, for those who wait for it.    *)
LEMMA PipeMoves ==
    /\ PipeOpens \/ BrokerAnswers => pipe \notin {"ready", "failed", "closed", "threw"} \/ UNCHANGED pipe
    /\ PipePeers => UNCHANGED pipe
    /\ CloseFailedPipe => pipe = "failed" /\ UNCHANGED pipe
  BY DEF PipeOpens, BrokerAnswers, PipePeers, StartPipe, BrokerRejected, AclAllowed, AclDenied,
         BrokerReady, BrokerLost, BrokerDies, Attach, Prove, Detach, CloseFailedPipe, pipeVars

-----------------------------------------------------------------------------
(* The invariant holds when startDaemon begins.                            *)
LEMMA HostInitInv == Init => HostInv
<1> SUFFICES ASSUME Init PROVE HostInv
  OBVIOUS
<1>1. Cardinality({}) = 0 /\ Cardinality(Conns) \in Nat
  BY LifecycleAssumption, FS_EmptySet, FS_CardinalityType
<1>2. status \in [state : {"absent", "running", "stopped"}, count : 0 .. Cardinality(Conns)]
  BY <1>1 DEF Init
<1>3. PipePart
  BY DEF Init, PipeInit, PipePart, PipeTypeOK, PipeClean, PipeStates
<1>4. CoordPart /\ LivePart /\ WorkPart /\ NonePendingWithout
  BY DEF Init, CoordPart, LivePart, WorkPart, NonePendingWithout
<1>5. Stages
  BY DEF Init, Stages, Starting, Stopping
<1>6. NoLateWrite /\ StatusIsTrue /\ StatusTypes
  BY <1>1, <1>2 DEF Init, NoLateWrite, StatusIsTrue, StatusTypes
<1> QED
  BY <1>3, <1>4, <1>5, <1>6 DEF HostInv

-----------------------------------------------------------------------------
(* The parts that several steps share.                                     *)

LEMMA Counted == \A S \in SUBSET Conns : Cardinality(S) \in 0 .. Cardinality(Conns)
<1>1. IsFiniteSet(Conns) /\ Cardinality(Conns) \in Nat
  BY LifecycleAssumption, FS_CardinalityType
<1>2. \A S \in SUBSET Conns : Cardinality(S) <= Cardinality(Conns) /\ Cardinality(S) \in Nat
  BY <1>1, FS_Subset, FS_CardinalityType
<1> QED
  BY <1>1, <1>2

(* A write of status.json says what it is told, or is known to have failed. *)
LEMMA StatusWritten ==
    ASSUME StatusTypes, NEW S \in SUBSET Conns, NEW state \in {"running", "stopped"},
           UpdateStatus(state, Cardinality(S))
    PROVE  /\ StatusTypes'
           /\ ~behind' => status' = [state |-> state, count |-> Cardinality(S)]
<1>1. [state |-> state, count |-> Cardinality(S)]
        \in [state : {"absent", "running", "stopped"}, count : 0 .. Cardinality(Conns)]
  BY Counted
<1>2. CASE WriteStatus(state, Cardinality(S)) /\ behind' = FALSE
  BY <1>1, <1>2 DEF WriteStatus, StatusTypes
<1>3. CASE UNCHANGED status /\ behind' = TRUE
  BY <1>3 DEF StatusTypes
<1> QED
  BY <1>2, <1>3 DEF UpdateStatus

(* What is not touched keeps its part.                                     *)
LEMMA SameParts ==
    ASSUME HostInv
    PROVE  /\ UNCHANGED pipeVars => PipePart'
           /\ UNCHANGED coordVars => CoordPart'
           /\ UNCHANGED <<companion, live, swept>> => LivePart'
           /\ UNCHANGED workVars => WorkPart'
           /\ UNCHANGED <<workVars, companion, db>> => NonePendingWithout'
           /\ SameStatus => StatusTypes'
           /\ UNCHANGED late => NoLateWrite'
<1>1. UNCHANGED pipeVars => PipePart'
  BY DEF HostInv, PipePart, PipeTypeOK, PipeClean, pipeVars
<1>2. UNCHANGED coordVars => CoordPart'
  BY DEF HostInv, CoordPart, coordVars
<1>3. UNCHANGED <<companion, live, swept>> => LivePart'
  BY DEF HostInv, LivePart
<1>4. UNCHANGED workVars => WorkPart'
  BY DEF HostInv, WorkPart, workVars
<1>5. UNCHANGED <<workVars, companion, db>> => NonePendingWithout'
  BY DEF HostInv, NonePendingWithout, workVars
<1>6. SameStatus => StatusTypes'
  BY DEF HostInv, StatusTypes, SameStatus
<1>7. UNCHANGED late => NoLateWrite'
  BY DEF HostInv, NoLateWrite
<1> QED
  BY <1>1, <1>2, <1>3, <1>4, <1>5, <1>6, <1>7

(* The coordinator is told who is connected: it tracks what it starts.     *)
LEMMA ToldOfConnections ==
    ASSUME CoordPart, NEW ids \in SUBSET Conns, UpdateConnections(ids)
    PROVE  /\ CoordPart' /\ swept' \subseteq ids /\ UNCHANGED coordinator
           /\ coordinator # "running" => UNCHANGED <<connected, tracked, active>>
<1>1. CASE coordinator = "running"
  BY <1>1 DEF UpdateConnections, Reconciling, CoordPart
<1>2. CASE coordinator # "running"
  BY <1>2 DEF UpdateConnections, coordVars, CoordPart
<1> QED
  BY <1>1, <1>2

(* It stops: what it has started is aborted and still tracked.             *)
LEMMA CoordinatorStops ==
    ASSUME CoordPart, Stop
    PROVE  /\ CoordPart' /\ UNCHANGED tracked
           /\ coordinator # "absent" => coordinator' = "stopped"
  BY DEF Stop, Aborted, CoordPart

(* The companion server closes: what is pending is rejected, and reaches   *)
(* the audit log next.                                                     *)
LEMMA CompanionCloses ==
    ASSUME HostInv, CloseCompanion, db = "open", UNCHANGED db
    PROVE  /\ companion' = "closing" /\ UNCHANGED <<dispatched, audited>>
           /\ LivePart' /\ WorkPart' /\ NonePendingWithout' /\ StatusTypes'
           /\ ~behind' => status' = [state |-> "running", count |-> Cardinality(live')]
<1>1. /\ companion' = "closing" /\ live' = {} /\ swept' = {} /\ UNCHANGED <<dispatched, audited>>
      /\ UpdateStatus("running", 0)
      /\ mutation' = [q \in Mutations |->
                        IF mutation[q] = "asked" THEN "settling" ELSE mutation[q]]
  BY DEF CloseCompanion
<1>2. Cardinality({}) = 0 /\ {} \in SUBSET Conns /\ StatusTypes /\ WorkPart
  BY FS_EmptySet DEF HostInv
<1>3. StatusTypes' /\ (~behind' => status' = [state |-> "running", count |-> Cardinality({})])
  BY <1>1, <1>2, StatusWritten
<1>4. WorkPart' /\ \A q \in Mutations : mutation'[q] # "asked"
  BY <1>1, <1>2 DEF WorkPart
<1>5. LivePart' /\ NonePendingWithout'
  BY <1>1, <1>4 DEF LivePart, NonePendingWithout
<1> QED
  BY <1>1, <1>3, <1>4, <1>5

-----------------------------------------------------------------------------
(* startDaemon keeps the invariant.                                        *)
LEMMA StartKeeps ==
    ASSUME HostInv, LoadSecret \/ StartCompanion \/ StartCoordinator \/ OpenPipe \/ Answered
                    \/ PipeStarted \/ Undone
    PROVE  HostInv'
<1>0. Stages /\ PipePart /\ CoordPart /\ LivePart /\ StatusIsTrue
  BY DEF HostInv
<1>1. CASE LoadSecret
  <2>1. /\ UNCHANGED <<pipeVars, companion, live, swept, coordVars, workVars, late, status, behind>>
        /\ phase = "secret"
        /\ \/ phase' = "companion" /\ UNCHANGED db
           \/ phase' = "threw" /\ db' = "closed"
    BY <1>1 DEF LoadSecret, Go, SameWork, SameStatus
  <2>2. /\ PipePart' /\ CoordPart' /\ LivePart' /\ WorkPart' /\ StatusTypes' /\ NoLateWrite'
    BY <2>1, SameParts DEF SameStatus
  <2>3. UNCHANGED <<dispatched, mutation, pipe, coordinator, tracked>>
    BY <2>1 DEF workVars, pipeVars, coordVars
  <2>4. dispatched = {} /\ companion = "down" /\ coordinator = "absent" /\ tracked = {}
    BY <1>0, <2>1 DEF Stages
  <2>5. NonePendingWithout'
    BY <2>1, <2>3, <2>4 DEF HostInv, NonePendingWithout
  <2>6. Stages'
    BY <1>0, <2>1, <2>3, <2>4 DEF Stages, Starting, Stopping
  <2>7. StatusIsTrue'
    BY <1>0, <2>1 DEF StatusIsTrue
  <2> QED
    BY <2>2, <2>5, <2>6, <2>7 DEF HostInv
<1>2. CASE StartCompanion
  <2>1. /\ UNCHANGED <<pipeVars, db, live, swept, coordVars, workVars, late, status, behind>>
        /\ phase = "companion"
        /\ \/ phase' = "providers" /\ companion' = "up"
           \/ phase' = "threw" /\ UNCHANGED companion
    BY <1>2 DEF StartCompanion, Go, SameWork, SameStatus
  <2>2. /\ PipePart' /\ CoordPart' /\ WorkPart' /\ StatusTypes' /\ NoLateWrite'
    BY <2>1, SameParts DEF SameStatus
  <2>3. UNCHANGED <<dispatched, mutation, pipe, coordinator, tracked>>
    BY <2>1 DEF workVars, pipeVars, coordVars
  <2>4. NonePendingWithout' /\ LivePart'
    BY <2>1, <2>3 DEF HostInv, NonePendingWithout, LivePart
  <2>5. Stages'
    BY <1>0, <2>1, <2>3 DEF Stages, Starting, Stopping
  <2>6. StatusIsTrue'
    BY <1>0, <2>1 DEF StatusIsTrue
  <2> QED
    BY <2>2, <2>4, <2>5, <2>6 DEF HostInv
<1>3. CASE StartCoordinator
  <2>1. /\ UNCHANGED <<pipeVars, db, companion, live, workVars, late, status, behind>>
        /\ phase = "providers"
        /\ \/ phase' = "pipe" /\ Early
           \/ phase' = "threw" /\ UNCHANGED <<coordVars, swept>>
    BY <1>3 DEF StartCoordinator, Go, SameWork, SameStatus
  <2>2. /\ PipePart' /\ WorkPart' /\ NonePendingWithout' /\ StatusTypes' /\ NoLateWrite'
    BY <2>1, SameParts DEF SameStatus
  <2>3. UNCHANGED <<dispatched, pipe>> /\ db = "open"
    BY <1>0, <2>1 DEF workVars, pipeVars, Stages
  <2>4. CoordPart' /\ LivePart' /\ Stages'
    <3>1. CASE phase' = "pipe" /\ Early
      <4>1. CoordPart' /\ LivePart'
        BY <1>0, <2>1, <3>1 DEF Early, Reconciling, CoordPart, LivePart
      <4>2. Stages'
        BY <1>0, <2>1, <2>3, <3>1 DEF Early, Stages, Starting, Stopping
      <4> QED
        BY <4>1, <4>2
    <3>2. CASE phase' = "threw" /\ UNCHANGED <<coordVars, swept>>
      <4>1. CoordPart' /\ LivePart'
        BY <2>1, <3>2, SameParts
      <4>2. Stages'
        BY <1>0, <2>1, <2>3, <3>2 DEF Stages, Starting, Stopping, coordVars
      <4> QED
        BY <4>1, <4>2
    <3> QED
      BY <2>1, <3>1, <3>2
  <2>5. StatusIsTrue'
    BY <1>0, <2>1 DEF StatusIsTrue
  <2> QED
    BY <2>2, <2>4, <2>5 DEF HostInv
<1>4. CASE OpenPipe \/ Answered
  <2>1. /\ UNCHANGED <<phase, db, companion, live, swept, coordVars, workVars, late, status, behind>>
        /\ phase = "pipe" /\ PipeSteps
    BY <1>4 DEF OpenPipe, Answered, SameWork, SameStatus, PipeSteps
  <2>2. /\ CoordPart' /\ LivePart' /\ WorkPart' /\ NonePendingWithout' /\ StatusTypes'
        /\ NoLateWrite'
    BY <2>1, SameParts DEF SameStatus
  <2>3. PipePart'
    BY <1>0, <2>1, PipeKept
  <2>4. Stages'
    BY <1>0, <2>1 DEF Stages, Starting, Stopping, coordVars, workVars
  <2>5. StatusIsTrue'
    BY <1>0, <2>1 DEF StatusIsTrue
  <2> QED
    BY <2>2, <2>3, <2>4, <2>5 DEF HostInv
<1>5. CASE PipeStarted
  <2>1. UNCHANGED <<pipeVars, db, pipe>> /\ phase = "pipe" /\ db = "open" /\ companion = "up"
        /\ coordinator = "running"
    BY <1>0, <1>5 DEF PipeStarted, Go, Stages, pipeVars
  <2>2. PipePart'
    BY <2>1, SameParts
  <2>3. CASE /\ phase' = "running" /\ pipe = "ready" /\ UpdateStatus("running", Cardinality(live))
             /\ UNCHANGED <<companion, live, swept, coordVars, workVars, late>>
    <3>1. /\ CoordPart' /\ LivePart' /\ WorkPart' /\ NonePendingWithout' /\ NoLateWrite'
      BY <2>1, <2>3, SameParts
    <3>2. live \in SUBSET Conns /\ StatusTypes
      BY DEF HostInv, LivePart
    <3>3. StatusTypes' /\ (~behind' => status' = [state |-> "running", count |-> Cardinality(live)])
      BY <2>3, <3>2, StatusWritten
    <3>4. StatusIsTrue'
      BY <2>3, <3>3 DEF StatusIsTrue
    <3>5. Stages'
      BY <1>0, <2>1, <2>3 DEF Stages, Starting, Stopping, coordVars, workVars
    <3> QED
      BY <2>2, <3>1, <3>3, <3>4, <3>5 DEF HostInv
  <2>4. CASE /\ phase' = "undo" /\ pipe = "failed" /\ Stop /\ CloseCompanion /\ UNCHANGED late
    <3>1. CoordPart' /\ coordinator' = "stopped"
      BY <1>0, <2>1, <2>4, CoordinatorStops
    <3>2. /\ companion' = "closing" /\ UNCHANGED <<dispatched, audited>>
          /\ LivePart' /\ WorkPart' /\ NonePendingWithout' /\ StatusTypes'
          /\ ~behind' => status' = [state |-> "running", count |-> Cardinality(live')]
      BY <2>1, <2>4, CompanionCloses
    <3>3. NoLateWrite'
      BY <2>4, SameParts
    <3>4. StatusIsTrue'
      BY <2>4, <3>2 DEF StatusIsTrue
    <3>5. Stages'
      BY <1>0, <2>1, <2>4, <3>1, <3>2 DEF Stages, Starting, Stopping
    <3> QED
      BY <2>2, <3>1, <3>2, <3>3, <3>4, <3>5 DEF HostInv
  <2>5. CASE /\ phase' = "threw"
             /\ UNCHANGED <<companion, live, swept, coordVars, workVars, late, status, behind>>
    <3>1. /\ CoordPart' /\ LivePart' /\ WorkPart' /\ NonePendingWithout' /\ NoLateWrite'
          /\ StatusTypes'
      BY <2>1, <2>5, SameParts DEF SameStatus
    <3>2. StatusIsTrue'
      BY <1>0, <2>5 DEF StatusIsTrue
    <3>3. Stages'
      BY <1>0, <2>1, <2>5 DEF Stages, Starting, Stopping, coordVars, workVars
    <3> QED
      BY <2>2, <3>1, <3>2, <3>3 DEF HostInv
  <2> QED
    BY <1>5, <2>3, <2>4, <2>5 DEF PipeStarted, Go, SameWork, SameStatus
<1>6. CASE Undone
  <2>1. /\ UNCHANGED <<pipeVars, pipe, db, live, swept, coordVars, workVars, late>>
        /\ phase = "undo" /\ phase' = "running" /\ companion' = "closed" /\ tracked = {}
        /\ UpdateStatus("running", 0)
    BY <1>6 DEF Undone, Go, SameWork, Drained, pipeVars
  <2>2. /\ PipePart' /\ CoordPart' /\ WorkPart' /\ NoLateWrite'
    BY <2>1, SameParts
  <2>3. companion = "closing" /\ pipe = "failed" /\ coordinator = "stopped"
    BY <1>0, <2>1 DEF Stages
  <2>4. live = {} /\ swept = {} /\ Cardinality({}) = 0 /\ {} \in SUBSET Conns /\ StatusTypes
    BY <1>0, <2>3, FS_EmptySet DEF HostInv, LivePart
  <2>5. StatusTypes' /\ (~behind' => status' = [state |-> "running", count |-> Cardinality({})])
    BY <2>1, <2>4, StatusWritten
  <2>6. StatusIsTrue'
    BY <2>1, <2>4, <2>5 DEF StatusIsTrue
  <2>7. UNCHANGED <<mutation, dispatched, coordinator, tracked>>
    BY <2>1 DEF workVars, coordVars
  <2>8. LivePart' /\ NonePendingWithout'
    BY <2>1, <2>3, <2>4, <2>7 DEF HostInv, LivePart, NonePendingWithout
  <2>9. Stages'
    BY <1>0, <2>1, <2>3, <2>7 DEF Stages, Starting, Stopping
  <2> QED
    BY <2>2, <2>5, <2>6, <2>8, <2>9 DEF HostInv
<1> QED
  BY <1>1, <1>2, <1>3, <1>4, <1>5, <1>6

(* shutdown keeps it: the database is closed when the pages are gone, the  *)
(* reconciliations are drained and every rejection has reached the audit   *)
(* log.                                                                    *)
LEMMA ShutdownKeeps ==
    ASSUME HostInv, Shutdown \/ ClosingPipe \/ ShutCompanion \/ CompanionClosed \/ CloseDatabase
    PROVE  HostInv'
<1>0. Stages /\ PipePart /\ CoordPart /\ LivePart /\ StatusIsTrue
  BY DEF HostInv
<1>1. CASE Shutdown
  <2>1. /\ UNCHANGED <<db, companion, live, swept, workVars, late, status, behind>>
        /\ phase = "running" /\ phase' = "pipeClosing" /\ Stop /\ PipeSteps
    BY <1>1 DEF Shutdown, Go, SameWork, SameStatus, PipeSteps
  <2>2. LivePart' /\ WorkPart' /\ NonePendingWithout' /\ StatusTypes' /\ NoLateWrite'
    BY <2>1, SameParts DEF SameStatus
  <2>3. PipePart'
    BY <1>0, <2>1, PipeKept
  <2>4. CoordPart' /\ coordinator' = "stopped"
    BY <1>0, <2>1, CoordinatorStops DEF Stages
  <2>5. Stages'
    BY <1>0, <2>1, <2>4 DEF Stages, Starting, Stopping, workVars
  <2>6. StatusIsTrue'
    BY <1>0, <2>1 DEF StatusIsTrue
  <2> QED
    BY <2>2, <2>3, <2>4, <2>5, <2>6 DEF HostInv
<1>2. CASE ClosingPipe
  <2>1. /\ UNCHANGED <<phase, db, companion, live, swept, coordVars, workVars, late, status, behind>>
        /\ phase = "pipeClosing" /\ PipeSteps
    BY <1>2 DEF ClosingPipe, SameWork, SameStatus, PipeSteps
  <2>2. /\ CoordPart' /\ LivePart' /\ WorkPart' /\ NonePendingWithout' /\ StatusTypes'
        /\ NoLateWrite'
    BY <2>1, SameParts DEF SameStatus
  <2>3. PipePart'
    BY <1>0, <2>1, PipeKept
  <2>4. Stages'
    BY <1>0, <2>1 DEF Stages, Starting, Stopping, coordVars, workVars
  <2>5. StatusIsTrue'
    BY <1>0, <2>1 DEF StatusIsTrue
  <2> QED
    BY <2>2, <2>3, <2>4, <2>5 DEF HostInv
<1>3. CASE ShutCompanion
  <2>1. /\ UNCHANGED <<pipeVars, pipe, db, coordVars, coordinator, tracked, late>>
        /\ phase = "pipeClosing" /\ phase' = "companionClosing" /\ pipe \in {"closed", "failed"}
        /\ db = "open" /\ coordinator = "stopped"
    BY <1>0, <1>3 DEF ShutCompanion, Go, Stages, Stopping, pipeVars, coordVars
  <2>2. PipePart' /\ CoordPart' /\ NoLateWrite'
    BY <2>1, SameParts
  <2>3. CASE companion = "up" /\ CloseCompanion
    <3>1. /\ companion' = "closing" /\ UNCHANGED <<dispatched, audited>>
          /\ LivePart' /\ WorkPart' /\ NonePendingWithout' /\ StatusTypes'
          /\ ~behind' => status' = [state |-> "running", count |-> Cardinality(live')]
      BY <2>1, <2>3, CompanionCloses
    <3>2. StatusIsTrue'
      BY <2>1, <3>1 DEF StatusIsTrue
    <3>3. Stages'
      BY <1>0, <2>1, <3>1 DEF Stages, Starting, Stopping
    <3> QED
      BY <2>2, <3>1, <3>2, <3>3 DEF HostInv
  <2>4. CASE /\ companion = "closed"
             /\ UNCHANGED <<companion, live, swept, workVars, status, behind>>
    <3>1. LivePart' /\ WorkPart' /\ NonePendingWithout' /\ StatusTypes'
      BY <2>1, <2>4, SameParts DEF SameStatus
    <3>2. StatusIsTrue'
      BY <1>0, <2>1, <2>4 DEF StatusIsTrue
    <3>3. Stages'
      BY <1>0, <2>1, <2>4 DEF Stages, Starting, Stopping, workVars
    <3> QED
      BY <2>2, <3>1, <3>2, <3>3 DEF HostInv
  <2> QED
    BY <1>3, <2>3, <2>4 DEF ShutCompanion, SameStatus
<1>4. CASE CompanionClosed
  <2>1. /\ UNCHANGED <<pipeVars, pipe, db, live, swept, coordVars, workVars, late, status, behind>>
        /\ phase = "companionClosing" /\ phase' = "draining" /\ companion' = "closed"
    BY <1>4 DEF CompanionClosed, Go, SameWork, SameStatus, pipeVars
  <2>2. PipePart' /\ CoordPart' /\ WorkPart' /\ StatusTypes' /\ NoLateWrite'
    BY <2>1, SameParts DEF SameStatus
  <2>3. companion # "up" /\ UNCHANGED <<mutation, dispatched, coordinator, tracked>>
    BY <1>0, <2>1 DEF Stages, workVars, coordVars
  <2>4. LivePart' /\ NonePendingWithout'
    BY <2>1, <2>3 DEF HostInv, LivePart, NonePendingWithout
  <2>5. Stages'
    BY <1>0, <2>1, <2>3 DEF Stages, Starting, Stopping
  <2>6. StatusIsTrue'
    BY <1>0, <2>1 DEF StatusIsTrue
  <2> QED
    BY <2>2, <2>4, <2>5, <2>6 DEF HostInv
<1>5. CASE CloseDatabase
  <2>1. /\ UNCHANGED <<pipeVars, pipe, companion, live, swept, coordVars, workVars, late>>
        /\ Settled /\ phase = "draining" /\ phase' = "stopped" /\ db' = "closed" /\ tracked = {}
        /\ UpdateStatus("stopped", 0)
    BY <1>5 DEF CloseDatabase, Go, SameWork, Drained, pipeVars
  <2>2. PipePart' /\ CoordPart' /\ LivePart' /\ WorkPart' /\ NoLateWrite'
    BY <2>1, SameParts
  <2>3. /\ companion = "closed" /\ coordinator = "stopped"
        /\ UNCHANGED <<mutation, dispatched, coordinator, tracked>>
    BY <1>0, <2>1 DEF Stages, Stopping, workVars, coordVars
  <2>4. live = {} /\ Cardinality({}) = 0 /\ {} \in SUBSET Conns /\ StatusTypes
    BY <1>0, <2>3, FS_EmptySet DEF HostInv, LivePart
  <2>5. StatusTypes' /\ (~behind' => status' = [state |-> "stopped", count |-> Cardinality({})])
    BY <2>1, <2>4, StatusWritten
  <2>6. StatusIsTrue'
    BY <2>1, <2>4, <2>5 DEF StatusIsTrue
  <2>7. \A q \in dispatched : mutation[q] = "done"
    <3>1. ASSUME NEW q \in dispatched PROVE mutation[q] = "done"
      <4>1. q \in Mutations /\ mutation[q] \in {"asked", "settling", "done"}
        BY DEF HostInv, WorkPart
      <4>2. mutation[q] # "asked"
        BY <2>3, <4>1 DEF HostInv, NonePendingWithout
      <4>3. mutation[q] # "settling"
        BY <2>1, <4>1 DEF Settled
      <4> QED
        BY <4>1, <4>2, <4>3
    <3> QED
      BY <3>1
  <2>8. NonePendingWithout'
    BY <2>1, <2>3, <2>7 DEF HostInv, NonePendingWithout
  <2>9. Stages'
    BY <1>0, <2>1, <2>3 DEF Stages, Starting, Stopping
  <2> QED
    BY <2>2, <2>5, <2>6, <2>8, <2>9 DEF HostInv
<1> QED
  BY <1>1, <1>2, <1>3, <1>4, <1>5

(* So do the pages that come and go, the adapters, and the timers of the   *)
(* coordinator.                                                            *)
LEMMA PagesKeep ==
    ASSUME HostInv,
           Peers \/ RunPeriodic \/ RunRetention
           \/ \E c \in Conns : Activate(c) \/ TakeOver(c) \/ Disconnect(c) \/ ReconcileEnds(c)
    PROVE  HostInv'
<1>0. Stages /\ PipePart /\ CoordPart /\ LivePart /\ WorkPart /\ NonePendingWithout /\ StatusTypes
      /\ StatusIsTrue /\ NoLateWrite
  BY DEF HostInv
<1>1. CASE Peers
  <2>1. /\ UNCHANGED <<phase, db, companion, live, swept, coordVars, workVars, late, status, behind>>
        /\ PipeSteps /\ UNCHANGED pipe
    BY <1>1, PipeMoves DEF Peers, SameWork, SameStatus, PipeSteps
  <2>2. /\ CoordPart' /\ LivePart' /\ WorkPart' /\ NonePendingWithout' /\ StatusTypes'
        /\ NoLateWrite'
    BY <2>1, SameParts DEF SameStatus
  <2>3. PipePart'
    BY <1>0, <2>1, PipeKept
  <2>4. Stages'
    BY <1>0, <2>1 DEF Stages, coordVars, workVars
  <2>5. StatusIsTrue'
    BY <1>0, <2>1 DEF StatusIsTrue
  <2> QED
    BY <2>2, <2>3, <2>4, <2>5 DEF HostInv
<1>2. CASE RunPeriodic
  <2>1. /\ UNCHANGED <<pipeVars, phase, db, companion, live, coordinator, connected, workVars,
                       late, status, behind>>
        /\ coordinator = "running" /\ Reconciling(connected)
        /\ swept' = swept \cup (connected \cap live)
    BY <1>2 DEF RunPeriodic, SameStatus
  <2>2. /\ PipePart' /\ WorkPart' /\ NonePendingWithout' /\ StatusTypes' /\ NoLateWrite'
    BY <2>1, SameParts DEF SameStatus
  <2>3. CoordPart' /\ LivePart'
    BY <1>0, <2>1 DEF Reconciling, CoordPart, LivePart
  <2>4. Stages'
    <3>1. db = "open" /\ phase \in {"pipe", "running", "threw"}
          /\ (phase = "running" => pipe = "ready" /\ companion = "up")
      BY <1>0, <2>1 DEF Stages, Starting, Stopping
    <3> QED
      BY <1>0, <2>1, <3>1 DEF Stages, Starting, Stopping, workVars, pipeVars
  <2>5. StatusIsTrue'
    BY <1>0, <2>1 DEF StatusIsTrue
  <2> QED
    BY <2>2, <2>3, <2>4, <2>5 DEF HostInv
<1>3. CASE RunRetention
  <2>1. /\ UNCHANGED <<pipeVars, phase, db, companion, live, swept, coordVars, workVars,
                       status, behind>>
        /\ coordinator = "running" /\ Writes("retention")
    BY <1>3 DEF RunRetention, SameStatus
  <2>2. /\ PipePart' /\ CoordPart' /\ LivePart' /\ WorkPart' /\ NonePendingWithout'
        /\ StatusTypes'
    BY <2>1, SameParts DEF SameStatus
  <2>3. db = "open"
    BY <1>0, <2>1 DEF Stages
  <2>4. NoLateWrite'
    BY <1>0, <2>1, <2>3 DEF Writes, NoLateWrite
  <2>5. Stages'
    BY <1>0, <2>1 DEF Stages, coordVars, workVars, pipeVars
  <2>6. StatusIsTrue'
    BY <1>0, <2>1 DEF StatusIsTrue
  <2> QED
    BY <2>2, <2>4, <2>5, <2>6 DEF HostInv
<1>4. ASSUME NEW c \in Conns, NEW S \in SUBSET Conns, live' = S, companion = "up",
             UpdateStatus("running", Cardinality(S)), UpdateConnections(S),
             UNCHANGED <<pipeVars, phase, db, companion, late>>,
             WorkPart', NonePendingWithout', phase = "secret" => UNCHANGED dispatched
      PROVE  HostInv'
  <2>1. /\ CoordPart' /\ swept' \subseteq S /\ UNCHANGED coordinator
        /\ coordinator # "running" => UNCHANGED <<connected, tracked, active>>
    BY <1>0, <1>4, ToldOfConnections
  <2>2. StatusTypes' /\ (~behind' => status' = [state |-> "running", count |-> Cardinality(S)])
    BY <1>0, <1>4, StatusWritten
  <2>3. PipePart' /\ NoLateWrite'
    BY <1>4, SameParts
  <2>4. LivePart'
    BY <1>0, <1>4, <2>1 DEF LivePart
  <2>5. Stages'
    BY <1>0, <1>4, <2>1 DEF Stages, Starting, Stopping, pipeVars
  <2>6. StatusIsTrue'
    <3>1. phase # "stopped"
      BY <1>0, <1>4 DEF Stages
    <3> QED
      BY <1>4, <2>2, <3>1 DEF StatusIsTrue
  <2> QED
    BY <1>4, <2>1, <2>2, <2>3, <2>4, <2>5, <2>6 DEF HostInv
<1>5. ASSUME NEW c \in Conns, Activate(c) PROVE HostInv'
  <2>1. /\ companion = "up" /\ live' = live \cup {c} /\ ConnectionsChanged(live')
        /\ dispatched' = dispatched \cup {q \in Mutations : mutation[q] = "asked" /\ Target[q] = c}
        /\ UNCHANGED <<pipeVars, phase, db, companion, mutation, audited, late>>
    BY <1>5 DEF Activate
  <2>2. UpdateStatus("running", Cardinality(live \cup {c})) /\ UpdateConnections(live \cup {c})
    BY <2>1 DEF ConnectionsChanged
  <2>3. live \cup {c} \in SUBSET Conns /\ db = "open" /\ phase # "secret"
    BY <1>0, <2>1 DEF LivePart, Stages
  <2>4. WorkPart' /\ NonePendingWithout'
    BY <1>0, <2>1, <2>3 DEF WorkPart, NonePendingWithout
  <2> QED
    BY <1>4, <2>1, <2>2, <2>3, <2>4
<1>6. ASSUME NEW c \in Conns, Disconnect(c) PROVE HostInv'
  <2>1. /\ companion = "up" /\ live' = live \ {c} /\ ConnectionsChanged(live')
        /\ UNCHANGED <<pipeVars, phase, db, companion, workVars, late>>
    BY <1>6 DEF Disconnect
  <2>2. UpdateStatus("running", Cardinality(live \ {c})) /\ UpdateConnections(live \ {c})
    BY <2>1 DEF ConnectionsChanged
  <2>3. live \ {c} \in SUBSET Conns
    BY <1>0 DEF LivePart
  <2>4. WorkPart' /\ NonePendingWithout' /\ UNCHANGED dispatched
    BY <2>1, SameParts DEF workVars
  <2> QED
    BY <1>4, <2>1, <2>2, <2>3, <2>4
<1>7. ASSUME NEW c \in Conns, TakeOver(c) PROVE HostInv'
  <2>1. /\ UNCHANGED <<pipeVars, phase, db, companion, live, coordVars, workVars, late>>
        /\ companion = "up" /\ UpdateStatus("running", Cardinality(live)) /\ swept' = swept \ {c}
    BY <1>7 DEF TakeOver
  <2>2. PipePart' /\ CoordPart' /\ WorkPart' /\ NonePendingWithout' /\ NoLateWrite'
    BY <2>1, SameParts
  <2>3. live \in SUBSET Conns /\ phase # "stopped"
    BY <1>0, <2>1 DEF LivePart, Stages
  <2>4. StatusTypes' /\ (~behind' => status' = [state |-> "running", count |-> Cardinality(live)])
    BY <1>0, <2>1, <2>3, StatusWritten
  <2>5. StatusIsTrue'
    BY <2>1, <2>3, <2>4 DEF StatusIsTrue
  <2>6. LivePart'
    BY <1>0, <2>1 DEF LivePart
  <2>7. Stages'
    BY <1>0, <2>1 DEF Stages, coordVars, workVars, pipeVars
  <2> QED
    BY <2>2, <2>4, <2>5, <2>6, <2>7 DEF HostInv
<1>8. ASSUME NEW c \in Conns, ReconcileEnds(c) PROVE HostInv'
  <2>1. /\ UNCHANGED <<pipeVars, phase, db, companion, live, swept, coordinator, connected,
                       workVars, late>> \/ db # "open"
        /\ UNCHANGED <<pipeVars, phase, db, companion, live, swept, coordinator, connected,
                       workVars, status, behind>>
        /\ active[c] # "none" /\ active' = [active EXCEPT ![c] = "none"]
        /\ tracked' = tracked \ {c}
    BY <1>8 DEF ReconcileEnds, Writes, SameStatus
  <2>2. c \in tracked /\ db = "open"
    BY <1>0, <2>1 DEF CoordPart, Stages
  <2>3. /\ PipePart' /\ LivePart' /\ WorkPart' /\ NonePendingWithout' /\ StatusTypes'
        /\ NoLateWrite'
    BY <2>1, <2>2, SameParts DEF SameStatus
  <2>4. CoordPart'
    BY <1>0, <2>1 DEF CoordPart
  <2>5. Stages'
    BY <1>0, <2>1, <2>2 DEF Stages, workVars, pipeVars
  <2>6. StatusIsTrue'
    BY <1>0, <2>1 DEF StatusIsTrue
  <2> QED
    BY <2>3, <2>4, <2>5, <2>6 DEF HostInv
<1> QED
  BY <1>1, <1>2, <1>3, <1>5, <1>6, <1>7, <1>8

(* And so do the mutations.                                                *)
LEMMA MutationsKeep ==
    ASSUME HostInv,
           \E q \in Mutations : Mutate(q) \/ ImageReady(q) \/ RequestEnds(q) \/ Finish(q)
    PROVE  HostInv'
<1>0. Stages /\ LivePart /\ WorkPart /\ NonePendingWithout /\ StatusIsTrue /\ NoLateWrite
  BY DEF HostInv
<1>1. PICK q \in Mutations : Mutate(q) \/ ImageReady(q) \/ RequestEnds(q) \/ Finish(q)
  OBVIOUS
<1>2. UNCHANGED <<pipeVars, phase, db, companion, live, coordVars, swept, status, behind>>
  BY <1>1 DEF Mutate, ImageReady, RequestEnds, Finish, SameButWork, SameStatus
<1>3. PipePart' /\ CoordPart' /\ LivePart' /\ StatusTypes'
  BY <1>2, SameParts DEF SameStatus
<1>4. StatusIsTrue'
  BY <1>0, <1>2 DEF StatusIsTrue
<1>5. ASSUME UNCHANGED late, WorkPart', NonePendingWithout', phase = "secret" => dispatched' = {}
      PROVE  HostInv'
  <2>1. Stages'
    BY <1>0, <1>2, <1>5 DEF Stages, pipeVars, coordVars
  <2>2. NoLateWrite'
    BY <1>5, SameParts
  <2> QED
    BY <1>3, <1>4, <1>5, <2>1, <2>2 DEF HostInv
<1>7. CASE UNCHANGED <<dispatched, audited, late>> /\ mutation[q] \in {"idle", "image"}
           /\ mutation' = [mutation EXCEPT ![q] = "image"]
  <2>1. q \notin dispatched
    BY <1>0, <1>7 DEF WorkPart
  <2>2. WorkPart' /\ NonePendingWithout'
    BY <1>0, <1>2, <1>7, <2>1 DEF WorkPart, NonePendingWithout
  <2> QED
    BY <1>0, <1>5, <1>7, <2>2 DEF Stages
<1>8. CASE UNCHANGED <<audited, late>> /\ mutation[q] \in {"idle", "image"} /\ Requested(q)
  <2>1. q \notin dispatched
    BY <1>0, <1>8 DEF WorkPart
  <2>2. CASE companion = "up"
    <3>1. /\ mutation' = [mutation EXCEPT ![q] = "asked"]
          /\ dispatched' \in {dispatched, dispatched \cup {q}}
      BY <1>8, <2>2 DEF Requested
    <3>2. db = "open" /\ phase # "secret"
      BY <1>0, <2>2 DEF Stages
    <3>3. WorkPart' /\ NonePendingWithout'
      BY <1>0, <1>2, <1>8, <2>2, <3>1, <3>2 DEF WorkPart, NonePendingWithout
    <3> QED
      BY <1>5, <1>8, <3>2, <3>3
  <2>3. CASE companion # "up"
    <3>1. mutation' = [mutation EXCEPT ![q] = "settling"] /\ UNCHANGED dispatched
      BY <1>8, <2>3 DEF Requested
    <3>2. WorkPart' /\ NonePendingWithout'
      BY <1>0, <1>2, <1>8, <2>1, <3>1 DEF WorkPart, NonePendingWithout
    <3> QED
      BY <1>0, <1>5, <1>8, <3>1, <3>2 DEF Stages
  <2> QED
    BY <2>2, <2>3
<1>9. CASE RequestEnds(q)
  <2>1. /\ mutation[q] \in {"image", "asked"} /\ mutation' = [mutation EXCEPT ![q] = "settling"]
        /\ UNCHANGED <<dispatched, audited, late>>
    BY <1>9 DEF RequestEnds
  <2>2. WorkPart' /\ NonePendingWithout'
    BY <1>0, <1>2, <2>1 DEF WorkPart, NonePendingWithout
  <2> QED
    BY <1>0, <1>5, <2>1, <2>2 DEF Stages
<1>10. CASE Finish(q)
  <2>1. /\ mutation[q] = "settling" /\ mutation' = [mutation EXCEPT ![q] = "done"]
        /\ audited' = (IF db = "open" THEN audited \cup {q} ELSE audited)
        /\ late' \in {late, late \cup {"mutation"}} /\ UNCHANGED dispatched
    BY <1>10 DEF Finish, AuditIn, Writes
  <2>2. db = "closed" => q \notin dispatched
    BY <1>0, <2>1 DEF NonePendingWithout
  <2>3. db \in {"open", "closed"}
    BY <1>0 DEF Stages
  <2>4. WorkPart' /\ NonePendingWithout'
    BY <1>0, <1>2, <2>1, <2>2, <2>3 DEF WorkPart, NonePendingWithout
  <2>5. NoLateWrite'
    BY <1>0, <2>1 DEF NoLateWrite
  <2>6. Stages'
    BY <1>0, <1>2, <2>1 DEF Stages, pipeVars, coordVars
  <2> QED
    BY <1>3, <1>4, <2>4, <2>5, <2>6 DEF HostInv
<1> QED
  BY <1>1, <1>7, <1>8, <1>9, <1>10 DEF Mutate, ImageReady, SameButWork

-----------------------------------------------------------------------------
LEMMA HostStep == HostInv /\ [Next]_vars => HostInv'
<1> SUFFICES ASSUME HostInv, [Next]_vars PROVE HostInv'
  OBVIOUS
<1>1. CASE UNCHANGED vars
  <2>1. UNCHANGED <<pipeVars, coordVars, workVars, companion, live, swept, db, status, behind, late>>
    BY <1>1 DEF vars
  <2>2. UNCHANGED <<phase, pipe, coordinator, tracked, dispatched>>
    BY <1>1 DEF vars, pipeVars, coordVars, workVars
  <2>3. Stages' /\ StatusIsTrue'
    BY <2>1, <2>2 DEF HostInv, Stages, StatusIsTrue
  <2> QED
    BY <2>1, <2>3, SameParts DEF HostInv, SameStatus
<1> QED
  BY <1>1, StartKeeps, ShutdownKeeps, PagesKeep, MutationsKeep DEF Next, Daemon, Over

(* The invariant holds in every reachable state.                           *)
THEOREM HostInvariant == Spec => []HostInv
  BY HostInitInv, HostStep, PTL DEF Spec

(* For any pages, adapters, mutations and platform, and whatever fails on  *)
(* the way: the host stops with the outcome of every mutation that reached *)
(* a page in its audit log, nothing but the audit of one that did not is   *)
(* written to the closed database, and status.json is true unless its last *)
(* write failed (daemon.ts, shutdown).                                     *)
THEOREM HostWritesItDown == Spec => []LifecycleInv
  BY HostInvariant, HostInvSays, PTL

(* A host whose pipe did not open, or that has stopped, leaves no          *)
(* reconciliation, page, adapter or broker process behind.                 *)
THEOREM HostLeavesNothing == Spec => []NothingLeftOver
  BY HostInvariant, HostInvSays, PTL
=============================================================================
