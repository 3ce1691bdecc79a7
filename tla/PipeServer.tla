----------------------------- MODULE PipeServer -----------------------------
(***************************************************************************)
(* How the host's pipe opens and closes                                    *)
(* (packages/host/src/bridge/pipe-server.ts).  On Unix the host listens    *)
(* itself; on Windows a child process, the broker, owns the pipe and tells *)
(* of it on its standard output                                            *)
(* (packages/host/src/bridge/windows-pipe-broker.ts).  Either way the pipe *)
(* exists before its ACL has been checked, and serves only afterwards.     *)
(*                                                                         *)
(* What an authenticated adapter says is the module Bridge.                *)
(***************************************************************************)
EXTENDS Integers, FiniteSets

CONSTANTS
    Adapters,   \* adapter processes that may attach
    Platforms   \* "unix", "win32", or both

ASSUME PipeAssumption == Platforms \subseteq {"unix", "win32"}

VARIABLES
    platform,   \* process.platform
    pipe,       \* where startPipeServer, or the close of its handle, is
    broker,     \* the child process: "none", "alive" or "gone"
    sockets,    \* adapters that are attached
    served      \* those among them that are authenticated

pipeVars == <<platform, pipe, broker, sockets, served>>

PipeStates == {"off", "starting", "listening", "ready", "denied", "closing",
               "closed", "failed", "threw"}

PipeTypeOK ==
    /\ platform \in Platforms /\ pipe \in PipeStates
    /\ broker \in {"none", "alive", "gone"} /\ (platform = "unix" => broker = "none")
    /\ sockets \subseteq Adapters /\ served \subseteq sockets

PipeInit ==
    /\ platform \in Platforms /\ pipe = "off" /\ broker = "none"
    /\ sockets = {} /\ served = {}

----------------------------------------------------------------------------
(* Mutated forms.                                                          *)

LeftAlive == broker
ServedKept == sockets' = {} /\ UNCHANGED served
NoStartupTimer == FALSE
NoKillTimer == FALSE

----------------------------------------------------------------------------

\* child.kill(), and the exit of the child: nobody is attached any more.
Killed == IF broker = "alive" THEN "gone" ELSE broker
NobodyAttached == sockets' = {} /\ served' = {}
SamePeers == UNCHANGED <<sockets, served>>

\* startUnixPipeServer up to the listening socket, or its error; on Windows the
\* broker is spawned, or cannot be.
StartPipe ==
    /\ pipe = "off" /\ UNCHANGED platform /\ SamePeers
    /\ \/ /\ platform = "unix" /\ pipe' \in {"listening", "threw"}
          /\ UNCHANGED broker
       \/ /\ platform = "win32" /\ pipe' = "starting" /\ broker' = "alive"
       \/ /\ platform = "win32" /\ pipe' = "failed" /\ UNCHANGED broker

\* The "ready" event: the broker has verified its own descriptor.
BrokerReady ==
    /\ pipe = "starting" /\ broker = "alive" /\ pipe' = "listening"
    /\ UNCHANGED <<platform, broker>> /\ SamePeers

\* The child ends before it is ready.
BrokerLost ==
    /\ pipe = "starting" /\ broker = "alive" /\ broker' = "gone" /\ pipe' = "failed"
    /\ UNCHANGED platform /\ SamePeers

\* A malformed or unexpected line, or STARTUP_TIMEOUT_MS: the child is killed.
GiveUp == Killed
BrokerRejected ==
    /\ pipe = "starting" /\ pipe' = "failed" /\ broker' = GiveUp
    /\ UNCHANGED platform /\ SamePeers

\* Once it was ready, the child ends by itself or is killed because of a bad
\* line or of its control channel; no one tells the daemon.
BrokerDies ==
    /\ pipe \in {"listening", "ready", "denied", "closing"} /\ broker = "alive"
    /\ broker' = "gone" /\ NobodyAttached
    /\ UNCHANGED <<platform, pipe>>

\* enforceAcl, which on Unix always succeeds (packages/host/src/bridge/acl.ts).
\* When it fails the pipe is closed again.
AclAllowed ==
    /\ pipe = "listening" /\ pipe' = "ready"
    /\ UNCHANGED <<platform, broker>> /\ SamePeers
AclDenied ==
    /\ pipe = "listening" /\ platform = "win32" /\ pipe' = "denied"
    /\ UNCHANGED <<platform, broker>> /\ SamePeers

\* PipeServerHandle.close: the Unix server stops listening; on Windows the table
\* of connections is cleared and the broker is told to shut down.
ClosePipe ==
    /\ pipe = "ready" /\ pipe' = "closing"
    /\ IF platform = "win32" THEN NobodyAttached ELSE SamePeers
    /\ UNCHANGED <<platform, broker>>
\* The handle of a pipe that never was ready has nothing to close.
CloseFailedPipe == pipe = "failed" /\ UNCHANGED pipeVars

\* server.close has called back: every socket has ended.  On Windows the child
\* has ended, or is killed after five seconds.
Released == IF platform = "unix" THEN sockets = {} ELSE broker # "alive"
AfterClose == IF pipe = "denied" THEN "failed" ELSE "closed"
PipeClosed ==
    /\ pipe \in {"denied", "closing"} /\ Released /\ pipe' = AfterClose
    /\ UNCHANGED <<platform, broker>> /\ SamePeers
ShutdownTimeout ==
    /\ pipe \in {"denied", "closing"} /\ broker = "alive" /\ broker' = Killed
    /\ pipe' = AfterClose /\ NobodyAttached
    /\ UNCHANGED platform

----------------------------------------------------------------------------
(* The adapters.                                                           *)

Accepting == pipe \in {"listening", "ready"} /\ (platform = "win32" => broker = "alive")

Attach(a) ==
    /\ Accepting /\ a \notin sockets /\ sockets' = sockets \cup {a}
    /\ UNCHANGED <<platform, pipe, broker, served>>

\* The first frames of an adapter.  Before the ACL is known to be right they
\* cost it its connection, and so they do once the table is cleared.
Prove(a) ==
    /\ a \in sockets \ served
    /\ IF pipe = "ready" \/ (pipe = "closing" /\ platform = "unix")
       THEN served' = served \cup {a} /\ UNCHANGED sockets
       ELSE sockets' = sockets \ {a} /\ UNCHANGED served
    /\ UNCHANGED <<platform, pipe, broker>>

Detach(a) ==
    /\ a \in sockets /\ sockets' = sockets \ {a} /\ served' = served \ {a}
    /\ UNCHANGED <<platform, pipe, broker>>

PipeOpens == StartPipe \/ BrokerRejected \/ AclAllowed \/ AclDenied
BrokerAnswers == BrokerReady \/ BrokerLost
PipeEnds == PipeClosed \/ ShutdownTimeout
PipePeers == BrokerDies \/ \E a \in Adapters : Attach(a) \/ Prove(a) \/ Detach(a)
=============================================================================
