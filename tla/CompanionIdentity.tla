-------------------------- MODULE CompanionIdentity --------------------------
(***************************************************************************)
(* The bound identity of one companion connection: how a page that knows   *)
(* the pairing secret is enrolled with a credential of its own, proves it  *)
(* has received it, and authenticates with it from then on                 *)
(* (bridge/companion-server.ts, foundry-module companion-client.ts), and   *)
(* the capability grants that hang on the identity (security/policy.ts).   *)
(*                                                                         *)
(* The tabs of one user share the browser's storage and the connection id; *)
(* each keeps a copy of the stored state in memory and writes it back      *)
(* whole.  Sockets die, writes are refused, pages reload, the host         *)
(* restarts, possibly with a new pairing key that all pages are given.     *)
(*                                                                         *)
(* Abstractions.  Credentials are numbered in the order they are drawn, 0  *)
(* is none; a proof is the credential it was made with.  Proofs with a     *)
(* wrong pairing secret, hellos of another user, damaged ciphertexts and   *)
(* the message rate limit only close the socket and appear as Drop.        *)
(***************************************************************************)
EXTENDS Integers, FiniteSets

CONSTANTS
    Tabs,         \* open pages of the user
    None,         \* no live connection
    MaxKeys,      \* bound: pairing keys
    MaxDrops,     \* bound: sockets lost, pages reloaded, hosts restarted
    MaxRefusals,  \* bound: writes the storage refuses
    MaxGrants     \* bound: grants the operator makes

ASSUME IdentityAssumption ==
    /\ None \notin Tabs
    /\ MaxKeys \in Nat \ {0} /\ {MaxDrops, MaxRefusals, MaxGrants} \subseteq Nat

VARIABLES
    row,       \* companion_identities: pairing key, credential, confirmed
    grants,    \* capability_grants, each as the credential confirmed when made
    key,       \* the current pairing key of the host
    live,      \* the tab whose socket is in the connections map
    link,      \* each tab's socket: what is in flight on it, and a credential
    mem,       \* each tab's #state.identityCredential
    disk,      \* the stored credential
    drops, refusals, granted   \* counters for the bounds

vars == <<row, grants, key, live, link, mem, disk, drops, refusals, granted>>

(* Every key enrolls at most one credential: an enrollment is repeated     *)
(* only when the row belongs to another key.                               *)
Credentials == 0..MaxKeys

(* What a socket is doing: auth.proof in flight to the host, auth.ready    *)
(* with a credential in flight to the page, auth.confirm in flight to the  *)
(* host, or an authenticated connection; "absent" is a tab not opened yet. *)
Absent == [phase |-> "absent", cred |-> 0]
Closed == [phase |-> "closed", cred |-> 0]
Phase(p, c) == [phase |-> p, cred |-> c]

Bound == row.key = key
Confirmed == Bound /\ row.confirmed

Init ==
    /\ row = [key |-> 0, cred |-> 0, confirmed |-> FALSE]
    /\ grants = {} /\ key = 1 /\ live = None
    /\ link = [t \in Tabs |-> Absent]
    /\ mem = [t \in Tabs |-> 0] /\ disk = 0
    /\ drops = 0 /\ refusals = 0 /\ granted = 0

Opened == {t \in Tabs : link[t].phase # "absent"}

-----------------------------------------------------------------------------
(* A tab is opened: it starts with what is stored.                         *)
Open(t) ==
    /\ t \notin Opened
    /\ link' = [link EXCEPT ![t] = Closed]
    /\ mem' = [mem EXCEPT ![t] = disk]
    /\ UNCHANGED <<row, grants, key, live, disk, drops, refusals, granted>>

(* The host makes a tab's socket the connection and closes the one before. *)
Activate(t) ==
    /\ live' = t
    /\ link' = [u \in Tabs |-> IF u = t THEN Phase("live", 0)
                               ELSE IF u = live THEN Closed ELSE link[u]]

Reject(t) ==
    /\ link' = [link EXCEPT ![t] = Closed]
    /\ UNCHANGED <<row, grants, live>>

(* A page connects and answers the challenge with what it has in memory.   *)
Connect(t) ==
    /\ link[t].phase = "closed"
    /\ link' = [link EXCEPT ![t] = Phase("proof", mem[t])]
    /\ UNCHANGED <<row, grants, key, live, mem, disk, drops, refusals, granted>>

(* The row belongs to another key or there is none: a new credential, and  *)
(* no grant that belonged to an older one.                                 *)
Enroll(t) ==
    /\ link[t].phase = "proof" /\ ~Bound
    /\ row' = [key |-> key, cred |-> row.cred + 1, confirmed |-> FALSE]
    /\ grants' = {}
    /\ link' = [link EXCEPT ![t] = Phase("offer", row.cred + 1)]
    /\ UNCHANGED <<key, live, mem, disk, drops, refusals, granted>>

(* identityProofValid: the proof was made with the bound credential.       *)
ProvesOrPending(t) == link[t].cred = row.cred \/ ~row.confirmed
Proves(t) == link[t].cred = row.cred

(* An unconfirmed credential is offered again to a page that cannot prove  *)
(* it: its auth.ready may have been lost.                                  *)
OffersOnce == FALSE
Reoffers == ~row.confirmed
Reoffer(t) ==
    /\ link[t].phase = "proof" /\ Bound /\ ~Proves(t) /\ Reoffers
    /\ grants' = {}
    /\ link' = [link EXCEPT ![t] = Phase("offer", row.cred)]
    /\ UNCHANGED <<row, key, live, mem, disk, drops, refusals, granted>>

RejectProof(t) ==
    /\ link[t].phase = "proof" /\ Bound /\ ~Proves(t) /\ ~Reoffers
    /\ Reject(t)
    /\ UNCHANGED <<key, mem, disk, drops, refusals, granted>>

(* confirmIdentity.                                                        *)
GrantsKept == grants
GrantsAfterConfirming == {}
ConfirmRow == /\ row' = [row EXCEPT !.confirmed = TRUE]
              /\ grants' = GrantsAfterConfirming

(* The page proved the bound credential: it is confirmed if it was not.    *)
AcceptProof(t) ==
    /\ link[t].phase = "proof" /\ Bound /\ Proves(t)
    /\ IF row.confirmed THEN UNCHANGED <<row, grants>> ELSE ConfirmRow
    /\ Activate(t)
    /\ UNCHANGED <<key, mem, disk, drops, refusals, granted>>

(* auth.ready with a credential: the page keeps it, stores it, and only    *)
(* then confirms.                                                          *)
StoresNothing(t) == disk
Stores(t) == link[t].cred
Receive(t) ==
    /\ link[t].phase = "offer"
    /\ mem' = [mem EXCEPT ![t] = link[t].cred] /\ disk' = Stores(t)
    /\ link' = [link EXCEPT ![t] = Phase("confirm", link[t].cred)]
    /\ UNCHANGED <<row, grants, key, live, drops, refusals, granted>>

(* The write is refused: the page closes the socket with the credential in *)
(* its memory.                                                             *)
ReceiveRefused(t) ==
    /\ link[t].phase = "offer"
    /\ refusals < MaxRefusals /\ refusals' = refusals + 1
    /\ mem' = [mem EXCEPT ![t] = link[t].cred]
    /\ Reject(t)
    /\ UNCHANGED <<key, disk, drops, granted>>

(* auth.confirm: the row may have changed since the offer.                 *)
Confirms(t) == Bound /\ ~row.confirmed /\ Proves(t)

Confirm(t) ==
    /\ link[t].phase = "confirm" /\ Confirms(t)
    /\ ConfirmRow /\ Activate(t)
    /\ UNCHANGED <<key, mem, disk, drops, refusals, granted>>

RejectConfirm(t) ==
    /\ link[t].phase = "confirm" /\ ~Confirms(t)
    /\ Reject(t)
    /\ UNCHANGED <<key, mem, disk, drops, refusals, granted>>

-----------------------------------------------------------------------------
(* Any other write of the page's state, of which the credential is a part. *)
Persist(t) ==
    /\ t \in Opened /\ disk # mem[t] /\ disk' = mem[t]
    /\ UNCHANGED <<row, grants, key, live, link, mem, drops, refusals, granted>>

LoseLink(t) ==
    /\ link' = [link EXCEPT ![t] = Closed]
    /\ live' = IF live = t THEN None ELSE live
    /\ drops < MaxDrops /\ drops' = drops + 1

Drop(t) ==
    /\ t \in Opened /\ link[t].phase # "closed" /\ LoseLink(t)
    /\ UNCHANGED <<row, grants, key, mem, disk, refusals, granted>>

Reload(t) ==
    /\ t \in Opened /\ LoseLink(t)
    /\ mem' = [mem EXCEPT ![t] = disk]
    /\ UNCHANGED <<row, grants, key, disk, refusals, granted>>

(* The host restarts; the operator may have rotated the pairing key.       *)
Restart ==
    /\ drops < MaxDrops /\ drops' = drops + 1
    /\ key' \in {key, key + 1} /\ key' <= MaxKeys
    /\ live' = None
    /\ link' = [t \in Tabs |-> IF t \in Opened THEN Closed ELSE Absent]
    /\ UNCHANGED <<row, grants, mem, disk, refusals, granted>>

(* The operator grants or revokes at any time, also for an identity that   *)
(* is not confirmed (setCapabilityGrant does not look at it).              *)
Grant ==
    /\ granted < MaxGrants /\ granted' = granted + 1
    /\ grants' = grants \cup {IF Confirmed THEN row.cred ELSE 0}
    /\ UNCHANGED <<row, key, live, link, mem, disk, drops, refusals>>

Revoke ==
    /\ grants # {} /\ grants' = {}
    /\ UNCHANGED <<row, key, live, link, mem, disk, drops, refusals, granted>>

-----------------------------------------------------------------------------
(* The handshake goes on by itself: the page's reconnect timer, and        *)
(* messages that are delivered unless the socket is lost.                  *)
Handshake(t) ==
    \/ Connect(t) \/ Enroll(t) \/ Reoffer(t) \/ RejectProof(t) \/ AcceptProof(t)
    \/ Receive(t) \/ Confirm(t) \/ RejectConfirm(t)

Next ==
    \/ \E t \in Tabs : Handshake(t) \/ ReceiveRefused(t) \/ Persist(t)
    \/ \E t \in Tabs : Open(t) \/ Drop(t) \/ Reload(t)
    \/ Restart \/ Grant \/ Revoke

Spec == Init /\ [][Next]_vars
FairSpec == Spec /\ \A t \in Tabs : WF_vars(Handshake(t))

-----------------------------------------------------------------------------
(* Every variable has its type; a credential is numbered below its key.    *)
TypeOK ==
    /\ row \in [key : 0..key, cred : Credentials, confirmed : BOOLEAN]
    /\ row.cred <= row.key
    /\ key \in 1..MaxKeys
    /\ grants \subseteq Credentials
    /\ live \in Tabs \cup {None}
    /\ link \in [Tabs -> [phase : {"absent", "closed", "proof", "offer", "confirm", "live"},
                          cred : Credentials]]
    /\ mem \in [Tabs -> Credentials] /\ disk \in Credentials
    /\ drops \in 0..MaxDrops /\ refusals \in 0..MaxRefusals /\ granted \in 0..MaxGrants

(* Whatever the operator granted before a page proved that it holds the    *)
(* credential bound now, is gone: a confirmed identity inherits no         *)
(* mutation authority (clearIdentityGrants in both transactions), even     *)
(* when grants, enrollments, lost replies and key rotations interleave.    *)
GrantsPostdateConfirmation == Confirmed => grants \subseteq {row.cred}

(* The connection requests are sent to always belongs to an identity that  *)
(* is confirmed under the current key, by a page that held its credential. *)
LiveIsProven ==
    live # None => /\ Confirmed /\ link[live].phase = "live"
                   /\ mem[live] = row.cred

(* One tab, and a storage that has taken every write: a refused write      *)
(* leaves the credential in memory only, and #persist of a tab that was    *)
(* loaded earlier overwrites it.                                           *)
Undisturbed == Cardinality(Opened) = 1 /\ refusals = 0

(* Somebody can still prove a confirmed identity: a page that has the      *)
(* credential in memory or one that will load it from storage.  Otherwise  *)
(* every proof is rejected until the operator rotates the pairing key.     *)
NotLockedOut ==
    Undisturbed /\ Confirmed => row.cred \in {disk} \cup {mem[t] : t \in Opened}

(* When sockets stop dying, the companion is connected for good.           *)
EventuallyConnected == <>[](Undisturbed => live # None)
=============================================================================
