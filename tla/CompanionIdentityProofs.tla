----------------------- MODULE CompanionIdentityProofs -----------------------
(***************************************************************************)
(* For any number of tabs, keys, grants and faults: what a grant and a     *)
(* live connection say about the credential that is bound.                 *)
(***************************************************************************)
EXTENDS CompanionIdentity, FiniteSetTheorems, TLAPS

LinkState == [phase : {"absent", "closed", "proof", "offer", "confirm", "live"}, cred : Nat]

(* The shape of the state the invariant talks about.                       *)
IdentityTypes ==
    /\ row \in [key : Nat, cred : Nat, confirmed : BOOLEAN]
    /\ key \in Nat \ {0} /\ row.key <= key
    /\ link \in [Tabs -> LinkState] /\ mem \in [Tabs -> Nat] /\ disk \in Nat
    /\ live \in Tabs \cup {None}

(* A proof or a confirmation in flight was made with the credential the    *)
(* page has in memory.                                                     *)
ProofsAreHeld ==
    \A t \in Tabs : link[t].phase \in {"proof", "confirm"} => mem[t] = link[t].cred

(* The inductive invariant.                                                *)
IdentityInv ==
    /\ IdentityTypes
    /\ ProofsAreHeld
    /\ GrantsPostdateConfirmation
    /\ LiveIsProven

(* Nothing is bound, granted or connected.                                 *)
LEMMA IdentityInitInv == Init => IdentityInv
  BY IdentityAssumption
  DEF Init, IdentityInv, IdentityTypes, ProofsAreHeld, GrantsPostdateConfirmation,
      LiveIsProven, Confirmed, Bound, Absent, LinkState

(* A step that leaves the row, the key and the grants alone, and of the    *)
(* links and memories changes only those of one tab that is not live       *)
(* afterwards, keeps the invariant.                                        *)
LEMMA OtherTabStep ==
    ASSUME NEW t \in Tabs, IdentityInv, UNCHANGED <<row, key, grants>>,
           NEW l \in LinkState, link' = [link EXCEPT ![t] = l],
           NEW c \in Nat, mem' = [mem EXCEPT ![t] = c],
           l.phase \in {"proof", "confirm"} => c = l.cred,
           live' \in {live, None}, live' # t, disk' \in Nat
    PROVE  IdentityInv'
<1>1. IdentityTypes'
  BY DEF IdentityInv, IdentityTypes
<1>2. ProofsAreHeld'
  BY DEF IdentityInv, IdentityTypes, ProofsAreHeld
<1>3. GrantsPostdateConfirmation'
  BY DEF IdentityInv, GrantsPostdateConfirmation, Confirmed, Bound
<1>4. LiveIsProven'
  <2> SUFFICES ASSUME live' # None PROVE LiveIsProven'
    BY DEF LiveIsProven
  <2>1. live' = live /\ live \in Tabs /\ live # t
    BY DEF IdentityInv, IdentityTypes
  <2>2. link'[live] = link[live] /\ mem'[live] = mem[live]
    BY <2>1 DEF IdentityInv, IdentityTypes
  <2> QED
    BY <2>1, <2>2 DEF IdentityInv, LiveIsProven, Confirmed, Bound
<1> QED
  BY <1>1, <1>2, <1>3, <1>4 DEF IdentityInv

(* A tab whose socket is not authenticated is not the connection.          *)
LEMMA NotLive ==
    ASSUME NEW t \in Tabs, IdentityInv, link[t].phase # "live"
    PROVE  live # t
  BY IdentityAssumption DEF IdentityInv, LiveIsProven

(* Making a tab that proved the bound credential the connection, with the  *)
(* row confirmed and only grants made since.                               *)
LEMMA ActivateStep ==
    ASSUME NEW t \in Tabs, IdentityInv, Activate(t), UNCHANGED <<key, mem, disk>>,
           mem[t] = row.cred, row.key = key,
           row' = [row EXCEPT !.confirmed = TRUE], grants' \subseteq {row.cred}
    PROVE  IdentityInv'
<1>1. row'.key = key /\ row'.cred = row.cred /\ row'.confirmed
      /\ row' \in [key : Nat, cred : Nat, confirmed : BOOLEAN]
  BY DEF IdentityInv, IdentityTypes
<1>2. IdentityTypes'
  BY <1>1 DEF IdentityInv, IdentityTypes, Activate, Phase, Closed, LinkState
<1>3. ProofsAreHeld'
  BY DEF IdentityInv, IdentityTypes, ProofsAreHeld, Activate, Phase, Closed
<1>4. GrantsPostdateConfirmation'
  BY <1>1 DEF GrantsPostdateConfirmation
<1>5. LiveIsProven'
  BY <1>1 DEF LiveIsProven, Confirmed, Bound, Activate, Phase
<1> QED
  BY <1>2, <1>3, <1>4, <1>5 DEF IdentityInv

(* Every step of a handshake preserves the invariant.                      *)
LEMMA HandshakeStep ==
    ASSUME NEW t \in Tabs, IdentityInv, Handshake(t)
    PROVE  IdentityInv'
<1>t. IdentityTypes
  BY DEF IdentityInv
<1>m. /\ mem[t] \in Nat /\ mem = [mem EXCEPT ![t] = mem[t]]
      /\ link[t] \in LinkState /\ live \in {live, None}
      /\ link[t].phase \in {"absent", "closed", "proof", "offer", "confirm", "live"} /\ link[t].cred \in Nat
  BY <1>t DEF IdentityTypes, LinkState
<1>c. Closed \in LinkState /\ Closed.phase \notin {"proof", "confirm"}
  BY DEF Closed, LinkState
<1>1. CASE Connect(t)
  <2>1. live # t
    BY <1>1, NotLive DEF Connect
  <2>2. Phase("proof", mem[t]) \in LinkState /\ Phase("proof", mem[t]).cred = mem[t]
    BY <1>m DEF Phase, LinkState
  <2> QED
    BY <1>1, <1>t, <1>m, <2>1, <2>2, OtherTabStep DEF Connect, IdentityTypes
<1>2. CASE Enroll(t)
  <2>1. live = None
    BY <1>2 DEF Enroll, IdentityInv, LiveIsProven, Confirmed
  <2>2. row'.confirmed = FALSE /\ row'.key = key
        /\ row' \in [key : Nat, cred : Nat, confirmed : BOOLEAN]
    BY <1>2, <1>t DEF Enroll, IdentityTypes
  <2>3. Phase("offer", row.cred + 1) \in LinkState
    BY <1>t DEF Phase, LinkState, IdentityTypes
  <2>4. IdentityTypes'
    BY <1>2, <1>t, <2>2, <2>3 DEF Enroll, IdentityTypes
  <2>5. ProofsAreHeld'
    BY <1>2, <1>t DEF Enroll, IdentityTypes, IdentityInv, ProofsAreHeld, Phase
  <2> QED
    BY <1>2, <2>1, <2>2, <2>4, <2>5
    DEF Enroll, IdentityInv, GrantsPostdateConfirmation, LiveIsProven, Confirmed
<1>3. CASE Reoffer(t)
  <2>1. live = None
    BY <1>3 DEF Reoffer, Reoffers, IdentityInv, LiveIsProven, Confirmed
  <2>2. Phase("offer", row.cred) \in LinkState
    BY <1>t DEF Phase, LinkState, IdentityTypes
  <2>3. IdentityTypes'
    BY <1>3, <1>t, <2>2 DEF Reoffer, IdentityTypes
  <2>4. ProofsAreHeld'
    BY <1>3, <1>t DEF Reoffer, IdentityTypes, IdentityInv, ProofsAreHeld, Phase
  <2> QED
    BY <1>3, <2>1, <2>3, <2>4
    DEF Reoffer, IdentityInv, GrantsPostdateConfirmation, LiveIsProven
<1>4. CASE RejectProof(t) \/ RejectConfirm(t)
  <2>1. live # t
    BY <1>4, NotLive DEF RejectProof, RejectConfirm
  <2>2. Reject(t) /\ UNCHANGED <<key, mem, disk>>
    BY <1>4 DEF RejectProof, RejectConfirm
  <2> QED
    BY <1>t, <1>m, <1>c, <2>1, <2>2, OtherTabStep DEF Reject, IdentityTypes
<1>5. CASE AcceptProof(t)
  <2>1. mem[t] = row.cred /\ row.key = key
    BY <1>5 DEF AcceptProof, Proves, Bound, IdentityInv, ProofsAreHeld
  <2>2. row' = [row EXCEPT !.confirmed = TRUE] /\ grants' \subseteq {row.cred}
    <3>1. CASE row.confirmed
      BY <1>5, <1>t, <3>1 DEF AcceptProof, IdentityInv, GrantsPostdateConfirmation,
         Confirmed, IdentityTypes
    <3>2. CASE ~row.confirmed
      BY <1>5, <3>2 DEF AcceptProof, ConfirmRow, GrantsAfterConfirming
    <3> QED
      BY <3>1, <3>2
  <2> QED
    BY <1>5, <2>1, <2>2, ActivateStep DEF AcceptProof
<1>6. CASE Receive(t)
  <2>1. live # t
    BY <1>6, NotLive DEF Receive
  <2> DEFINE l == Phase("confirm", link[t].cred)
  <2>2. link' = [link EXCEPT ![t] = l]
    BY <1>6 DEF Receive
  <2>3. l \in LinkState /\ l.cred = link[t].cred
    BY <1>m DEF LinkState, Phase
  <2> HIDE DEF l
  <2> QED
    BY <1>6, <1>m, <2>1, <2>2, <2>3, OtherTabStep DEF Receive, Stores
<1>7. CASE Confirm(t)
  <2>1. mem[t] = row.cred /\ row.key = key
    BY <1>7 DEF Confirm, Confirms, Proves, Bound, IdentityInv, ProofsAreHeld
  <2> QED
    BY <1>7, <2>1, ActivateStep DEF Confirm, ConfirmRow, GrantsAfterConfirming
<1> QED
  BY <1>1, <1>2, <1>3, <1>4, <1>5, <1>6, <1>7 DEF Handshake

(* Every step preserves the invariant.                                     *)
LEMMA IdentityStep == IdentityInv /\ [Next]_vars => IdentityInv'
<1> SUFFICES ASSUME IdentityInv, [Next]_vars PROVE IdentityInv'
  OBVIOUS
<1>t. IdentityTypes
  BY DEF IdentityInv
<1>c. Closed \in LinkState /\ Closed.phase \notin {"proof", "confirm"}
  BY DEF Closed, LinkState
<1>1. ASSUME NEW t \in Tabs, Handshake(t) PROVE IdentityInv'
  BY <1>1, HandshakeStep
<1>2. ASSUME NEW t \in Tabs, ReceiveRefused(t) PROVE IdentityInv'
  <2>1. live # t
    BY <1>2, NotLive DEF ReceiveRefused
  <2>2. link[t].cred \in Nat
    BY <1>t DEF IdentityTypes, LinkState
  <2> QED
    BY <1>2, <1>t, <1>c, <2>1, <2>2, OtherTabStep DEF ReceiveRefused, Reject, IdentityTypes
<1>3. ASSUME NEW t \in Tabs, Persist(t) PROVE IdentityInv'
  BY <1>3 DEF Persist, IdentityInv, IdentityTypes, ProofsAreHeld,
     GrantsPostdateConfirmation, LiveIsProven, Confirmed, Bound
<1>4. ASSUME NEW t \in Tabs, Drop(t) PROVE IdentityInv'
  <2>1. mem[t] \in Nat /\ mem' = [mem EXCEPT ![t] = mem[t]]
    BY <1>4, <1>t DEF Drop, IdentityTypes
  <2>2. live' \in {live, None} /\ live' # t
    BY <1>4, <1>t, IdentityAssumption DEF Drop, LoseLink
  <2> QED
    BY <1>4, <1>t, <1>c, <2>1, <2>2, OtherTabStep DEF Drop, LoseLink, IdentityTypes
<1>5. ASSUME NEW t \in Tabs, Reload(t) PROVE IdentityInv'
  <2>1. live' \in {live, None} /\ live' # t
    BY <1>5, <1>t, IdentityAssumption DEF Reload, LoseLink
  <2> QED
    BY <1>5, <1>t, <1>c, <2>1, OtherTabStep DEF Reload, LoseLink, IdentityTypes
<1>6. ASSUME NEW t \in Tabs, Open(t) PROVE IdentityInv'
  <2>1. live # t
    BY <1>6, NotLive DEF Open, Opened
  <2> QED
    BY <1>6, <1>t, <1>c, <2>1, OtherTabStep DEF Open, IdentityTypes
<1>7. CASE Restart
  <2>1. key' \in Nat \ {0} /\ row.key <= key' /\ (row.key = key' => key' = key)
    BY <1>7, <1>t DEF Restart, IdentityTypes
  <2>2. IdentityTypes'
    BY <1>7, <1>t, <1>c, <2>1 DEF Restart, IdentityTypes, Absent, LinkState
  <2>3. ProofsAreHeld'
    BY <1>7 DEF Restart, ProofsAreHeld, Closed, Absent
  <2>4. GrantsPostdateConfirmation' /\ LiveIsProven'
    BY <1>7, <2>1 DEF Restart, IdentityInv, GrantsPostdateConfirmation, LiveIsProven,
       Confirmed, Bound
  <2> QED
    BY <2>2, <2>3, <2>4 DEF IdentityInv
<1>8. CASE Grant \/ Revoke
  <2>1. UNCHANGED <<row, key, live, link, mem, disk>>
    BY <1>8 DEF Grant, Revoke
  <2>2. GrantsPostdateConfirmation'
    BY <1>8 DEF Grant, Revoke, IdentityInv, GrantsPostdateConfirmation, Confirmed, Bound
  <2> QED
    BY <2>1, <2>2 DEF IdentityInv, IdentityTypes, ProofsAreHeld, LiveIsProven, Confirmed, Bound
<1>9. CASE UNCHANGED vars
  BY <1>9 DEF vars, IdentityInv, IdentityTypes, ProofsAreHeld,
     GrantsPostdateConfirmation, LiveIsProven, Confirmed, Bound
<1> QED
  BY <1>1, <1>2, <1>3, <1>4, <1>5, <1>6, <1>7, <1>8, <1>9 DEF Next

(* The invariant holds in every reachable state.                           *)
THEOREM IdentityInvariant == Spec => []IdentityInv
  BY IdentityInitInv, IdentityStep, PTL DEF Spec

(* However grants, enrollments, lost replies, reloads and key rotations    *)
(* interleave, a confirmed identity carries only grants made after its     *)
(* credential was proved (enrollIdentity and confirmIdentity).             *)
THEOREM GrantsAreFresh == Spec => []GrantsPostdateConfirmation
<1>1. IdentityInv => GrantsPostdateConfirmation
  BY DEF IdentityInv
<1> QED
  BY <1>1, IdentityInvariant, PTL

(* Requests are only ever sent to a page that holds the confirmed          *)
(* credential of the current pairing key (the auth.proof and auth.confirm  *)
(* branches).                                                              *)
THEOREM LiveConnectionIsProven == Spec => []LiveIsProven
<1>1. IdentityInv => LiveIsProven
  BY DEF IdentityInv
<1> QED
  BY <1>1, IdentityInvariant, PTL

-----------------------------------------------------------------------------
(* One tab, and a storage that has taken every write.                      *)
Alone(t) == Opened = {t} /\ refusals = 0

(* The only tab that was ever open holds what is stored, and that is the   *)
(* credential of a confirmed row; an offer is of a row not yet confirmed.  *)
HeldByTheTab ==
    /\ refusals \in Nat /\ IsFiniteSet(Opened)
    /\ Opened = {} => ~row.confirmed
    /\ \A t \in Tabs :
          Alone(t) => /\ mem[t] = disk
                      /\ row.confirmed => row.cred = disk
                      /\ link[t].phase = "offer" => ~row.confirmed

(* A step of a tab that is open opens no other.                            *)
LEMMA OpenedStays ==
    ASSUME NEW t \in Opened, link \in [Tabs -> LinkState],
           NEW l \in LinkState, l.phase # "absent", link' = [link EXCEPT ![t] = l]
    PROVE  Opened' = Opened
  BY DEF Opened

LEMMA ActivateOpens ==
    ASSUME NEW t \in Opened, link \in [Tabs -> LinkState], Activate(t),
           live \in Opened \cup {None}
    PROVE  Opened' = Opened /\ link'[t].phase = "live"
<1>1. Closed.phase = "closed" /\ Phase("live", 0).phase = "live" /\ t \in Tabs
  BY DEF Closed, Phase, Opened
<1>2. \A u \in Tabs : link'[u] = IF u = t THEN Phase("live", 0)
                                 ELSE IF u = live THEN Closed ELSE link[u]
  BY DEF Activate
<1>3. \A u \in Tabs : link'[u].phase # "absent" <=> link[u].phase # "absent"
  BY <1>1, <1>2, IdentityAssumption DEF Opened
<1>4. Opened' = Opened
  BY <1>3 DEF Opened
<1> QED
  BY <1>1, <1>2, <1>4

(* A handshake of the only tab keeps what the invariant says of it.        *)
LEMMA HeldHandshake ==
    ASSUME NEW t \in Tabs, IdentityInv, HeldByTheTab, Handshake(t)
    PROVE  HeldByTheTab'
<1>t. link \in [Tabs -> LinkState] /\ mem \in [Tabs -> Nat] /\ t \in Opened
      /\ mem[t] \in Nat /\ link[t].cred \in Nat /\ row.cred \in Nat
  <2>1. t \in Opened
    BY DEF Handshake, Connect, Enroll, Reoffer, RejectProof, AcceptProof, Receive, Confirm,
       RejectConfirm, Opened
  <2> QED
    BY <2>1 DEF IdentityInv, IdentityTypes, LinkState
<1>l. live \in Opened \cup {None}
  BY DEF IdentityInv, IdentityTypes, LiveIsProven, Opened
<1>p. \A p \in {"proof", "offer", "confirm"}, c \in Nat :
         /\ Phase(p, c) \in LinkState /\ Phase(p, c).phase = p
         /\ Closed \in LinkState /\ Closed.phase = "closed"
  BY DEF Phase, Closed, LinkState
<1>u. refusals' = refusals
  BY DEF Handshake, Connect, Enroll, Reoffer, RejectProof, AcceptProof, Receive, Confirm,
     RejectConfirm
<1>a. \A u \in Tabs : Alone(u) => u = t
  BY <1>t DEF Alone
<1>1. CASE Connect(t)
  <2>1. Opened' = Opened
    BY <1>1, <1>t, <1>p, OpenedStays DEF Connect
  <2>2. UNCHANGED <<row, mem, disk>> /\ link'[t].phase = "proof"
    BY <1>1, <1>t, <1>p DEF Connect
  <2> QED
    BY <1>t, <1>a, <1>u, <2>1, <2>2 DEF HeldByTheTab, Alone
<1>2. CASE Enroll(t)
  <2>1. Opened' = Opened
    <3>1. row.cred + 1 \in Nat
      BY <1>t
    <3>2. Phase("offer", row.cred + 1) \in LinkState /\ Phase("offer", row.cred + 1).phase = "offer"
      BY <1>p, <3>1
    <3> QED
      BY <1>2, <1>t, <3>2, OpenedStays DEF Enroll
  <2>2. UNCHANGED <<mem, disk>> /\ row'.confirmed = FALSE
    BY <1>2 DEF Enroll
  <2> QED
    BY <1>t, <1>a, <1>u, <2>1, <2>2 DEF HeldByTheTab, Alone
<1>3. CASE Reoffer(t)
  <2>1. Opened' = Opened
    BY <1>3, <1>t, <1>p, OpenedStays DEF Reoffer
  <2>2. UNCHANGED <<row, mem, disk>> /\ ~row.confirmed
    BY <1>3 DEF Reoffer, Reoffers
  <2> QED
    BY <1>t, <1>a, <1>u, <2>1, <2>2 DEF HeldByTheTab, Alone
<1>4. CASE RejectProof(t) \/ RejectConfirm(t)
  <2>1. Opened' = Opened
    BY <1>4, <1>t, <1>p, OpenedStays DEF RejectProof, RejectConfirm, Reject
  <2>2. UNCHANGED <<row, mem, disk>> /\ link'[t].phase = "closed"
    BY <1>4, <1>t, <1>p DEF RejectProof, RejectConfirm, Reject
  <2> QED
    BY <1>t, <1>a, <1>u, <2>1, <2>2 DEF HeldByTheTab, Alone
<1>5. CASE AcceptProof(t) \/ Confirm(t)
  <2>1. Opened' = Opened /\ link'[t].phase = "live"
    BY <1>5, <1>t, <1>l, ActivateOpens DEF AcceptProof, Confirm
  <2>2. UNCHANGED <<mem, disk>> /\ row'.cred = row.cred
    BY <1>5 DEF AcceptProof, Confirm, ConfirmRow, IdentityInv, IdentityTypes
  <2>3. mem[t] = row.cred
    BY <1>5 DEF AcceptProof, Confirm, Confirms, Proves, IdentityInv, ProofsAreHeld
  <2> QED
    BY <1>t, <1>a, <1>u, <2>1, <2>2, <2>3 DEF HeldByTheTab, Alone
<1>6. CASE Receive(t)
  <2>1. Opened' = Opened
    BY <1>6, <1>t, <1>p, OpenedStays DEF Receive
  <2>2. UNCHANGED row /\ link'[t].phase = "confirm" /\ mem'[t] = disk'
    BY <1>6, <1>t, <1>p DEF Receive, Stores
  <2>3. Alone(t) => ~row.confirmed
    BY <1>6 DEF Receive, HeldByTheTab
  <2>4. ASSUME NEW u \in Tabs, Alone(u)'
        PROVE  u = t /\ Alone(t)
    BY <1>t, <1>u, <2>1, <2>4 DEF Alone
  <2>5. Opened' # {}
    BY <1>t, <2>1
  <2> QED
    BY <1>u, <2>1, <2>2, <2>3, <2>4, <2>5 DEF HeldByTheTab
<1> QED
  BY <1>1, <1>2, <1>3, <1>4, <1>5, <1>6 DEF Handshake

LEMMA HeldStep ==
    ASSUME IdentityInv, HeldByTheTab, [Next]_vars
    PROVE  HeldByTheTab'
<1>t. link \in [Tabs -> LinkState] /\ mem \in [Tabs -> Nat] /\ refusals \in Nat
  BY DEF IdentityInv, IdentityTypes, HeldByTheTab
<1>c. Closed \in LinkState /\ Closed.phase = "closed" /\ Absent.phase = "absent"
  BY DEF Closed, LinkState, Absent
<1>1. ASSUME NEW t \in Tabs, Handshake(t) PROVE HeldByTheTab'
  BY <1>1, HeldHandshake
<1>2. ASSUME NEW t \in Tabs, ReceiveRefused(t) PROVE HeldByTheTab'
  <2>1. refusals' \in Nat /\ refusals' # 0 /\ UNCHANGED row
    BY <1>2, <1>t DEF ReceiveRefused, Reject
  <2>2. Opened' = Opened
    BY <1>2, <1>t, <1>c, OpenedStays DEF ReceiveRefused, Reject, Opened
  <2> QED
    BY <2>1, <2>2 DEF HeldByTheTab, Alone
<1>3. ASSUME NEW t \in Tabs, Persist(t) PROVE HeldByTheTab'
  <2>1. t \in Opened /\ disk # mem[t] /\ UNCHANGED <<row, link, mem, refusals>>
    BY <1>3 DEF Persist
  <2>2. \A u \in Tabs : ~Alone(u)
    BY <2>1 DEF HeldByTheTab, Alone
  <2> QED
    BY <2>1, <2>2 DEF HeldByTheTab, Alone, Opened
<1>4. ASSUME NEW t \in Tabs, Drop(t) \/ Reload(t) PROVE HeldByTheTab'
  <2>1. t \in Opened /\ link' = [link EXCEPT ![t] = Closed] /\ UNCHANGED <<row, disk, refusals>>
    BY <1>4 DEF Drop, Reload, LoseLink
  <2>2. Opened' = Opened /\ link'[t].phase = "closed"
    BY <1>t, <1>c, <2>1, OpenedStays
  <2>3. mem' = mem \/ mem'[t] = disk
    BY <1>4, <1>t DEF Drop, Reload
  <2> QED
    BY <2>1, <2>2, <2>3 DEF HeldByTheTab, Alone
<1>5. ASSUME NEW t \in Tabs, Open(t) PROVE HeldByTheTab'
  <2>1. /\ t \notin Opened /\ UNCHANGED <<row, disk, refusals>>
        /\ mem'[t] = disk /\ link'[t].phase = "closed"
    BY <1>5, <1>t, <1>c DEF Open
  <2>2. Opened' = Opened \cup {t}
    BY <1>5, <1>t, <1>c DEF Open, Opened
  <2>3. ASSUME NEW u \in Tabs, Alone(u)' PROVE u = t /\ Opened = {}
    <3>1. Opened \cup {t} = {u}
      BY <2>2, <2>3 DEF Alone
    <3> QED
      BY <2>1, <3>1
  <2>5. IsFiniteSet(Opened \cup {t})
    BY FS_AddElement DEF HeldByTheTab
  <2>4. \A u \in Tabs : Alone(u)' => u = t /\ ~row.confirmed
    BY <2>3 DEF HeldByTheTab
  <2> QED
    BY <1>t, <2>1, <2>2, <2>4, <2>5 DEF HeldByTheTab
<1>6. CASE Restart
  <2>1. /\ UNCHANGED <<row, mem, disk, refusals>>
        /\ link' = [t \in Tabs |-> IF t \in Opened THEN Closed ELSE Absent]
    BY <1>6 DEF Restart
  <2>2. Opened' = Opened /\ \A t \in Tabs : link'[t].phase # "offer"
    BY <1>c, <2>1 DEF Opened
  <2> QED
    BY <2>1, <2>2 DEF HeldByTheTab, Alone
<1>7. CASE Grant \/ Revoke \/ UNCHANGED vars
  <2>1. UNCHANGED <<row, link, mem, disk, refusals>>
    BY <1>7 DEF Grant, Revoke, vars
  <2> QED
    BY <2>1 DEF HeldByTheTab, Alone, Opened
<1> QED
  BY <1>1, <1>2, <1>3, <1>4, <1>5, <1>6, <1>7 DEF Next

(* With one tab and a storage that takes every write, whatever replies,    *)
(* sockets and host processes are lost and however often the pairing key   *)
(* is rotated, a confirmed identity can still be proved: the page that     *)
(* confirmed it holds the credential, in memory or on disk.                *)
THEOREM NobodyIsLockedOut == Spec => []NotLockedOut
<1>1. ASSUME Init PROVE HeldByTheTab
  <2>1. Opened = {} /\ row.confirmed = FALSE /\ refusals = 0
    BY <1>1 DEF Init, Opened, Absent
  <2> QED
    BY <2>1, FS_EmptySet DEF HeldByTheTab, Alone
<1>2. IdentityInv /\ HeldByTheTab /\ [Next]_vars => HeldByTheTab'
  BY HeldStep
<1>3. ASSUME HeldByTheTab PROVE NotLockedOut
  <2> SUFFICES ASSUME Undisturbed, Confirmed
               PROVE  row.cred = disk
    BY DEF NotLockedOut
  <2>1. PICK t : Opened = {t}
    <3>1. Cardinality(Opened) = 1
      BY DEF Undisturbed
    <3>2. IsFiniteSet(Opened)
      BY <1>3 DEF HeldByTheTab
    <3> QED
      BY <3>1, <3>2, FS_Singleton
  <2>2. t \in Tabs
    BY <2>1 DEF Opened
  <2> QED
    BY <1>3, <2>1, <2>2 DEF HeldByTheTab, Alone, Undisturbed, Confirmed
<1> QED
  BY <1>1, <1>2, <1>3, IdentityInvariant, PTL DEF Spec
=============================================================================
