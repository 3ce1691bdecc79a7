---------------------------- MODULE BridgeProofs ----------------------------
(***************************************************************************)
(* What the MCP client, the policy and the audit log may rely on, for any  *)
(* number of requests and capabilities, any frame budget, and every order  *)
(* of answers, cancellations, deadlines, faults and broken pipes.          *)
(* The bridge as a whole implements module Mutation, as a tab does.        *)
(***************************************************************************)
EXTENDS Bridge, SequenceTheorems, TLAPS

(* The frames of a pipe, and the outcomes in the audit log.                *)
HostFrames ==
    [type : {"init", "proof"}, id : {None}] \cup [type : {"request", "cancel"}, id : Requests]
AdapterFrames ==
    [type : {"challenge", "ready"}, id : {None}] \cup [type : {"progress"}, id : Requests]
    \cup [type : {"response"}, id : Requests, answer : Answers]
Outcomes == {"denied", "success", "error"}

(* The types of the router.                                                *)
RouterTypeOK ==
    /\ online \in BOOLEAN /\ grants \subseteq Capabilities
    /\ work \in [Requests -> Works \cup {None}]
    /\ effect \in [Mutations -> BOOLEAN]
    /\ audit \in [Mutations -> Seq(Outcomes)] /\ unaudited \subseteq Mutations
    /\ decided \in [Mutations -> (SUBSET Capabilities) \cup {None}]

(* Nothing is written of a mutation, or one line or one report is.         *)
Unwritten(q) == audit[q] = <<>> /\ q \notin unaudited
Written(q, outcomes) ==
    \/ audit[q] = <<>> /\ q \in unaudited
    \/ q \notin unaudited /\ \E o \in outcomes : audit[q] = <<o>>

(* The companion may still carry out what nobody waits for any more.       *)
MayYetRun(q) == work[q].sent /\ work[q].answer = "INDETERMINATE_MUTATION"

(* The life of a mutation: before it is read nothing has happened, while   *)
(* it is active it is decided and only a mutation that was sent can have   *)
(* run, and when it is settled the log and the answer agree with what it   *)
(* did or may yet do.                                                      *)
JobInv(q) ==
    /\ work[q] = None => Unwritten(q) /\ ~effect[q]
    /\ Active(q) =>
        /\ Unwritten(q) /\ Needs[q] \subseteq decided[q]
        /\ effect[q] => work[q].sent
        /\ work[q].at = "source" => ~work[q].sent
    /\ Settled(q) =>
        /\ Unwritten(q) \/ Written(q, Outcomes)
        /\ effect[q] \/ MayYetRun(q) =>
              Needs[q] \subseteq decided[q] /\ Written(q, {"success", "error"})
        /\ audit[q] = <<"success">> => effect[q]
        /\ work[q].answer = "ok" => effect[q]
        /\ effect[q] => work[q].answer \in {"ok", "INDETERMINATE_MUTATION", "FOUNDRY_ERROR"}

RouterInv == RouterTypeOK /\ \A q \in Mutations : JobInv(q)

(* What a step does to a mutation it is not about.                         *)
Untouched(q) ==
    /\ work'[q] = work[q] /\ audit'[q] = audit[q] /\ effect'[q] = effect[q]
    /\ decided'[q] = decided[q] /\ (q \in unaudited' <=> q \in unaudited)

LEMMA UntouchedKeepsJob ==
    ASSUME NEW q \in Mutations, JobInv(q), Untouched(q)
    PROVE  JobInv(q)'
  BY DEF JobInv, Untouched, Unwritten, Written, Active, Settled, MayYetRun

(* The router's steps preserve the types of what they write.               *)
LEMMA AuditedTypes ==
    ASSUME RouterTypeOK, NEW q \in Mutations, NEW o \in Outcomes, Audited(q, o)
    PROVE  /\ audit' \in [Mutations -> Seq(Outcomes)] /\ unaudited' \subseteq Mutations
           /\ \A r \in Mutations \ {q} : audit'[r] = audit[r] /\ (r \in unaudited' <=> r \in unaudited)
           /\ Unwritten(q) => Written(q, {o})'
<1>1. CASE Record(q, o) /\ UNCHANGED <<unaudited, faults>>
  <2>1. audit' = [audit EXCEPT ![q] = Append(@, o)]
    BY <1>1 DEF Record
  <2>2. Append(audit[q], o) \in Seq(Outcomes)
    BY DEF RouterTypeOK
  <2>3. Unwritten(q) => audit'[q] = <<o>>
    BY <2>1 DEF RouterTypeOK, Unwritten
  <2> QED
    BY <1>1, <2>1, <2>2, <2>3 DEF RouterTypeOK, Unwritten, Written
<1>2. CASE unaudited' = unaudited \cup {q} /\ UNCHANGED audit
  BY <1>2 DEF RouterTypeOK, Unwritten, Written
<1> QED
  BY <1>1, <1>2 DEF Audited

LEMMA FinishedWork ==
    ASSUME RouterTypeOK, NEW q \in Requests, NEW a \in Answers, Finish(q, a)
    PROVE  /\ work' \in [Requests -> Works \cup {None}]
           /\ work'[q].at = "answered" /\ work'[q].answer = a /\ work'[q] # None
           /\ work'[q].sent = IF work[q] = None THEN FALSE ELSE work[q].sent
           /\ \A r \in Requests \ {q} : work'[r] = work[r]
<1>1. work[q] # None => work[q].sent \in BOOLEAN
  BY DEF RouterTypeOK, Works
<1> DEFINE new == [at |-> "answered", answer |-> a,
                   sent |-> IF work[q] = None THEN FALSE ELSE work[q].sent]
<1>2. new \in Works
  BY <1>1 DEF Works
<1>3. work' = [work EXCEPT ![q] = new]
  BY DEF Finish
<1>4. new # None
  BY <1>2, RouterAssumption
<1>5. work'[q] = new
  BY <1>3 DEF RouterTypeOK
<1> QED
  BY <1>2, <1>3, <1>4, <1>5 DEF RouterTypeOK

LEMMA AskedWork ==
    ASSUME RouterTypeOK, NEW q \in Requests, ToCompanion(q)
    PROVE  /\ work' \in [Requests -> Works \cup {None}]
           /\ work'[q].at = "companion" /\ work'[q].sent = online /\ work'[q] # None
           /\ \A r \in Requests \ {q} : work'[r] = work[r]
<1> DEFINE new == [at |-> "companion", aborted |-> FALSE, sent |-> online]
<1>1. new \in Works
  BY DEF RouterTypeOK, Works
<1>2. work' = [work EXCEPT ![q] = new]
  BY DEF ToCompanion
<1>3. new # None
  BY <1>1, RouterAssumption
<1>4. work'[q] = new
  BY <1>2 DEF RouterTypeOK
<1> QED
  BY <1>1, <1>2, <1>3, <1>4 DEF RouterTypeOK

(* An active request is settled with an answer that agrees with what it    *)
(* did.                                                                    *)
LEMMA SettleKeepsInv ==
    ASSUME RouterInv, NEW q \in Requests, Active(q), NEW a \in Answers, Settle(q, a),
           q \in Mutations => /\ a = "ok" => effect[q]
                              /\ effect[q] => a \in {"ok", "INDETERMINATE_MUTATION", "FOUNDRY_ERROR"}
    PROVE  RouterInv'
<1>1. AnswerOf(q, a) \in Answers /\ (q \in Mutations => AnswerOf(q, a) = a)
  BY DEF AnswerOf, Answers
<1>2. Finish(q, AnswerOf(q, a)) /\ UNCHANGED <<online, grants, effect, decided>>
  BY DEF Settle
<1>3. RouterTypeOK /\ \A r \in Mutations : JobInv(r)
  BY DEF RouterInv
<1>4. /\ work' \in [Requests -> Works \cup {None}]
      /\ work'[q].at = "answered" /\ work'[q].answer = AnswerOf(q, a) /\ work'[q] # None
      /\ \A r \in Requests \ {q} : work'[r] = work[r]
  BY <1>1, <1>2, <1>3, FinishedWork
<1>5. CASE q \notin Mutations
  <2>1. Unaudited
    BY <1>5 DEF Settle
  <2>2. \A r \in Mutations : Untouched(r)
    BY <1>2, <1>4, <1>5, <2>1, RouterAssumption DEF Untouched, Unaudited
  <2>3. RouterTypeOK'
    BY <1>2, <1>3, <1>4, <2>1 DEF RouterTypeOK, Unaudited
  <2> QED
    BY <1>3, <2>2, <2>3, UntouchedKeepsJob DEF RouterInv
<1>6. CASE q \in Mutations
  <2>1. Audited(q, OutcomeOf(a)) /\ OutcomeOf(a) \in Outcomes
    BY <1>6 DEF Settle, OutcomeOf, Outcomes
  <2>2. /\ audit' \in [Mutations -> Seq(Outcomes)] /\ unaudited' \subseteq Mutations
        /\ \A r \in Mutations \ {q} : audit'[r] = audit[r] /\ (r \in unaudited' <=> r \in unaudited)
        /\ Unwritten(q) => Written(q, {OutcomeOf(a)})'
    BY <1>3, <1>6, <2>1, AuditedTypes
  <2>3. RouterTypeOK'
    BY <1>2, <1>3, <1>4, <2>2 DEF RouterTypeOK
  <2>4. \A r \in Mutations \ {q} : Untouched(r)
    BY <1>2, <1>4, <2>2, RouterAssumption DEF Untouched
  <2>5. Unwritten(q) /\ Needs[q] \subseteq decided[q]
    BY <1>3, <1>6 DEF JobInv
  <2>6. OutcomeOf(a) \in {"success", "error"} /\ (OutcomeOf(a) = "success" => effect[q])
    BY <1>6 DEF OutcomeOf
  <2>7. /\ Written(q, {"success", "error"})' /\ Written(q, Outcomes)'
        /\ audit'[q] = <<"success">> => effect[q]
    BY <2>2, <2>5, <2>6 DEF Written, Outcomes
  <2>8. JobInv(q)'
    BY <1>1, <1>2, <1>4, <1>6, <2>5, <2>7 DEF JobInv, Active, Settled
  <2> QED
    BY <1>3, <2>3, <2>4, <2>8, UntouchedKeepsJob DEF RouterInv
<1> QED
  BY <1>5, <1>6

(* Lines of the log with different outcomes are different.                 *)
LEMMA LinesDiffer ==
    /\ <<"denied">> # <<"success">> /\ <<"error">> # <<"success">>
    /\ <<>> # <<"success">>
<1>1. \A o \in Outcomes : <<o>>[1] = o /\ Len(<<o>>) = 1
  OBVIOUS
<1>2. Len(<<>>) = 0
  OBVIOUS
<1> QED
  BY <1>1, <1>2 DEF Outcomes

(* A request that is answered at once: nothing has happened, and the log   *)
(* does not say otherwise.                                                 *)
LEMMA RefuseKeepsInv ==
    ASSUME RouterInv, NEW q \in Requests, work[q] = None,
           NEW a \in {"CANCELLED", "FOUNDRY_ERROR", "PERMISSION_DENIED"}, Finish(q, a),
           UNCHANGED <<online, grants, effect, decided>>,
           audit' \in [Mutations -> Seq(Outcomes)], unaudited' \subseteq Mutations,
           \A r \in Mutations \ {q} :
              audit'[r] = audit[r] /\ (r \in unaudited' <=> r \in unaudited),
           q \in Mutations => Unwritten(q)' \/ Written(q, {"denied", "error"})'
    PROVE  RouterInv'
<1>1. RouterTypeOK /\ \A r \in Mutations : JobInv(r)
  BY DEF RouterInv
<1>2. a \in Answers
  BY DEF Answers
<1>3. /\ work' \in [Requests -> Works \cup {None}]
      /\ work'[q].at = "answered" /\ work'[q].answer = a /\ work'[q] # None /\ work'[q].sent = FALSE
      /\ \A r \in Requests \ {q} : work'[r] = work[r]
  BY <1>1, <1>2, FinishedWork
<1>4. RouterTypeOK'
  BY <1>1, <1>3 DEF RouterTypeOK
<1>5. \A r \in Mutations \ {q} : Untouched(r)
  BY <1>3, RouterAssumption DEF Untouched
<1>6. ASSUME q \in Mutations PROVE JobInv(q)'
  <2>1. ~effect'[q]
    BY <1>1, <1>6 DEF JobInv
  <2>2. Unwritten(q)' \/ Written(q, Outcomes)'
    BY <1>6 DEF Unwritten, Written, Outcomes
  <2>3. audit'[q] # <<"success">>
    BY <1>6, LinesDiffer DEF Unwritten, Written
  <2> QED
    BY <1>3, <2>1, <2>2, <2>3 DEF JobInv, Active, Settled, MayYetRun
<1> QED
  BY <1>1, <1>4, <1>5, <1>6, UntouchedKeepsJob DEF RouterInv

(* A mutation that was authorized is decided, and has not run.             *)
LEMMA AuthorizeKeepsInv ==
    ASSUME RouterInv, NEW q \in Requests, work[q] = None, Authorized(q),
           UNCHANGED <<online, grants, effect>>
    PROVE  RouterInv'
<1>1. RouterTypeOK /\ (\A r \in Mutations : JobInv(r)) /\ q \in Mutations
  BY DEF RouterInv, Authorized
<1>2. /\ decided' = [decided EXCEPT ![q] = grants] /\ Needs[q] \subseteq grants
      /\ UNCHANGED <<audit, unaudited>>
  BY DEF Authorized, Unaudited, Allowed
<1>3. /\ work' \in [Requests -> Works \cup {None}] /\ work'[q] # None
      /\ work'[q].at \in {"source", "companion"}
      /\ work'[q].at = "source" => ~work'[q].sent
      /\ \A r \in Requests \ {q} : work'[r] = work[r]
  <2>1. CASE q \in Sourced
    <3> DEFINE new == [at |-> "source", aborted |-> FALSE, sent |-> FALSE]
    <3>1. new \in Works
      BY DEF Works
    <3>2. new # None /\ work' = [work EXCEPT ![q] = new]
      BY <2>1, <3>1, RouterAssumption DEF Authorized
    <3>3. work'[q] = new
      BY <3>2 DEF RouterTypeOK, RouterInv
    <3> QED
      BY <1>1, <3>1, <3>2, <3>3 DEF RouterTypeOK
  <2>2. CASE q \notin Sourced
    BY <1>1, <2>2, AskedWork DEF Authorized
  <2> QED
    BY <2>1, <2>2
<1>4. decided' \in [Mutations -> (SUBSET Capabilities) \cup {None}] /\ decided'[q] = grants
  BY <1>1, <1>2 DEF RouterTypeOK
<1>5. RouterTypeOK'
  BY <1>1, <1>2, <1>3, <1>4 DEF RouterTypeOK
<1>6. \A r \in Mutations \ {q} : Untouched(r)
  BY <1>1, <1>2, <1>3, RouterAssumption DEF Untouched, RouterTypeOK
<1>7. JobInv(q)'
  BY <1>1, <1>2, <1>3, <1>4 DEF JobInv, Active, Settled, Unwritten
<1> QED
  BY <1>1, <1>5, <1>6, <1>7, UntouchedKeepsJob DEF RouterInv

LEMMA HandleKeepsInv ==
    ASSUME RouterInv, NEW q \in Requests, Handle(q)
    PROVE  RouterInv'
<1>1. RouterTypeOK /\ (\A r \in Mutations : JobInv(r)) /\ work[q] = None
      /\ UNCHANGED <<online, grants, effect>>
  BY DEF RouterInv, Handle
<1>2. q \in Mutations => Unwritten(q)
  BY <1>1 DEF JobInv
<1>3. CASE TooLate(q) \/ Offline(q)
  <2>1. /\ \E a \in {"CANCELLED", "FOUNDRY_ERROR"} : Finish(q, a)
        /\ UNCHANGED <<audit, unaudited, decided>>
    BY <1>3 DEF TooLate, Offline, Unaudited
  <2> QED
    BY <1>1, <1>2, <2>1, RefuseKeepsInv DEF RouterTypeOK, Unwritten
<1>4. CASE Read(q)
  <2>1. q \notin Mutations /\ ToCompanion(q) /\ UNCHANGED <<audit, unaudited, decided>>
    BY <1>4 DEF Read, Unaudited
  <2>2. /\ work' \in [Requests -> Works \cup {None}]
        /\ \A r \in Requests \ {q} : work'[r] = work[r]
    BY <1>1, <2>1, AskedWork
  <2>3. \A r \in Mutations : Untouched(r)
    BY <1>1, <2>1, <2>2, RouterAssumption DEF Untouched
  <2> QED
    BY <1>1, <2>1, <2>2, <2>3, UntouchedKeepsJob DEF RouterInv, RouterTypeOK
<1>5. CASE PolicyFails(q)
  <2>1. q \in Mutations /\ Finish(q, "FOUNDRY_ERROR") /\ Record(q, "error")
        /\ UNCHANGED <<unaudited, decided>>
    BY <1>5 DEF PolicyFails
  <2>2. audit' = [audit EXCEPT ![q] = Append(@, "error")]
    BY <2>1 DEF Record
  <2>3. audit'[q] = <<"error">> /\ audit' \in [Mutations -> Seq(Outcomes)]
    <3>1. audit'[q] = Append(<<>>, "error") /\ "error" \in Outcomes
      BY <1>1, <1>2, <2>1, <2>2 DEF Unwritten, RouterTypeOK, Outcomes
    <3>2. Append(audit[q], "error") \in Seq(Outcomes)
      BY <1>1, <2>1, <3>1 DEF RouterTypeOK
    <3> QED
      BY <1>1, <2>1, <2>2, <3>1, <3>2 DEF RouterTypeOK
  <2>4. Written(q, {"denied", "error"})'
    BY <1>2, <2>1, <2>3 DEF Written, Unwritten
  <2>5. unaudited' \subseteq Mutations
        /\ \A r \in Mutations \ {q} : audit'[r] = audit[r] /\ (r \in unaudited' <=> r \in unaudited)
    BY <1>1, <2>1, <2>2 DEF RouterTypeOK
  <2> QED
    BY <1>1, <2>1, <2>3, <2>4, <2>5, RefuseKeepsInv
<1>6. CASE Denied(q)
  <2>1. q \in Mutations /\ Finish(q, "PERMISSION_DENIED") /\ Audited(q, "denied")
        /\ UNCHANGED decided
    BY <1>6 DEF Denied
  <2>2. "denied" \in Outcomes
    BY DEF Outcomes
  <2>3. /\ audit' \in [Mutations -> Seq(Outcomes)] /\ unaudited' \subseteq Mutations
        /\ \A r \in Mutations \ {q} : audit'[r] = audit[r] /\ (r \in unaudited' <=> r \in unaudited)
        /\ Written(q, {"denied"})'
    BY <1>1, <1>2, <2>1, <2>2, AuditedTypes
  <2>4. Written(q, {"denied", "error"})'
    BY <2>3 DEF Written
  <2> QED
    BY <1>1, <2>1, <2>3, <2>4, RefuseKeepsInv
<1>7. CASE Authorized(q)
  BY <1>1, <1>7, AuthorizeKeepsInv
<1> QED
  BY <1>3, <1>4, <1>5, <1>6, <1>7 DEF Handle

(* A cancellation or a deadline marks an active request.                   *)
LEMMA AbortKeepsInv ==
    ASSUME RouterInv, NEW q \in Requests, Abort(q), UNCHANGED <<online, effect, policy>>
    PROVE  RouterInv'
<1>1. RouterTypeOK /\ (\A r \in Mutations : JobInv(r))
      /\ UNCHANGED <<online, effect, grants, audit, unaudited, decided>>
  BY DEF RouterInv, policy
<1>2. CASE ~Active(q)
  <2>1. work' = work
    BY <1>2 DEF Abort
  <2> QED
    BY <1>1, <2>1, UntouchedKeepsJob DEF RouterInv, RouterTypeOK, Untouched
<1>3. CASE Active(q)
  <2> DEFINE new == [work[q] EXCEPT !.aborted = TRUE]
  <2>1. work[q] \in [at : {"source", "companion"}, aborted : BOOLEAN, sent : BOOLEAN]
    BY <1>1, <1>3 DEF RouterTypeOK, Works, Active
  <2>2. new \in Works /\ new.at = work[q].at /\ new.sent = work[q].sent
    BY <2>1 DEF Works
  <2>3. new # None
    BY <2>2, RouterAssumption
  <2>4. work' = [work EXCEPT ![q] = new]
    BY <1>3 DEF Abort
  <2>5. work'[q] = new /\ \A r \in Requests \ {q} : work'[r] = work[r]
    BY <1>1, <2>4 DEF RouterTypeOK
  <2>6. RouterTypeOK'
    BY <1>1, <2>2, <2>4 DEF RouterTypeOK
  <2> HIDE DEF new
  <2>7. \A r \in Mutations \ {q} : JobInv(r)'
    BY <1>1, <2>5, UntouchedKeepsJob, RouterAssumption DEF Untouched
  <2>8. ASSUME q \in Mutations PROVE JobInv(q)'
    BY <1>1, <1>3, <2>2, <2>3, <2>5, <2>8 DEF JobInv, Active, Settled, Unwritten
  <2> QED
    BY <2>6, <2>7, <2>8 DEF RouterInv
<1> QED
  BY <1>2, <1>3

(* The image is there: the mutation goes to the companion.                 *)
LEMMA SourceReadyKeepsInv ==
    ASSUME RouterInv, NEW q \in Requests, SourceReady(q)
    PROVE  RouterInv'
<1>1. RouterTypeOK /\ (\A r \in Mutations : JobInv(r))
      /\ UNCHANGED <<online, effect, grants, audit, unaudited, decided>>
      /\ Active(q) /\ work[q].at = "source"
  BY DEF RouterInv, SourceReady, policy
<1>2. /\ work' \in [Requests -> Works \cup {None}]
      /\ work'[q].at = "companion" /\ work'[q] # None
      /\ \A r \in Requests \ {q} : work'[r] = work[r]
  BY <1>1, AskedWork DEF SourceReady
<1>3. \A r \in Mutations \ {q} : JobInv(r)'
  BY <1>1, <1>2, UntouchedKeepsJob, RouterAssumption DEF Untouched
<1>4. ASSUME q \in Mutations PROVE JobInv(q)'
  BY <1>1, <1>2, <1>4 DEF JobInv, Active, Settled, Unwritten
<1> QED
  BY <1>1, <1>2, <1>3, <1>4 DEF RouterInv, RouterTypeOK

(* What the companion was sent it may carry out, waited for or not.        *)
LEMMA CompanionRunsKeepsInv ==
    ASSUME RouterInv, NEW q \in Requests, CompanionRuns(q)
    PROVE  RouterInv'
<1>1. RouterTypeOK /\ (\A r \in Mutations : JobInv(r)) /\ q \in Mutations
      /\ UNCHANGED <<online, work, grants, audit, unaudited, decided>>
      /\ effect' = [effect EXCEPT ![q] = TRUE]
  BY DEF RouterInv, CompanionRuns, policy
<1>2. effect' \in [Mutations -> BOOLEAN] /\ effect'[q] = TRUE
      /\ \A r \in Mutations \ {q} : effect'[r] = effect[r]
  BY <1>1 DEF RouterTypeOK
<1>3. \A r \in Mutations \ {q} : JobInv(r)'
  BY <1>1, <1>2, UntouchedKeepsJob DEF Untouched
<1>4. JobInv(q)'
  BY <1>1, <1>2 DEF JobInv, Active, Settled, Unwritten, Written, MayYetRun, CompanionRuns, InFlight
<1> QED
  BY <1>1, <1>2, <1>3, <1>4 DEF RouterInv, RouterTypeOK

(* What the host does of its own accord.                                   *)
LEMMA RouterStepKeepsInv ==
    ASSUME RouterInv, NEW q \in Requests, RouterStep(q)
    PROVE  RouterInv'
<1>1. RouterTypeOK /\ \A r \in Mutations : JobInv(r)
  BY DEF RouterInv
<1>2. CASE Expire(q)
  BY <1>2, AbortKeepsInv DEF Expire, policy
<1>3. CASE SourceReady(q)
  BY <1>3, SourceReadyKeepsInv
<1>4. CASE SourceFails(q)
  <2>1. Active(q) /\ (q \in Mutations => ~effect[q])
    BY <1>1, <1>4 DEF SourceFails, JobInv
  <2>2. \E a \in {"CANCELLED", "FOUNDRY_ERROR"} : Settle(q, a)
    BY <1>4 DEF SourceFails
  <2> QED
    BY <2>1, <2>2, SettleKeepsInv DEF Answers
<1>5. CASE CompanionRuns(q)
  BY <1>5, CompanionRunsKeepsInv
<1>6. CASE CompanionReports(q)
  <2>1. UNCHANGED <<online, work, effect, grants, audit, unaudited, decided>>
    BY <1>6 DEF CompanionReports, policy
  <2> QED
    BY <1>1, <2>1, UntouchedKeepsJob DEF RouterInv, RouterTypeOK, Untouched
<1>7. CASE CompanionAnswers(q)
  <2>1. Active(q)
    BY <1>7 DEF CompanionAnswers, InFlight
  <2>2. \/ Settle(q, "FOUNDRY_ERROR")
        \/ Settle(q, "ok") /\ (q \in Mutations => effect[q])
    BY <1>7 DEF CompanionAnswers
  <2> QED
    BY <2>1, <2>2, SettleKeepsInv DEF Answers
<1>8. CASE CancelAcknowledged(q)
  <2>1. Active(q) /\ Settle(q, "CANCELLED") /\ (q \in Mutations => ~effect[q])
    BY <1>8 DEF CancelAcknowledged, InFlight
  <2> QED
    BY <2>1, SettleKeepsInv DEF Answers
<1>9. CASE CompanionGivesUp(q)
  <2>1. Active(q) /\ Settle(q, Verdict(q))
    BY <1>9 DEF CompanionGivesUp, InFlight
  <2>2. Verdict(q) \in {"INDETERMINATE_MUTATION", "CANCELLED"}
    BY DEF Verdict
  <2>3. q \in Mutations /\ effect[q] => Verdict(q) = "INDETERMINATE_MUTATION"
    BY <1>1, <2>1 DEF JobInv, Verdict
  <2> QED
    BY <2>1, <2>2, <2>3, SettleKeepsInv DEF Answers
<1> QED
  BY <1>2, <1>3, <1>4, <1>5, <1>6, <1>7, <1>8, <1>9 DEF RouterStep

(* A change of grants touches no decision that was made, and a companion   *)
(* that comes back is sent what waits for it, which is decided.            *)
LEMMA ChangeKeepsInv ==
    ASSUME RouterInv, SetCapabilityGrant \/ CompanionComesOrGoes
    PROVE  RouterInv'
<1>1. RouterTypeOK /\ (\A r \in Mutations : JobInv(r))
      /\ UNCHANGED <<effect, audit, unaudited, decided>>
  BY DEF RouterInv, SetCapabilityGrant, CompanionComesOrGoes, Change
<1>2. CASE SetCapabilityGrant
  <2>1. grants' \subseteq Capabilities /\ UNCHANGED <<online, work>>
    BY <1>1, <1>2 DEF SetCapabilityGrant, RouterTypeOK
  <2> QED
    BY <1>1, <2>1, UntouchedKeepsJob DEF RouterInv, RouterTypeOK, Untouched
<1>3. CASE CompanionComesOrGoes
  <2>1. online' \in BOOLEAN /\ UNCHANGED grants
    BY <1>1, <1>3 DEF CompanionComesOrGoes, RouterTypeOK
  <2>2. ASSUME NEW q \in Requests
        PROVE  /\ work'[q] \in Works \cup {None}
               /\ \/ work'[q] = work[q]
                  \/ /\ InFlight(q) /\ work'[q] # None
                     /\ work'[q].at = "companion" /\ work'[q].sent
    <3> DEFINE new == [work[q] EXCEPT !.sent = TRUE]
    <3>1. work'[q] = IF InFlight(q) /\ ~online /\ ~work[q].aborted THEN new ELSE work[q]
      BY <1>3 DEF CompanionComesOrGoes
    <3>2. ASSUME InFlight(q)
          PROVE  new \in Works /\ new.at = "companion" /\ new.sent = TRUE
      <4>1. work[q] \in [at : {"source", "companion"}, aborted : BOOLEAN, sent : BOOLEAN]
            /\ work[q].at = "companion"
        BY <1>1, <3>2 DEF RouterTypeOK, Works, Active, InFlight
      <4> QED
        BY <4>1 DEF Works
    <3>3. InFlight(q) => new # None
      BY <3>2, RouterAssumption
    <3> HIDE DEF new
    <3> QED
      BY <1>1, <3>1, <3>2, <3>3 DEF RouterTypeOK
  <2>3. work' \in [Requests -> Works \cup {None}]
    BY <1>3, <2>2 DEF CompanionComesOrGoes
  <2>4. ASSUME NEW q \in Mutations PROVE JobInv(q)'
    <3>1. q \in Requests
      BY RouterAssumption
    <3>2. CASE work'[q] = work[q]
      BY <1>1, <3>2, UntouchedKeepsJob DEF Untouched
    <3>3. CASE InFlight(q) /\ work'[q] # None /\ work'[q].at = "companion" /\ work'[q].sent
      BY <1>1, <3>3 DEF JobInv, Active, Settled, InFlight, Unwritten
    <3> QED
      BY <2>2, <3>1, <3>2, <3>3
  <2> QED
    BY <1>1, <2>1, <2>3, <2>4 DEF RouterInv, RouterTypeOK
<1> QED
  BY <1>2, <1>3

(***************************************************************************)
(* The pipe.                                                               *)
(***************************************************************************)

(* What the adapter may read: nothing but the challenge before the host    *)
(* has authenticated it, and of a mutation only the answer it was settled  *)
(* with.                                                                   *)
TrueFrames ==
    {f \in AdapterFrames :
        /\ f.type # "challenge" => server = "authenticated"
        /\ f.type = "response" /\ f.id \in Mutations =>
              Settled(f.id) /\ work[f.id].answer = f.answer}

Calls ==
    [at : {"idle", "called"}] \cup [at : {"pending"}, cancelled : BOOLEAN]
    \cup [at : {"told"}, answer : Answers \cup {"OFFLINE_BRIDGE"}]

(* The host knows nothing of a mutation, and is not going to.              *)
Unsent(q) == work[q] = None /\ toHost \in Seq(HostFrames \ {Frame("request", q)})

(* What the adapter knows of a mutation.                                   *)
CallInv(q) ==
    /\ call[q].at \in {"idle", "called"} => Unsent(q)
    /\ call[q].at = "told" =>
          \/ call[q].answer \in {"INDETERMINATE_MUTATION", "OFFLINE_BRIDGE"}
          \/ call[q].answer = "CANCELLED" /\ Unsent(q)
          \/ Settled(q) /\ work[q].answer = call[q].answer

WireInv == toHost \in Seq(HostFrames) /\ toAdapter \in Seq(TrueFrames)

ConnectionInv ==
    /\ seen \in [{"host", "adapter"} -> 0 .. MaxFrames]
    /\ server \in {"accepted", "initialized", "authenticated"}
    /\ client \in {"authenticated", "negotiated"} => socket /\ server = "authenticated"
    /\ server # "authenticated" => \A q \in Requests : work[q] = None
    /\ \A q \in Requests : Pending(q) => socket

CallsInv == call \in [Requests -> Calls] /\ \A q \in Mutations : CallInv(q)

IInv == RouterInv /\ WireInv /\ ConnectionInv /\ CallsInv

(* A settled mutation stays settled, and what the host has not read stays  *)
(* unread, with the exception of what it reads now.                        *)
Stands(R) ==
    /\ \A r \in Mutations : Settled(r) => work'[r] = work[r]
    /\ \A r \in Requests \ R : work[r] = None => work'[r] = None

LEMMA TrueFramesStay ==
    ASSUME Stands(Requests), server = "authenticated" => server' = "authenticated"
    PROVE  TrueFrames \subseteq TrueFrames'
  BY DEF TrueFrames, Stands, Settled

LEMMA SeqOfMore ==
    ASSUME NEW S, NEW T, S \subseteq T, NEW s \in Seq(S)
    PROVE  s \in Seq(T)
  OBVIOUS

LEMMA SendTrue ==
    ASSUME toAdapter \in Seq(TrueFrames), Stands(Requests), server = "authenticated",
           UNCHANGED server, NEW frames \in Seq(TrueFrames'), Send(frames)
    PROVE  toAdapter' \in Seq(TrueFrames')
<1>1. toAdapter \in Seq(TrueFrames')
  BY TrueFramesStay, SeqOfMore
<1> HIDE DEF TrueFrames
<1>2. toAdapter \o frames \in Seq(TrueFrames')
  BY <1>1
<1> QED
  BY <1>1, <1>2 DEF Send

LEMMA ReportTrue ==
    ASSUME NEW q \in Requests, server' = "authenticated", NEW when
    PROVE  Report(q, when) \in Seq(TrueFrames')
<1> DEFINE f == [type |-> "progress", id |-> q]
<1>1. f \in TrueFrames'
  BY DEF TrueFrames, AdapterFrames
<1>2. <<f>> \in Seq(TrueFrames') /\ <<>> \in Seq(TrueFrames')
  BY <1>1
<1> QED
  BY <1>2 DEF Report

LEMMA FinishTrue ==
    ASSUME RouterTypeOK, toAdapter \in Seq(TrueFrames), server = "authenticated",
           UNCHANGED server, NEW q \in Requests, q \in Mutations => ~Settled(q),
           NEW a \in Answers, Finish(q, a)
    PROVE  toAdapter' \in Seq(TrueFrames') /\ Stands({q})
<1>1. /\ work'[q].at = "answered" /\ work'[q].answer = a /\ work'[q] # None
      /\ \A r \in Requests \ {q} : work'[r] = work[r]
  BY FinishedWork
<1>2. Stands({q}) /\ Stands(Requests)
  BY <1>1, RouterAssumption DEF Stands
<1> DEFINE f == [type |-> "response", id |-> q, answer |-> a]
<1>3. f \in TrueFrames'
  BY <1>1 DEF TrueFrames, AdapterFrames, Settled
<1>4. <<f>> \in Seq(TrueFrames')
  BY <1>3
<1>5. Started(q) \in Seq(TrueFrames') /\ Report(q, a = "ok") \in Seq(TrueFrames')
  BY ReportTrue DEF Started
<1>6. Send(Started(q) \o Report(q, a = "ok") \o <<f>>)
  BY DEF Finish, Respond
<1> HIDE DEF f
<1>7. Started(q) \o Report(q, a = "ok") \o <<f>> \in Seq(TrueFrames')
  BY <1>4, <1>5
<1> QED
  BY <1>2, <1>6, <1>7, SendTrue

LEMMA ToCompanionTrue ==
    ASSUME RouterTypeOK, toAdapter \in Seq(TrueFrames), server = "authenticated",
           UNCHANGED server, NEW q \in Requests, q \in Mutations => ~Settled(q),
           ToCompanion(q)
    PROVE  toAdapter' \in Seq(TrueFrames') /\ Stands({q})
<1>1. \A r \in Requests \ {q} : work'[r] = work[r]
  BY AskedWork
<1>2. Stands({q}) /\ Stands(Requests)
  BY <1>1, RouterAssumption DEF Stands
<1>3. Started(q) \in Seq(TrueFrames') /\ Send(Started(q))
  BY ReportTrue DEF Started, ToCompanion
<1> QED
  BY <1>2, <1>3, SendTrue

LEMMA HandleTrue ==
    ASSUME RouterTypeOK, toAdapter \in Seq(TrueFrames), server = "authenticated",
           UNCHANGED server, NEW q \in Requests, Handle(q)
    PROVE  toAdapter' \in Seq(TrueFrames') /\ Stands({q})
<1>1. work[q] = None /\ ~Settled(q)
  BY DEF Handle, Settled
<1>2. CASE TooLate(q) \/ Offline(q) \/ PolicyFails(q) \/ Denied(q)
  <2>1. \E a \in Answers : Finish(q, a)
    BY <1>2 DEF TooLate, Offline, PolicyFails, Denied, Answers
  <2> QED
    BY <1>1, <2>1, FinishTrue
<1>3. CASE Read(q) \/ (Authorized(q) /\ q \notin Sourced)
  <2>1. ToCompanion(q)
    BY <1>3 DEF Read, Authorized
  <2> QED
    BY <1>1, <2>1, ToCompanionTrue
<1>4. CASE Authorized(q) /\ q \in Sourced
  <2>1. /\ work' = [work EXCEPT ![q] = [at |-> "source", aborted |-> FALSE, sent |-> FALSE]]
        /\ Send(Started(q))
    BY <1>4 DEF Authorized
  <2>2. \A r \in Requests \ {q} : work'[r] = work[r]
    BY <2>1 DEF RouterTypeOK
  <2>3. Stands({q}) /\ Stands(Requests)
    BY <1>1, <2>2, RouterAssumption DEF Stands
  <2>4. Started(q) \in Seq(TrueFrames')
    BY ReportTrue DEF Started
  <2> QED
    BY <2>1, <2>3, <2>4, SendTrue
<1> QED
  BY <1>2, <1>3, <1>4 DEF Handle

(* An active request goes on being there, and a settled one settled.       *)
LEMMA AbortStands ==
    ASSUME RouterTypeOK, NEW q \in Requests, Abort(q)
    PROVE  Stands({})
<1>1. CASE ~Active(q)
  BY <1>1 DEF Abort, Stands
<1>2. CASE Active(q)
  <2>1. \A r \in Requests \ {q} : work'[r] = work[r]
    BY <1>2 DEF Abort, RouterTypeOK
  <2> QED
    BY <1>2, <2>1, RouterAssumption DEF Stands, Active, Settled
<1> QED
  BY <1>1, <1>2

LEMMA RouterStepTrue ==
    ASSUME RouterTypeOK, toAdapter \in Seq(TrueFrames), server = "authenticated",
           UNCHANGED server, NEW q \in Requests, RouterStep(q)
    PROVE  toAdapter' \in Seq(TrueFrames') /\ Stands({})
<1>1. CASE Expire(q)
  <2>1. Stands({}) /\ UNCHANGED toAdapter
    BY <1>1, AbortStands DEF Expire
  <2>2. Stands(Requests)
    BY <2>1 DEF Stands
  <2> QED
    BY <2>1, <2>2, TrueFramesStay, SeqOfMore
<1>2. CASE CompanionRuns(q)
  <2>1. Stands({}) /\ Stands(Requests) /\ UNCHANGED toAdapter
    BY <1>2 DEF CompanionRuns, Stands
  <2> QED
    BY <2>1, TrueFramesStay, SeqOfMore
<1>3. CASE CompanionReports(q)
  <2>1. Stands({}) /\ Stands(Requests) /\ Send(Report(q, TRUE))
    BY <1>3 DEF CompanionReports, Stands
  <2>2. Report(q, TRUE) \in Seq(TrueFrames')
    BY ReportTrue
  <2> QED
    BY <2>1, <2>2, SendTrue
<1>4. CASE SourceReady(q)
  <2>1. Active(q) /\ ToCompanion(q)
    BY <1>4 DEF SourceReady
  <2>2. toAdapter' \in Seq(TrueFrames') /\ Stands({q})
    BY <2>1, ToCompanionTrue DEF Active, Settled
  <2> QED
    BY <2>1, <2>2 DEF Stands, Active
<1>5. CASE SourceFails(q) \/ CompanionAnswers(q) \/ CancelAcknowledged(q) \/ CompanionGivesUp(q)
  <2>1. Active(q) /\ \E a \in Answers : Settle(q, a)
    BY <1>5 DEF SourceFails, CompanionAnswers, CancelAcknowledged, CompanionGivesUp, InFlight,
                Answers, Verdict
  <2>2. \E a \in Answers : Finish(q, a)
    BY <2>1 DEF Settle, AnswerOf, Answers
  <2>3. toAdapter' \in Seq(TrueFrames') /\ Stands({q})
    BY <2>1, <2>2, FinishTrue DEF Active, Settled
  <2> QED
    BY <2>1, <2>3 DEF Stands, Active
<1> QED
  BY <1>1, <1>2, <1>3, <1>4, <1>5 DEF RouterStep

LEMMA ChangeStands ==
    ASSUME SetCapabilityGrant \/ CompanionComesOrGoes
    PROVE  Stands({}) /\ UNCHANGED toAdapter
<1>1. CASE SetCapabilityGrant
  BY <1>1 DEF SetCapabilityGrant, Change, Stands
<1>2. CASE CompanionComesOrGoes
  <2>1. work' = [q \in Requests |->
                  IF InFlight(q) /\ ~online /\ ~work[q].aborted
                  THEN [work[q] EXCEPT !.sent = TRUE] ELSE work[q]]
    BY <1>2 DEF CompanionComesOrGoes
  <2>2. \A q \in Requests : ~InFlight(q) => work'[q] = work[q]
    BY <2>1
  <2>3. \A q \in Requests : InFlight(q) => ~Settled(q) /\ work[q] # None
    BY DEF InFlight, Active, Settled
  <2> QED
    BY <1>2, <2>2, <2>3, RouterAssumption DEF Stands, CompanionComesOrGoes, Change
<1> QED
  BY <1>1, <1>2

(* What is known of a mutation remains so while it stands and nothing is   *)
(* sent to the host.                                                       *)
LEMMA UnsentStays ==
    ASSUME NEW q \in Mutations, work[q] = None => work'[q] = None,
           toHost \in Seq(HostFrames \ {Frame("request", q)}) =>
              toHost' \in Seq(HostFrames \ {Frame("request", q)})
    PROVE  Unsent(q) => Unsent(q)'
  BY DEF Unsent

LEMMA CallStays ==
    ASSUME NEW q \in Mutations, CallInv(q), call'[q] = call[q],
           Settled(q) => work'[q] = work[q],
           Unsent(q) => Unsent(q)'
    PROVE  CallInv(q)'
  BY DEF CallInv, Settled

(* A part of what was on its way.                                          *)
LEMMA TailOf ==
    ASSUME NEW S, NEW s \in Seq(S), s # <<>>
    PROVE  Tail(s) \in Seq(S) /\ Head(s) \in S
  OBVIOUS

LEMMA PartOf ==
    ASSUME NEW S, NEW s \in Seq(S), NEW k \in 0 .. Len(s)
    PROVE  SubSeq(s, 1, k) \in Seq(S)
<1>1. \A i \in 1 .. k : s[i] \in S
  OBVIOUS
<1> QED
  BY <1>1, SubSeqProperties

(* A step of the host that reads nothing.                                  *)
LEMMA HostStepKeepsIInv ==
    ASSUME IInv, RouterInv', Stands({}), toAdapter' \in Seq(TrueFrames'), UNCHANGED pipeVars
    PROVE  IInv'
<1>1. UNCHANGED <<socket, client, server, seen, toHost, call>>
  BY DEF pipeVars
<1>2. ConnectionInv'
  BY <1>1 DEF IInv, ConnectionInv, Stands, Pending
<1>3. ASSUME NEW q \in Mutations PROVE CallInv(q)'
  <2>1. Unsent(q) => Unsent(q)'
    BY <1>1, RouterAssumption DEF Unsent, Stands
  <2> QED
    BY <1>1, <2>1, CallStays DEF IInv, CallsInv, Stands
<1> QED
  BY <1>1, <1>2, <1>3 DEF IInv, WireInv, CallsInv

(* Steps of the pipe leave the router alone.                               *)
LEMMA RouterUntouched ==
    ASSUME RouterInv, UNCHANGED <<online, work, effect, policy>>
    PROVE  RouterInv' /\ Stands({})
<1>1. UNCHANGED <<online, work, effect, grants, audit, unaudited, decided>>
  BY DEF policy
<1>2. \A q \in Mutations : JobInv(q)'
  BY <1>1, UntouchedKeepsJob DEF RouterInv, Untouched
<1> QED
  BY <1>1, <1>2 DEF RouterInv, RouterTypeOK, Stands

LEMMA FrameTypes ==
    ASSUME NEW q \in Requests
    PROVE  /\ Frame("request", q) \in HostFrames /\ Frame("cancel", q) \in HostFrames
           /\ \A r \in Requests : Frame("request", q) = Frame("request", r) => q = r
           /\ \A r \in Requests : Frame("cancel", q) # Frame("request", r)
           /\ \A r \in Requests : Plain("proof") # Frame("request", r)
<1>1. \A r \in Requests : Frame("request", r).id = r /\ Frame("request", r).type = "request"
  BY DEF Frame
<1>2. Frame("cancel", q).type = "cancel" /\ Plain("proof").type = "proof"
  BY DEF Frame, Plain
<1> QED
  BY <1>1, <1>2 DEF HostFrames, Frame

(* The adapter calls, cancels, or gives up waiting.                        *)
LEMMA AdapterKeepsIInv ==
    ASSUME IInv, NEW q \in Requests,
           Call(q) \/ CallRefused(q) \/ Cancel(q) \/ NotAcknowledged(q)
    PROVE  IInv'
<1>1. UNCHANGED <<online, work, toAdapter, effect, policy, socket, client, server, seen>>
  BY DEF Call, CallRefused, Cancel, NotAcknowledged, hostVars
<1>2. RouterInv' /\ Stands({}) /\ Stands(Requests)
  BY <1>1, RouterUntouched DEF IInv, Stands
<1>3. toAdapter' \in Seq(TrueFrames')
  BY <1>1, <1>2, TrueFramesStay, SeqOfMore DEF IInv, WireInv
<1>4. /\ toHost' \in Seq(HostFrames)
      /\ \A r \in Mutations :
            /\ toHost \in Seq(HostFrames \ {Frame("request", r)})
            /\ toHost' # toHost /\ toHost' = Append(toHost, Frame("request", q)) => r # q
            => toHost' \in Seq(HostFrames \ {Frame("request", r)})
  <2>1. \/ toHost' = toHost
        \/ toHost' = Append(toHost, Frame("request", q))
        \/ toHost' = Append(toHost, Frame("cancel", q))
    BY DEF Call, CallRefused, Cancel, NotAcknowledged
  <2>2. toHost \in Seq(HostFrames)
    BY DEF IInv, WireInv
  <2>3. CASE toHost' = toHost
    BY <2>2, <2>3
  <2>4. CASE toHost' = Append(toHost, Frame("cancel", q))
    <3>1. \A r \in Mutations : Frame("cancel", q) \in HostFrames \ {Frame("request", r)}
      BY FrameTypes, RouterAssumption
    <3> HIDE DEF HostFrames
    <3> QED
      BY <2>2, <2>4, <3>1, FrameTypes
  <2>5. CASE toHost' = Append(toHost, Frame("request", q))
    <3>1. Frame("request", q) \in HostFrames
          /\ \A r \in Mutations \ {q} : Frame("request", q) \in HostFrames \ {Frame("request", r)}
      BY FrameTypes, RouterAssumption
    <3>2. toHost' # toHost
      <4>1. Len(toHost') = Len(toHost) + 1
        BY <2>2, <2>5
      <4> QED
        BY <2>2, <4>1
    <3> QED
      BY <2>2, <2>5, <3>1, <3>2
  <2> QED
    BY <2>1, <2>3, <2>4, <2>5
<1>5. /\ call' \in [Requests -> Calls] /\ \A r \in Requests \ {q} : call'[r] = call[r]
      /\ (Pending(q)' => socket)
      /\ q \in Mutations => CallInv(q)'
  <2>1. call \in [Requests -> Calls] /\ (q \in Mutations => CallInv(q))
    BY DEF IInv, CallsInv
  <2>2. CASE Call(q)
    <3> DEFINE new == [at |-> "pending", cancelled |-> FALSE]
    <3>1. new \in Calls /\ call' = [call EXCEPT ![q] = new]
      BY <2>2 DEF Call, Calls
    <3>2. call'[q] = new /\ \A r \in Requests \ {q} : call'[r] = call[r]
      BY <2>1, <3>1
    <3>3. socket
      BY <2>2 DEF Call, MayCall, IInv, ConnectionInv
    <3> QED
      BY <2>1, <3>1, <3>2, <3>3 DEF CallInv
  <2>3. CASE Cancel(q)
    <3> DEFINE new == [call[q] EXCEPT !.cancelled = TRUE]
    <3>1. call[q] \in [at : {"pending"}, cancelled : BOOLEAN]
      BY <2>1, <2>3 DEF Cancel, Pending, Calls
    <3>2. new \in Calls /\ new.at = "pending" /\ call' = [call EXCEPT ![q] = new]
      BY <2>3, <3>1 DEF Cancel, Calls
    <3>3. call'[q] = new /\ \A r \in Requests \ {q} : call'[r] = call[r]
      BY <2>1, <3>2
    <3>4. socket
      BY <2>3 DEF Cancel, IInv, ConnectionInv
    <3> HIDE DEF new
    <3> QED
      BY <2>1, <3>2, <3>3, <3>4 DEF CallInv
  <2>4. CASE CallRefused(q) \/ NotAcknowledged(q)
    <3>1. PICK a \in Answers \cup {"OFFLINE_BRIDGE"} :
             /\ Told(q, a)
             /\ q \in Mutations =>
                   a \in {"INDETERMINATE_MUTATION", "OFFLINE_BRIDGE"}
                   \/ (a = "CANCELLED" /\ call[q].at = "called")
      <4>1. CASE CallRefused(q)
        BY <4>1 DEF CallRefused, Answers
      <4>2. CASE NotAcknowledged(q)
        BY <4>2 DEF NotAcknowledged, Unacknowledged, Answers
      <4> QED
        BY <2>4, <4>1, <4>2
    <3> DEFINE new == [at |-> "told", answer |-> a]
    <3>2. new \in Calls /\ call' = [call EXCEPT ![q] = new]
      BY <3>1 DEF Told, Calls
    <3>3. call'[q] = new /\ \A r \in Requests \ {q} : call'[r] = call[r]
      BY <2>1, <3>2
    <3>4. UNCHANGED <<work, toHost>>
      BY <1>1, <2>4 DEF CallRefused, NotAcknowledged
    <3>5. ASSUME q \in Mutations PROVE CallInv(q)'
      BY <2>1, <3>1, <3>3, <3>4, <3>5 DEF CallInv, Unsent
    <3> QED
      BY <2>1, <3>2, <3>3, <3>5 DEF Pending
  <2> QED
    BY <2>2, <2>3, <2>4
<1>6. ASSUME NEW r \in Mutations PROVE CallInv(r)'
  <2>1. CASE r = q
    BY <1>5, <2>1
  <2>2. CASE r # q
    <3>1. call'[r] = call[r]
      BY <1>5, <2>2, RouterAssumption
    <3>2. Unsent(r) => Unsent(r)'
      BY <1>1, <1>4, <2>2 DEF Unsent
    <3> QED
      BY <1>1, <3>1, <3>2, CallStays DEF IInv, CallsInv
  <2> QED
    BY <2>1, <2>2
<1>7. ConnectionInv'
  BY <1>1, <1>5 DEF IInv, ConnectionInv, Pending
<1> QED
  BY <1>2, <1>3, <1>4, <1>5, <1>6, <1>7 DEF IInv, WireInv, CallsInv

(* The connection closes: what was not answered is known to be unknown.    *)
LEMMA ClosedKeepsIInv ==
    ASSUME IInv, UNCHANGED <<online, work, effect, policy, server, seen>>,
           NEW kept \in 0 .. Len(toHost), Closed(kept)
    PROVE  IInv'
<1>1. RouterInv' /\ Stands({})
  BY RouterUntouched DEF IInv
<1>2. toAdapter' = <<>> /\ toHost' = SubSeq(toHost, 1, kept) /\ socket' = FALSE
      /\ client' = "closed" /\ call' = [q \in Requests |-> Rejected(q)]
  BY DEF Closed
<1>3. WireInv'
  BY <1>2, PartOf DEF IInv, WireInv
<1>4. ASSUME NEW q \in Requests
      PROVE  /\ Rejected(q) \in Calls /\ Rejected(q).at # "pending"
             /\ \/ Rejected(q) = call[q]
                \/ /\ Rejected(q).at = "told"
                   /\ q \in Mutations => Rejected(q).answer \in {"INDETERMINATE_MUTATION", "OFFLINE_BRIDGE"}
  BY DEF IInv, CallsInv, Rejected, Pending, Unacknowledged, Calls, Answers
<1>5. ConnectionInv'
  BY <1>2, <1>4 DEF IInv, ConnectionInv, Pending
<1>6. ASSUME NEW q \in Mutations PROVE CallInv(q)'
  <2>1. call'[q] = Rejected(q) /\ q \in Requests
    BY <1>2, RouterAssumption
  <2>2. Unsent(q) => Unsent(q)'
    BY <1>2, PartOf DEF Unsent
  <2>3. CASE Rejected(q) = call[q]
    BY <2>1, <2>2, <2>3, CallStays DEF IInv, CallsInv
  <2>4. CASE /\ Rejected(q).at = "told"
             /\ Rejected(q).answer \in {"INDETERMINATE_MUTATION", "OFFLINE_BRIDGE"}
    BY <2>1, <2>4 DEF CallInv
  <2> QED
    BY <1>4, <2>1, <2>3, <2>4
<1> QED
  BY <1>1, <1>2, <1>3, <1>4, <1>5, <1>6 DEF IInv, CallsInv

(* The host reads a frame.                                                 *)
LEMMA HostKeepsIInv ==
    ASSUME IInv, HostInit \/ HostProof \/ HostRequest \/ HostCancel
    PROVE  IInv'
<1> DEFINE q == Head(toHost).id
<1>1. /\ toHost \in Seq(HostFrames) /\ toHost # <<>> /\ toHost' = Tail(toHost)
      /\ UNCHANGED <<socket, client, call>>
  BY DEF IInv, WireInv, HostInit, HostProof, HostRequest, HostCancel, HostReads
<1>2. toHost' \in Seq(HostFrames) /\ Head(toHost) \in HostFrames
  BY <1>1, TailOf
<1>3. seen' \in [{"host", "adapter"} -> 0 .. MaxFrames]
  <2>1. UNCHANGED seen \/ Verified("host")
    BY DEF HostInit, HostProof, HostRequest, HostCancel
  <2> QED
    BY <2>1, BridgeAssumption DEF Verified, IInv, ConnectionInv
<1>4. /\ RouterInv' /\ toAdapter' \in Seq(TrueFrames') /\ Stands({q})
      /\ server' \in {"accepted", "initialized", "authenticated"}
      /\ server = "authenticated" => server' = "authenticated"
      /\ server' # "authenticated" => \A r \in Requests : work'[r] = None
      /\ \A r \in Mutations : work[r] = None /\ work'[r] # None => Head(toHost) = Frame("request", r)
  <2>1. CASE HostInit \/ HostProof
    <3>1. UNCHANGED <<online, work, effect, policy>>
      BY <2>1 DEF HostInit, HostProof, hostVars
    <3>2. RouterInv' /\ Stands({}) /\ Stands(Requests) /\ Stands({q})
      BY <3>1, RouterUntouched DEF IInv, Stands
    <3>3. server' \in {"initialized", "authenticated"} /\ server # "authenticated"
      BY <2>1 DEF HostInit, HostProof
    <3>4. toAdapter \in Seq(TrueFrames')
      BY <3>2, <3>3, TrueFramesStay, SeqOfMore DEF IInv, WireInv
    <3>5. server' = "authenticated" => Plain("ready") \in TrueFrames'
      BY DEF Plain, TrueFrames, AdapterFrames
    <3>6. \/ toAdapter' = toAdapter
          \/ server' = "authenticated" /\ toAdapter' = Append(toAdapter, Plain("ready"))
      BY <2>1 DEF HostInit, HostProof, hostVars
    <3>7. toAdapter' \in Seq(TrueFrames')
      <4> HIDE DEF TrueFrames
      <4> QED
        BY <3>4, <3>5, <3>6
    <3>8. \A r \in Requests : work'[r] = None
      BY <3>1, <3>3 DEF IInv, ConnectionInv
    <3> QED
      BY <3>2, <3>3, <3>7, <3>8, RouterAssumption
  <2>2. CASE HostRequest
    <3>1. server = "authenticated" /\ UNCHANGED server /\ Head(toHost).type = "request"
      BY <2>2 DEF HostRequest
    <3>2. q \in Requests /\ Head(toHost) = Frame("request", q)
      BY <1>2, <3>1 DEF HostFrames, Frame
    <3>3. RouterTypeOK /\ toAdapter \in Seq(TrueFrames)
      BY DEF IInv, WireInv, RouterInv
    <3>4. CASE q = Hello
      <4>1. Finish(q, "ok") /\ UNCHANGED <<online, effect, policy>> /\ "ok" \in Answers
        BY <2>2, <3>4 DEF HostRequest, Answers
      <4>2. q \notin Mutations
        BY <3>4, BridgeAssumption
      <4>3. toAdapter' \in Seq(TrueFrames') /\ Stands({q})
        BY <3>1, <3>2, <3>3, <4>1, <4>2, FinishTrue
      <4>4. /\ work' \in [Requests -> Works \cup {None}]
            /\ \A r \in Requests \ {q} : work'[r] = work[r]
        BY <3>2, <3>3, <4>1, FinishedWork
      <4>5. \A r \in Mutations : Untouched(r)
        BY <4>1, <4>2, <4>4, RouterAssumption DEF Untouched, policy
      <4>6. RouterInv'
        BY <4>1, <4>4, <4>5, UntouchedKeepsJob DEF IInv, RouterInv, RouterTypeOK, policy
      <4> QED
        BY <3>1, <4>2, <4>3, <4>4, <4>6, RouterAssumption
    <3>5. CASE Handle(q)
      <4>1. toAdapter' \in Seq(TrueFrames') /\ Stands({q})
        BY <3>1, <3>2, <3>3, <3>5, HandleTrue
      <4>2. RouterInv'
        BY <3>2, <3>5, HandleKeepsInv DEF IInv
      <4>3. \A r \in Mutations : work[r] = None /\ work'[r] # None => r = q
        BY <4>1, RouterAssumption DEF Stands
      <4> HIDE DEF q
      <4> QED
        BY <3>1, <3>2, <4>1, <4>2, <4>3
    <3> QED
      BY <2>2, <3>4, <3>5 DEF HostRequest
  <2>3. CASE HostCancel
    <3>1. server = "authenticated" /\ UNCHANGED <<server, toAdapter>> /\ Head(toHost).type = "cancel"
          /\ Abort(q) /\ UNCHANGED <<online, effect, policy>>
      BY <2>3 DEF HostCancel
    <3>2. q \in Requests
      BY <1>2, <3>1 DEF HostFrames
    <3>3. RouterInv' /\ Stands({}) /\ Stands(Requests) /\ Stands({q})
      BY <3>1, <3>2, AbortKeepsInv, AbortStands DEF IInv, RouterInv, Stands
    <3>4. toAdapter' \in Seq(TrueFrames')
      BY <3>1, <3>3, TrueFramesStay, SeqOfMore DEF IInv, WireInv
    <3>5. \A r \in Mutations : work[r] = None => work'[r] = None
      BY <3>3, RouterAssumption DEF Stands
    <3> QED
      BY <3>1, <3>3, <3>4, <3>5
  <2> QED
    BY <2>1, <2>2, <2>3
<1>5. ConnectionInv'
  BY <1>1, <1>3, <1>4 DEF IInv, ConnectionInv, Pending
<1>6. ASSUME NEW r \in Mutations PROVE CallInv(r)'
  <2>1. Unsent(r) => Unsent(r)'
    <3>1. SUFFICES ASSUME Unsent(r) PROVE Unsent(r)'
      OBVIOUS
    <3>2. toHost' \in Seq(HostFrames \ {Frame("request", r)})
          /\ Head(toHost) \in HostFrames \ {Frame("request", r)}
      BY <1>1, <3>1, TailOf DEF Unsent
    <3> QED
      BY <1>4, <3>1, <3>2 DEF Unsent
  <2>2. Settled(r) => work'[r] = work[r]
    BY <1>4 DEF Stands
  <2> QED
    BY <1>1, <2>1, <2>2, CallStays DEF IInv, CallsInv
<1> QED
  BY <1>1, <1>2, <1>4, <1>5, <1>6 DEF IInv, WireInv, CallsInv

(* The adapter reads a frame, and believes it.                             *)
LEMMA AdapterReadKeepsIInv ==
    ASSUME IInv, AdapterChallenge \/ AdapterReady \/ AdapterProgress \/ AdapterResponse
    PROVE  IInv'
<1>1. /\ toAdapter # <<>> /\ toAdapter' = Tail(toAdapter) /\ socket
      /\ UNCHANGED <<online, work, effect, policy, socket, server>>
  BY DEF AdapterChallenge, AdapterReady, AdapterProgress, AdapterResponse, AdapterReads
<1>2. RouterInv' /\ Stands({}) /\ Stands(Requests)
  BY <1>1, RouterUntouched DEF IInv, Stands
<1>3. toAdapter' \in Seq(TrueFrames) /\ Head(toAdapter) \in TrueFrames
  BY <1>1, TailOf DEF IInv, WireInv
<1>4. toAdapter' \in Seq(TrueFrames')
  BY <1>1, <1>2, <1>3, TrueFramesStay, SeqOfMore
<1>5. seen' \in [{"host", "adapter"} -> 0 .. MaxFrames]
  <2>1. UNCHANGED seen \/ Verified("adapter")
    BY DEF AdapterChallenge, AdapterReady, AdapterProgress, AdapterResponse
  <2> QED
    BY <2>1, BridgeAssumption DEF Verified, IInv, ConnectionInv
<1>6. client' \in {"authenticated", "negotiated"} => server = "authenticated"
  BY <1>3 DEF AdapterChallenge, AdapterReady, AdapterProgress, AdapterResponse, TrueFrames,
              IInv, ConnectionInv
<1>7. toHost' \in Seq(HostFrames) /\ \A r \in Mutations : Unsent(r) => Unsent(r)'
  <2>1. toHost' = toHost \/ toHost' = Append(toHost, Plain("proof"))
    BY DEF AdapterChallenge, AdapterReady, AdapterProgress, AdapterResponse
  <2>2. toHost \in Seq(HostFrames)
    BY DEF IInv, WireInv
  <2>3. \A r \in Mutations : Plain("proof") \in HostFrames \ {Frame("request", r)}
    BY FrameTypes, RouterAssumption DEF HostFrames, Plain
  <2>4. Plain("proof") \in HostFrames
    BY DEF HostFrames, Plain
  <2> HIDE DEF HostFrames
  <2> QED
    BY <1>1, <2>1, <2>2, <2>3, <2>4 DEF Unsent
<1>8. \/ UNCHANGED call
      \/ \E q \in Requests, a \in Answers :
            /\ Pending(q) /\ Told(q, a)
            /\ q \in Mutations => Settled(q) /\ work[q].answer = a
  <2>1. CASE AdapterChallenge \/ AdapterReady \/ AdapterProgress
    BY <2>1 DEF AdapterChallenge, AdapterReady, AdapterProgress
  <2>2. CASE AdapterResponse
    <3>1. Head(toAdapter) \in [type : {"response"}, id : Requests, answer : Answers]
      BY <1>3, <2>2 DEF AdapterResponse, TrueFrames, AdapterFrames
    <3> DEFINE q == Head(toAdapter).id
    <3>2. q \in Mutations => Settled(q) /\ work[q].answer = Head(toAdapter).answer
      BY <1>3, <2>2 DEF AdapterResponse, TrueFrames
    <3>3. (Pending(q) /\ Told(q, Head(toAdapter).answer)) \/ UNCHANGED call
      BY <2>2 DEF AdapterResponse
    <3> QED
      BY <3>1, <3>2, <3>3
  <2> QED
    BY <2>1, <2>2
<1>9. call' \in [Requests -> Calls] /\ (\A r \in Requests : Pending(r)' => Pending(r))
      /\ \A r \in Mutations : CallInv(r)'
  <2>1. call \in [Requests -> Calls] /\ \A r \in Mutations : CallInv(r)
    BY DEF IInv, CallsInv
  <2>2. ASSUME NEW r \in Mutations, call'[r] = call[r] PROVE CallInv(r)'
    BY <1>1, <1>7, <2>1, <2>2, CallStays
  <2>3. CASE UNCHANGED call
    BY <2>1, <2>2, <2>3 DEF Pending
  <2>4. CASE ~UNCHANGED call
    <3>1. PICK q \in Requests, a \in Answers :
             Told(q, a) /\ (q \in Mutations => Settled(q) /\ work[q].answer = a)
      BY <1>8, <2>4
    <3> DEFINE new == [at |-> "told", answer |-> a]
    <3>2. new \in Calls /\ call' = [call EXCEPT ![q] = new]
      BY <3>1 DEF Told, Calls
    <3>3. call'[q] = new /\ \A r \in Requests \ {q} : call'[r] = call[r]
      BY <2>1, <3>2
    <3>4. new.at = "told" /\ new.answer = a
      OBVIOUS
    <3> HIDE DEF new
    <3>5. ASSUME q \in Mutations PROVE CallInv(q)'
      BY <1>1, <3>1, <3>3, <3>4, <3>5 DEF CallInv, Settled
    <3>6. call' \in [Requests -> Calls]
      BY <2>1, <3>2
    <3>7. \A r \in Requests : Pending(r)' => Pending(r)
      BY <3>3, <3>4 DEF Pending
    <3>8. \A r \in Mutations : CallInv(r)'
      BY <2>2, <3>3, <3>5, RouterAssumption
    <3> QED
      BY <3>6, <3>7, <3>8
  <2> QED
    BY <2>3, <2>4
<1>10. ConnectionInv'
  BY <1>1, <1>5, <1>6, <1>9 DEF IInv, ConnectionInv
<1> QED
  BY <1>2, <1>4, <1>7, <1>9, <1>10 DEF IInv, WireInv, CallsInv

LEMMA InitIInv == Init => IInv
<1> SUFFICES ASSUME Init PROVE IInv
  OBVIOUS
<1>1. RouterInv
  <2>1. \A q \in Mutations : work[q] = None /\ Unwritten(q) /\ ~effect[q]
    BY RouterAssumption DEF Init, RouterInit, Unwritten
  <2>2. RouterTypeOK
    BY DEF Init, RouterInit, RouterTypeOK
  <2> QED
    BY <2>1, <2>2 DEF RouterInv, JobInv, Active, Settled
<1>2. WireInv
  <2>1. Plain("init") \in HostFrames /\ Plain("challenge") \in TrueFrames
    BY DEF Plain, HostFrames, TrueFrames, AdapterFrames
  <2> HIDE DEF HostFrames, TrueFrames
  <2> QED
    BY <2>1 DEF Init, WireInv
<1>3. PICK w \in Workloads :
         call = [q \in Requests |-> [at |-> IF q \in w \cup {Hello} THEN "called" ELSE "idle"]]
  BY DEF Init
<1>4. \A q \in Requests : call[q] \in [at : {"idle", "called"}]
  BY <1>3
<1>5. ConnectionInv
  BY <1>4, BridgeAssumption DEF Init, RouterInit, ConnectionInv, Pending
<1>6. ASSUME NEW q \in Mutations PROVE CallInv(q)
  <2>1. Plain("init") \in HostFrames \ {Frame("request", q)}
    BY DEF Plain, Frame, HostFrames
  <2>2. Unsent(q)
    <3> HIDE DEF HostFrames
    <3> QED
      BY <2>1, RouterAssumption DEF Init, RouterInit, Unsent
  <2> QED
    BY <1>4, <2>2, RouterAssumption DEF CallInv
<1> QED
  BY <1>1, <1>2, <1>3, <1>4, <1>5, <1>6 DEF IInv, CallsInv, Calls

LEMMA NextKeepsIInv == IInv /\ [Next]_vars => IInv'
<1> SUFFICES ASSUME IInv, [Next]_vars PROVE IInv'
  OBVIOUS
<1>1. CASE UNCHANGED vars
  <2>1. UNCHANGED <<online, work, toAdapter, effect, policy, socket, client, server, seen, toHost, call, drops>>
    BY <1>1 DEF vars, hostVars, pipeVars
  <2>2. RouterInv' /\ Stands({}) /\ Stands(Requests)
    BY <2>1, RouterUntouched DEF IInv, Stands
  <2> QED
    BY <2>1, <2>2, TrueFramesStay, SeqOfMore, HostStepKeepsIInv DEF IInv, WireInv, pipeVars
<1>2. ASSUME NEW q \in Requests, Call(q) \/ CallRefused(q) \/ Cancel(q) \/ NotAcknowledged(q)
      PROVE  IInv'
  BY <1>2, AdapterKeepsIInv
<1>3. CASE HostInit \/ HostProof \/ HostRequest \/ HostCancel
  BY <1>3, HostKeepsIInv
<1>4. CASE AdapterChallenge \/ AdapterReady \/ AdapterProgress \/ AdapterResponse
  BY <1>4, AdapterReadKeepsIInv
<1>5. CASE HostBudgetOver \/ AdapterBudgetOver \/ ConnectTimesOut \/ Drop
  <2>1. Len(toHost) \in Nat
    BY DEF IInv, WireInv
  <2>2. PICK kept \in 0 .. Len(toHost) : Closed(kept)
    BY <1>5, <2>1 DEF HostBudgetOver, AdapterBudgetOver, ConnectTimesOut, Drop, Close
  <2>3. UNCHANGED <<online, work, effect, policy, server, seen>>
    BY <1>5 DEF HostBudgetOver, AdapterBudgetOver, ConnectTimesOut, Drop
  <2> QED
    BY <2>2, <2>3, ClosedKeepsIInv
<1>6. ASSUME NEW q \in Requests, RouterStep(q), UNCHANGED pipeVars
      PROVE  IInv'
  <2>1. work[q] # None
    BY <1>6 DEF RouterStep, Expire, SourceReady, SourceFails, CompanionRuns, CompanionReports,
                CompanionAnswers, CancelAcknowledged, CompanionGivesUp, InFlight, Active
  <2>2. server = "authenticated" /\ UNCHANGED server
    BY <1>6, <2>1 DEF IInv, ConnectionInv, pipeVars
  <2>3. RouterInv'
    BY <1>6, RouterStepKeepsInv DEF IInv
  <2>4. toAdapter' \in Seq(TrueFrames') /\ Stands({})
    BY <1>6, <2>2, RouterStepTrue DEF IInv, RouterInv, WireInv
  <2> QED
    BY <1>6, <2>3, <2>4, HostStepKeepsIInv
<1>7. CASE (SetCapabilityGrant \/ CompanionComesOrGoes) /\ UNCHANGED pipeVars
  <2>1. RouterInv' /\ Stands({}) /\ Stands(Requests) /\ UNCHANGED toAdapter
    BY <1>7, ChangeKeepsInv, ChangeStands DEF IInv, Stands
  <2>2. toAdapter' \in Seq(TrueFrames')
    BY <1>7, <2>1, TrueFramesStay, SeqOfMore DEF IInv, WireInv, pipeVars
  <2> QED
    BY <1>7, <2>1, <2>2, HostStepKeepsIInv
<1> QED
  BY <1>1, <1>2, <1>3, <1>4, <1>5, <1>6, <1>7 DEF Next

LEMMA SpecIInv == Spec => []IInv
  BY InitIInv, NextKeepsIInv, PTL DEF Spec

(***************************************************************************)
(* What follows.                                                           *)
(***************************************************************************)

(* The two ends of the pipe agree about their connection (pipe-client.ts,  *)
(* pipe-server.ts), and nothing is fetched, generated or carried out for a *)
(* mutation unless all it needs was granted at one moment (policy.ts,      *)
(* router.ts).                                                             *)
THEOREM ConnectionHolds == Spec => []BridgeInv
<1>1. ASSUME IInv PROVE TypeOK
  <2>1. \A q \in Requests : call[q].at \in {"idle", "called", "pending", "told"}
    BY <1>1 DEF IInv, CallsInv, Calls
  <2> QED
    BY <1>1, <2>1 DEF IInv, ConnectionInv, TypeOK
<1>2. ASSUME IInv PROVE NothingUnauthorized
  BY <1>2 DEF IInv, RouterInv, JobInv, NothingUnauthorized, Settled, Active
<1> QED
  BY <1>1, <1>2, SpecIInv, PTL DEF BridgeInv

(* The audit log (policy.ts, router.ts): one line or one report for a      *)
(* mutation, never "denied" of what was carried out, "success" of what was *)
(* not, or anything of what is not decided yet.                            *)
THEOREM AuditHolds == Spec => []AuditTellsTheTruth
<1>1. ASSUME IInv, NEW q \in Mutations
      PROVE  /\ Len(audit[q]) + (IF q \in unaudited THEN 1 ELSE 0) <= 1
             /\ effect[q] /\ Settled(q) => q \in unaudited \/ audit[q] \in {<<"success">>, <<"error">>}
             /\ audit[q] = <<"success">> => effect[q]
  <2>1. JobInv(q)
    BY <1>1 DEF IInv, RouterInv
  <2>2. Unwritten(q) \/ Written(q, Outcomes)
    BY <2>1 DEF JobInv, Active, Settled
  <2>3. Len(audit[q]) + (IF q \in unaudited THEN 1 ELSE 0) <= 1
    <3>1. \A o \in Outcomes : Len(<<o>>) = 1
      OBVIOUS
    <3>2. Len(<<>>) = 0
      OBVIOUS
    <3>3. CASE Unwritten(q)
      BY <3>2, <3>3 DEF Unwritten
    <3>4. CASE Written(q, Outcomes) /\ q \in unaudited
      BY <3>2, <3>4 DEF Written
    <3>5. CASE Written(q, Outcomes) /\ q \notin unaudited
      <4>1. Len(audit[q]) = 1
        BY <3>1, <3>5 DEF Written
      <4> QED
        BY <3>5, <4>1
    <3> QED
      BY <2>2, <3>3, <3>4, <3>5
  <2>4. effect[q] /\ Settled(q) => q \in unaudited \/ audit[q] \in {<<"success">>, <<"error">>}
    BY <2>1 DEF JobInv, Written
  <2>5. audit[q] = <<"success">> => effect[q]
    BY <2>1, LinesDiffer DEF JobInv, Active, Settled, Unwritten
  <2> QED
    BY <2>3, <2>4, <2>5
<1>2. IInv => AuditTellsTheTruth
  BY <1>1 DEF AuditTellsTheTruth
<1> QED
  BY <1>2, SpecIInv, PTL

LEMMA TrueAnswersOf == IInv => AnswersAreTrue
<1>1. ASSUME IInv, NEW q \in Mutations, call[q].at = "told"
      PROVE  /\ call[q].answer = "ok" => effect[q]
             /\ effect[q] => call[q].answer \in {"ok", "INDETERMINATE_MUTATION", "FOUNDRY_ERROR",
                                                 "OFFLINE_BRIDGE"}
  <2>1. JobInv(q) /\ CallInv(q)
    BY <1>1 DEF IInv, RouterInv, CallsInv
  <2> QED
    BY <1>1, <2>1 DEF JobInv, CallInv, Unsent, Settled
<1> QED
  BY <1>1 DEF AnswersAreTrue

(* What the MCP client is told of a mutation (bridge-connection.ts,        *)
(* bridge-tool.ts, router.ts): "ok" was carried out, and a refusal or a    *)
(* cancellation was not and will not be, for every moment the pipe may     *)
(* break and every order of answers and cancellations.                     *)
THEOREM AnswersHold == Spec => []AnswersAreTrue
  BY TrueAnswersOf, SpecIInv, PTL

(***************************************************************************)
(* The abstract mutation.                                                  *)
(***************************************************************************)

(* What a step does to one mutation m: nothing that its caller sees, or it *)
(* is asked for, or carried out, or its caller is told an answer.          *)
Sees(m)  == effect'[m] = effect[m] /\ (call'[m] = call[m] \/ (Pending(m) /\ call'[m].at = "pending"))
Asks(m)  == effect'[m] = effect[m] /\ call[m].at = "called" /\ call'[m].at = "pending"
Runs(m)  ==
    /\ ~effect[m] /\ effect'[m] /\ call'[m] = call[m]
    /\ \/ Pending(m)
       \/ call[m].at = "told" /\ call[m].answer \in {"INDETERMINATE_MUTATION", "OFFLINE_BRIDGE"}
Tells(m) ==
    /\ effect'[m] = effect[m] /\ call[m].at # "told"
    /\ call'[m].at = "told" /\ call'[m].answer \in Answers \cup {"OFFLINE_BRIDGE"}

(* As the answers are true after the step, each of them is a step of the   *)
(* abstract mutation, or a stutter of it.                                  *)
LEMMA MutationStep ==
    ASSUME NEW m \in Mutations, AnswersAreTrue',
           Sees(m) \/ Asks(m) \/ Runs(m) \/ Tells(m)
    PROVE  Service(m)!Step
<1>1. CASE Sees(m)
  BY <1>1 DEF Sees, Pending, Service!Step
<1>2. CASE Asks(m)
  BY <1>2 DEF Asks, Pending, Service!Step, Service!Next, Service!Ask
<1>3. CASE Runs(m)
  <2>1. Service(m)!Run
    BY <1>3 DEF Runs, Pending, Service!Run, Service!Told
  <2> QED
    BY <2>1 DEF Service!Step, Service!Next
<1>4. CASE Tells(m)
  <2>1. /\ call'[m].answer = "ok" => effect[m]
        /\ effect[m] =>
              call'[m].answer \in {"ok", "INDETERMINATE_MUTATION", "FOUNDRY_ERROR", "OFFLINE_BRIDGE"}
    BY <1>4 DEF Tells, AnswersAreTrue
  <2>2. /\ (IF effect[m] THEN 1 ELSE 0) > 0 <=> effect[m]
        /\ (IF effect'[m] THEN 1 ELSE 0) = (IF effect[m] THEN 1 ELSE 0)
    BY <1>4 DEF Tells
  <2>3. /\ (IF call[m].at = "told" THEN {call[m].answer} ELSE {}) = {}
        /\ (IF call'[m].at = "told" THEN {call'[m].answer} ELSE {}) = {call'[m].answer}
        /\ call'[m].at # "pending"
    BY <1>4 DEF Tells
  <2>4. Service(m)!Tell
    BY <1>4, <2>1, <2>2, <2>3 DEF Tells, Pending, Service!Tell, Service!Told
  <2> QED
    BY <2>4 DEF Service!Step, Service!Next
<1> QED
  BY <1>1, <1>2, <1>3, <1>4

(* The adapter calls, cancels and gives up.                                *)
LEMMA AdapterCalls ==
    ASSUME IInv, NEW m \in Mutations, NEW q \in Requests,
           Call(q) \/ CallRefused(q) \/ Cancel(q) \/ NotAcknowledged(q)
    PROVE  Sees(m) \/ Asks(m) \/ Tells(m)
<1>1. m \in Requests /\ call \in [Requests -> Calls] /\ UNCHANGED effect
  BY RouterAssumption DEF IInv, CallsInv, Call, CallRefused, Cancel, NotAcknowledged, hostVars
<1>2. ASSUME NEW new, call' = [call EXCEPT ![q] = new],
             \/ call[q].at = "called" /\ new.at = "pending"
             \/ Pending(q) /\ new.at = "pending"
             \/ /\ call[q].at # "told" /\ new.at = "told"
                /\ new.answer \in Answers \cup {"OFFLINE_BRIDGE"}
      PROVE  Sees(m) \/ Asks(m) \/ Tells(m)
  <2>1. call'[q] = new /\ \A r \in Requests \ {q} : call'[r] = call[r]
    BY <1>1, <1>2
  <2> QED
    BY <1>1, <1>2, <2>1 DEF Sees, Asks, Tells
<1>3. CASE Call(q)
  <2> DEFINE new == [at |-> "pending", cancelled |-> FALSE]
  <2>1. call' = [call EXCEPT ![q] = new] /\ call[q].at = "called" /\ new.at = "pending"
    BY <1>3 DEF Call
  <2> HIDE DEF new
  <2> QED
    BY <1>2, <2>1
<1>4. ASSUME NEW a \in Answers \cup {"OFFLINE_BRIDGE"}, Told(q, a), call[q].at # "told"
      PROVE  Sees(m) \/ Asks(m) \/ Tells(m)
  <2> DEFINE new == [at |-> "told", answer |-> a]
  <2>1. call' = [call EXCEPT ![q] = new] /\ new.at = "told" /\ new.answer = a
    BY <1>4 DEF Told
  <2> HIDE DEF new
  <2> QED
    BY <1>2, <1>4, <2>1
<1>5. CASE CallRefused(q)
  BY <1>4, <1>5 DEF CallRefused, Answers
<1>6. CASE Cancel(q)
  <2> DEFINE new == [call[q] EXCEPT !.cancelled = TRUE]
  <2>1. call[q] \in [at : {"pending"}, cancelled : BOOLEAN]
    BY <1>1, <1>6 DEF Cancel, Pending, Calls
  <2>2. call' = [call EXCEPT ![q] = new] /\ new.at = "pending" /\ Pending(q)
    BY <1>6, <2>1 DEF Cancel
  <2> HIDE DEF new
  <2> QED
    BY <1>2, <2>2
<1>7. CASE NotAcknowledged(q)
  <2>1. Pending(q) /\ Told(q, Unacknowledged(q)) /\ Unacknowledged(q) \in Answers
    BY <1>7 DEF NotAcknowledged, GraceOver, Unacknowledged, Answers
  <2> QED
    BY <1>4, <2>1 DEF Pending
<1> QED
  BY <1>3, <1>5, <1>6, <1>7

(* The connection closes, and the calls that wait are told so.             *)
LEMMA ClosedCalls ==
    ASSUME IInv, NEW m \in Mutations, UNCHANGED effect, NEW kept, Closed(kept)
    PROVE  Sees(m) \/ Tells(m)
<1>1. m \in Requests /\ call'[m] = Rejected(m)
  BY RouterAssumption DEF Closed
<1>2. CASE ~Pending(m)
  BY <1>1, <1>2 DEF Rejected, Sees
<1>3. CASE Pending(m)
  BY <1>1, <1>3 DEF Rejected, Pending, Unacknowledged, Tells, Answers
<1> QED
  BY <1>2, <1>3

(* The adapter reads a frame; a response is told to who waits for it.      *)
LEMMA AdapterReadCalls ==
    ASSUME IInv, NEW m \in Mutations,
           AdapterChallenge \/ AdapterReady \/ AdapterProgress \/ AdapterResponse
    PROVE  Sees(m) \/ Tells(m)
<1>1. m \in Requests /\ call \in [Requests -> Calls] /\ UNCHANGED effect
  BY RouterAssumption DEF IInv, CallsInv, AdapterChallenge, AdapterReady, AdapterProgress,
    AdapterResponse, AdapterReads
<1>2. CASE UNCHANGED call
  BY <1>1, <1>2 DEF Sees
<1>3. CASE AdapterResponse /\ call' # call
  <2> DEFINE f == Head(toAdapter)
  <2>1. f \in AdapterFrames /\ f.type = "response"
    <3>1. toAdapter \in Seq(TrueFrames) /\ toAdapter # <<>>
      BY <1>3 DEF IInv, WireInv, AdapterResponse, AdapterReads
    <3>2. f \in TrueFrames
      BY <3>1
    <3> QED
      BY <1>3, <3>2 DEF TrueFrames, AdapterResponse
  <2>2. f.id \in Requests /\ f.answer \in Answers
    BY <2>1 DEF AdapterFrames
  <2>3. Pending(f.id) /\ call' = [call EXCEPT ![f.id] = [at |-> "told", answer |-> f.answer]]
    BY <1>3 DEF AdapterResponse, Told
  <2> HIDE DEF f
  <2>4. /\ call'[f.id].at = "told" /\ call'[f.id].answer = f.answer
        /\ \A r \in Requests \ {f.id} : call'[r] = call[r]
    BY <1>1, <2>2, <2>3
  <2> QED
    BY <1>1, <2>2, <2>3, <2>4 DEF Pending, Sees, Tells
<1> QED
  BY <1>2, <1>3 DEF AdapterChallenge, AdapterReady, AdapterProgress

(* The host tells the adapter nothing but by frames, and a mutation is     *)
(* carried out when it was read, so when it was asked for.                 *)
LEMMA HostCalls ==
    ASSUME IInv, NEW m \in Mutations,
           \/ HostInit \/ HostProof \/ HostRequest \/ HostCancel
           \/ (\E q \in Requests : RouterStep(q)) /\ UNCHANGED pipeVars
           \/ (SetCapabilityGrant \/ CompanionComesOrGoes) /\ UNCHANGED pipeVars
    PROVE  Sees(m) \/ Runs(m)
<1>1. UNCHANGED call
  BY DEF HostInit, HostProof, HostRequest, HostCancel, HostReads, pipeVars
<1>2. CASE UNCHANGED effect
  BY <1>1, <1>2 DEF Sees
<1>3. ASSUME NEW q \in Requests, CompanionRuns(q) PROVE Sees(m) \/ Runs(m)
  <2>1. /\ q \in Mutations /\ ~effect[q] /\ work[q] # None
        /\ Active(q) \/ work[q].answer = "INDETERMINATE_MUTATION"
        /\ effect \in [Mutations -> BOOLEAN] /\ effect' = [effect EXCEPT ![q] = TRUE]
    BY <1>3 DEF CompanionRuns, InFlight, IInv, RouterInv, RouterTypeOK
  <2>2. \/ Pending(q)
        \/ call[q].at = "told" /\ call[q].answer \in {"INDETERMINATE_MUTATION", "OFFLINE_BRIDGE"}
    <3>1. call[q] \in Calls /\ CallInv(q)
      BY <1>3, <2>1 DEF IInv, CallsInv
    <3>2. call[q].at \in {"idle", "called", "pending", "told"}
      BY <3>1 DEF Calls
    <3>3. CASE call[q].at = "told"
      BY <2>1, <3>1, <3>3 DEF CallInv, Unsent, Settled, Active
    <3> QED
      BY <2>1, <3>1, <3>2, <3>3 DEF CallInv, Unsent, Pending
  <2>3. CASE m = q
    BY <1>1, <2>1, <2>2, <2>3 DEF Runs
  <2>4. CASE m # q
    BY <1>1, <2>1, <2>4 DEF Sees
  <2> QED
    BY <2>3, <2>4
<1>4. CASE HostInit \/ HostProof \/ HostRequest \/ HostCancel
  <2>1. UNCHANGED effect
    BY <1>4 DEF HostInit, HostProof, HostRequest, HostCancel, Handle, hostVars
  <2> QED
    BY <1>2, <2>1
<1>5. CASE SetCapabilityGrant \/ CompanionComesOrGoes
  BY <1>2, <1>5 DEF SetCapabilityGrant, CompanionComesOrGoes, Change
<1>6. ASSUME NEW q \in Requests, RouterStep(q) PROVE Sees(m) \/ Runs(m)
  <2>1. UNCHANGED effect \/ CompanionRuns(q)
    BY <1>6 DEF RouterStep, Expire, SourceReady, SourceFails, CompanionReports,
                CompanionAnswers, CancelAcknowledged, CompanionGivesUp, Settle
  <2> QED
    BY <1>2, <1>3, <2>1
<1> QED
  BY <1>4, <1>5, <1>6

LEMMA MutationSteps ==
    ASSUME IInv, Next, NEW m \in Mutations
    PROVE  Sees(m) \/ Asks(m) \/ Runs(m) \/ Tells(m)
<1>1. CASE \E q \in Requests : Call(q) \/ CallRefused(q) \/ Cancel(q) \/ NotAcknowledged(q)
  BY <1>1, AdapterCalls
<1>2. CASE HostBudgetOver \/ AdapterBudgetOver \/ ConnectTimesOut \/ Drop
  <2>1. UNCHANGED effect /\ \E kept : Closed(kept)
    BY <1>2 DEF HostBudgetOver, AdapterBudgetOver, ConnectTimesOut, Drop, Close
  <2> QED
    BY <2>1, ClosedCalls
<1>3. CASE AdapterChallenge \/ AdapterReady \/ AdapterProgress \/ AdapterResponse
  BY <1>3, AdapterReadCalls
<1>4. CASE \/ HostInit \/ HostProof \/ HostRequest \/ HostCancel
           \/ (\E q \in Requests : RouterStep(q)) /\ UNCHANGED pipeVars
           \/ (SetCapabilityGrant \/ CompanionComesOrGoes) /\ UNCHANGED pipeVars
  BY <1>4, HostCalls
<1>5. CASE Over /\ UNCHANGED vars
  BY <1>5 DEF Sees, vars, hostVars, pipeVars
<1> QED
  BY <1>1, <1>2, <1>3, <1>4, <1>5 DEF Next

(* The adapter, the pipe and the router do for every mutation what         *)
(* Mutation promises (bridge-connection.ts, bridge-tool.ts, router.ts,     *)
(* policy.ts): it runs once, for an MCP client that waits or knows that it *)
(* may have run, and is denied to nobody after it ran.                     *)
THEOREM BridgeImplementsMutation == Spec => BridgeServes
<1>1. IInv => AnswersAreTrue
  BY TrueAnswersOf
<1>2. Init => \A q \in Mutations : Service(q)!Init
  <2> SUFFICES ASSUME Init, NEW q \in Mutations PROVE Service(q)!Init
    OBVIOUS
  <2>1. call[q].at \in {"idle", "called"} /\ ~effect[q]
    BY RouterAssumption DEF Init, RouterInit
  <2> QED
    BY <2>1 DEF Pending, Service!Init
<1>3. IInv /\ [Next]_vars /\ AnswersAreTrue' => [\A q \in Mutations : Service(q)!Step]_vars
  BY MutationSteps, MutationStep
<1> QED
  BY <1>1, <1>2, <1>3, SpecIInv, PTL DEF Spec, BridgeServes

(* The promises of Mutation are what the MCP client relies on: whoever     *)
(* keeps them tells it what stays true.                                    *)
THEOREM ServiceIsTrue == BridgeServes => []AnswersAreTrue
<1> DEFINE Kept ==
      \A q \in Mutations : call[q].at = "told" =>
          /\ call[q].answer = "ok" => effect[q]
          /\ effect[q] => call[q].answer \in {"ok", "INDETERMINATE_MUTATION", "FOUNDRY_ERROR",
                                              "OFFLINE_BRIDGE"}
<1>1. (\A q \in Mutations : Service(q)!Init) => Kept
  BY DEF Service!Init
<1>2. Kept /\ [\A q \in Mutations : Service(q)!Step]_vars => Kept'
  <2> SUFFICES ASSUME Kept, [\A q \in Mutations : Service(q)!Step]_vars, NEW q \in Mutations,
                      call'[q].at = "told"
               PROVE  /\ call'[q].answer = "ok" => effect'[q]
                      /\ effect'[q] => call'[q].answer \in
                            {"ok", "INDETERMINATE_MUTATION", "FOUNDRY_ERROR", "OFFLINE_BRIDGE"}
    OBVIOUS
  <2>1. CASE UNCHANGED vars
    BY <2>1 DEF vars, hostVars, pipeVars
  <2>2. CASE UNCHANGED <<Pending(q), IF effect[q] THEN 1 ELSE 0,
                         IF call[q].at = "told" THEN {call[q].answer} ELSE {}>>
    BY <2>2
  <2>3. CASE Service(q)!Ask
    BY <2>3 DEF Service!Ask, Pending
  <2>4. CASE Service(q)!Run
    BY <2>4 DEF Service!Run, Service!Told, Pending
  <2>5. CASE Service(q)!Tell
    BY <2>5 DEF Service!Tell, Service!Told, Pending
  <2> QED
    BY <2>1, <2>2, <2>3, <2>4, <2>5 DEF Service!Step, Service!Next
<1>3. Kept => AnswersAreTrue
  BY DEF AnswersAreTrue
<1> QED
  BY <1>1, <1>2, <1>3, PTL DEF BridgeServes
=============================================================================
