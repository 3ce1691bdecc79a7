---------------------------- MODULE SessionsProofs ----------------------------
(***************************************************************************)
(* Theorems about the sessions and their readers.                          *)
(***************************************************************************)
EXTENDS SessionReaders, FiniteSetTheorems, NaturalsInduction, WellFoundedInduction, TLAPS

(* The inductive invariant.                                                *)

StartStages == {"find", "folder", "create", "adopt", "overview", "nameOverview",
                "link", "linkNew", "sent"}
AppendStages == {"find", "append", "namePage", "complete", "touch", "sent"}
StatusStages == {"find", "status", "sent"}
Stages == StartStages \cup AppendStages \cup StatusStages

IsStatus(c) == Op[c] \in {"end", "reopen"}

\* What a write to a journal sets; end and reopen also set the keys.
Fields == [named : {TRUE}, status : {"open", "ended"}, updatedAt : Nat,
           initial : Pages \cup {None}]
StatusFields == [named : {TRUE}, status : {"open", "ended"}, updatedAt : Nat,
                 initial : Pages \cup {None}, statusKeys : SUBSET Keys]

Writes == [on : {"folder", "newJournal", "name"}]
          \cup [on : {"newPage"}, initial : BOOLEAN, time : Nat]
          \cup [on : {"journal"}, fields : Fields \cup StatusFields]

RunningCalls ==
    [at : Stages, j : Journals \cup {None}, view : SessionFlags \cup {None},
     page : Pages \cup {None}, hash : Nat, stamp : Nat, sent : Writes \cup {None},
     then : Stages \cup {"ok", None}]
AnsweredCalls ==
    [at : {"ok"}, j : Journals, page : Pages \cup {None}, view : SessionFlags]
CallStates == [at : Waiting \cup {"failed"}] \cup AnsweredCalls \cup RunningCalls

Sending(r, on) == r.at = "sent" /\ r.sent.on = on

\* Where a call may be, and what follows the write it has sent.
StageFits(c, r) ==
    /\ Op[c] = "start" => r.at \in StartStages
    /\ Op[c] = "append" => r.at \in AppendStages
    /\ IsStatus(c) => r.at \in StatusStages /\ r.page = None
    /\ r.at = "sent" => r.sent \in Writes
    /\ Sending(r, "folder") => Op[c] = "start" /\ r.then = "create"
    /\ Sending(r, "newJournal") => Op[c] = "start" /\ r.then = "adopt"
    /\ Sending(r, "newPage") =>
          \/ Op[c] = "start" /\ r.then = "nameOverview" /\ r.sent.initial
          \/ Op[c] = "append" /\ r.then = "namePage" /\ ~r.sent.initial
    /\ Sending(r, "name") =>
          \/ Op[c] = "start" /\ r.then \in {"link", "linkNew"}
          \/ Op[c] = "append" /\ r.then \in {"complete", "touch"}
    /\ Sending(r, "journal") =>
          \/ r.then = "ok"
          \/ Op[c] = "start" /\ r.then = "overview"
          \/ Op[c] = "append" /\ r.then = "append"
          \/ IsStatus(c) /\ r.then = "status"

\* The call has found its session, or made it.
HasSession(r) ==
    r.at \notin {"find", "folder", "create"}
    /\ ~Sending(r, "folder") /\ ~Sending(r, "newJournal")

\* What it then knows of the session is older than the session, but as good: the
\* keys because of the lock, the status as long as nothing overlapped.
SessionInHand(c, r) ==
    /\ ~HasSession(r) => r.j = None
    /\ HasSession(r) =>
        /\ r.j \in Known /\ r.view \in SessionFlags
        /\ Op[c] = "start" => journal[r.j].startKey = KeyOf[c]
        /\ Op[c] # "start" => r.j = Target[c] /\ r.view.statusKeys = journal[r.j].statusKeys
        /\ r.view.rev <= journal[r.j].rev
        /\ r.view.startedAt <= writes /\ r.view.updatedAt <= writes
        /\ r.view.initial # None => journal[r.j].initial = r.view.initial
        /\ r.view.named => journal[r.j].named
        /\ r.at # "adopt" /\ ~Sending(r, "journal") => r.view.named
        /\ ~overlap => r.view.status = journal[r.j].status

HasPage(c, r) ==
    \/ r.at \in {"nameOverview", "namePage", "link", "linkNew", "complete", "touch"}
    \/ Sending(r, "name")
    \/ Sending(r, "journal") /\ r.then = "ok" /\ ~IsStatus(c)

\* Its page is there, and is named once that was answered; a start's is the
\* overview of its session.
PageInHand(c, r) ==
    HasPage(c, r) =>
        /\ r.page \in Pages /\ page[r.page] # None
        /\ Op[c] = "start" => page[r.page].initial /\ page[r.page].journal = r.j
        /\ r.at \notin {"nameOverview", "namePage"} /\ ~Sending(r, "name")
           => page[r.page].named

\* Only one call can be about to make a session for a key, an overview, or a page
\* for a key.
NothingMadeTwice(c, r) ==
    /\ r.at # "find" /\ ~HasSession(r) => \A j \in Known : journal[j].startKey # KeyOf[c]
    /\ Sending(r, "folder") => folder = 0
    /\ Sending(r, "newPage") =>
          \A p \in Pages : page[p] # None /\ page[p].journal = r.j =>
              IF r.sent.initial THEN ~page[p].initial
              ELSE ~page[p].initial => page[p].key # KeyOf[c]

SetsStatus(c, r) == IsStatus(c) /\ r.then = "ok"

\* The fields on their way point to the overview, if to any; and they do not
\* change the status unless the call is there to do that.
FieldsInHand(c, r) ==
    Sending(r, "journal") =>
        LET fields == r.sent.fields IN
        /\ fields.updatedAt <= writes
        /\ fields.initial # None =>
              /\ page[fields.initial] # None
              /\ page[fields.initial].journal = r.j /\ page[fields.initial].initial
        /\ Op[c] = "start" /\ r.then = "ok" => fields.initial = r.page
        /\ SetsStatus(c, r) =>
              /\ fields \in StatusFields
              /\ KeyOf[c] \notin r.view.statusKeys
              /\ fields.statusKeys = r.view.statusKeys \cup {KeyOf[c]}
        /\ ~SetsStatus(c, r) =>
              fields \in Fields /\ (~overlap => fields.status = journal[r.j].status)

TimesPast(r) == r.stamp <= writes /\ (Sending(r, "newPage") => r.sent.time <= writes)

RunningFits(c, r) ==
    /\ r \in RunningCalls /\ StageFits(c, r) /\ TimesPast(r)
    /\ SessionInHand(c, r) /\ PageInHand(c, r)
    /\ NothingMadeTwice(c, r) /\ FieldsInHand(c, r)

AnswerFits(c, r) ==
    /\ r \in AnsweredCalls
    /\ r.j \in Known /\ journal[r.j].named
    /\ r.page # None => page[r.page] # None /\ page[r.page].named
    /\ Op[c] = "start" => r.page # None /\ journal[r.j].initial = r.page

CallFits(c, r) ==
    /\ r \in CallStates
    /\ r.at \in Stages => RunningFits(c, r)
    /\ r.at = "ok" => AnswerFits(c, r)

\* The journals and pages by themselves.
World ==
    /\ writes \in Nat /\ folder \in 0 .. 1
    /\ journal \in [Journals -> SessionFlags \cup {None}]
    /\ page \in [Pages -> PageFlags \cup {None}]
    /\ \A j \in Known :
          /\ journal[j].startedAt <= writes /\ journal[j].updatedAt <= writes
          /\ journal[j].rev <= writes
          /\ journal[j].initial # None =>
                /\ page[journal[j].initial] # None
                /\ page[journal[j].initial].journal = j /\ page[journal[j].initial].initial
    /\ \A p \in Pages : page[p] # None => page[p].journal \in Known /\ page[p].at <= writes
    /\ \A i, j \in Known :
          journal[i].startKey = journal[j].startKey /\ journal[i].startKey \in Keys => i = j
    /\ PagesOnce

Locked ==
    \A c, d \in Calls : c # d /\ Running(c) /\ Running(d) =>
        /\ LockOf(c) # LockOf(d)
        /\ ~overlap => ~(Op[c] = "start" /\ IsStatus(d))
        /\ Sending(call[c], "folder") => ~Sending(call[d], "folder")

\* What end and reopen have done is in the journals.
Remembers ==
    /\ applied \in [Journals -> [Keys -> Nat]] /\ DOMAIN verdict = Journals
    /\ \A j \in Journals, k \in Keys :
          /\ applied[j][k] <= 1
          /\ applied[j][k] = 1 => j \in Known /\ k \in journal[j].statusKeys
    /\ \A j \in Journals : verdict[j] # None =>
          j \in Known /\ (~overlap => journal[j].status = verdict[j])

CallsFit ==
    call \in [Calls -> CallStates] /\ \A c \in Calls : CallFits(c, call[c])

SessionsIInv == World /\ CallsFit /\ Locked /\ Remembers

----------------------------------------------------------------------------
(* Steps of one call.                                                      *)

LEMMA RunningIsRunning ==
    ASSUME NEW r \in CallStates
    PROVE  /\ r.at \in Stages <=> r.at \notin Waiting \cup Over
           /\ r.at \in Stages => r \in RunningCalls
           /\ r.at = "ok" => r \in AnsweredCalls
<1>1. CASE r \in RunningCalls
  BY <1>1 DEF RunningCalls, Stages, StartStages, AppendStages, StatusStages, Waiting, Over
<1>2. CASE r \in AnsweredCalls
  BY <1>2 DEF AnsweredCalls, Stages, StartStages, AppendStages, StatusStages, Waiting, Over
<1>3. CASE r \in [at : Waiting \cup {"failed"}]
  BY <1>3 DEF Stages, StartStages, AppendStages, StatusStages, Waiting, Over
<1> QED BY <1>1, <1>2, <1>3 DEF CallStates

LEMMA AtStage ==
    ASSUME SessionsIInv, NEW c \in Calls, call[c].at \in Stages
    PROVE  /\ Running(c) /\ call[c] \in RunningCalls /\ RunningFits(c, call[c])
           /\ call \in [Calls -> CallStates]
BY RunningIsRunning DEF SessionsIInv, CallsFit, CallFits, Running

\* The step of a call that changes nothing but the call.
LEMMA MoveKeeps ==
    ASSUME SessionsIInv, NEW c \in Calls, UNCHANGED <<flags, history>>,
           call' \in [Calls -> CallStates], \A d \in Calls \ {c} : call'[d] = call[d],
           call'[c].at \in Stages => call[c].at \in Stages,
           Sending(call'[c], "folder") =>
              \A d \in Calls \ {c} : Running(d) => ~Sending(call[d], "folder"),
           CallFits(c, call'[c])
    PROVE  SessionsIInv'
<1>1. World'
  BY DEF SessionsIInv, World, flags, Known, PagesOnce
<1>2. ASSUME NEW d \in Calls PROVE CallFits(d, call[d])'
  <2>1. CallFits(d, call'[d])
    BY DEF SessionsIInv, CallsFit
  <2> QED
    BY <2>1 DEF CallFits, RunningFits, AnswerFits, StageFits, TimesPast, SessionInHand,
        PageInHand, NothingMadeTwice, FieldsInHand, HasSession, HasPage, SetsStatus, Sending,
        Known, flags, history, IsStatus
<1>3. \A d \in Calls : Running(d)' => Running(d)
  BY RunningIsRunning DEF Running, SessionsIInv, CallsFit
<1>4. Locked'
  <2> SUFFICES ASSUME NEW a \in Calls, NEW b \in Calls, a # b, Running(a)', Running(b)'
               PROVE  /\ LockOf(a) # LockOf(b)
                      /\ ~overlap' => ~(Op[a] = "start" /\ IsStatus(b))
                      /\ Sending(call'[a], "folder") => ~Sending(call'[b], "folder")
    BY DEF Locked, LockOf, IsStatus, Sending
  <2>1. Running(a) /\ Running(b)
    BY <1>3
  <2>2. /\ LockOf(a) # LockOf(b)
        /\ ~overlap => ~(Op[a] = "start" /\ IsStatus(b))
        /\ Sending(call[a], "folder") => ~Sending(call[b], "folder")
        /\ Sending(call[b], "folder") => ~Sending(call[a], "folder")
    BY <2>1 DEF SessionsIInv, Locked
  <2>3. Sending(call'[a], "folder") => ~Sending(call'[b], "folder")
    BY <2>1, <2>2
  <2> QED BY <2>2, <2>3 DEF history
<1>5. Remembers'
  BY DEF SessionsIInv, Remembers, flags, history, Known
<1> QED BY <1>1, <1>2, <1>4, <1>5 DEF SessionsIInv, CallsFit

LEMMA GotoEffect ==
    ASSUME NEW c \in Calls, call \in [Calls -> CallStates], call[c] \in RunningCalls,
           NEW s \in Stages, Goto(c, s)
    PROVE  /\ call' \in [Calls -> CallStates] /\ \A d \in Calls \ {c} : call'[d] = call[d]
           /\ call'[c] = [call[c] EXCEPT !.at = s] /\ call'[c] \in RunningCalls
<1>1. call' = [call EXCEPT ![c] = [call[c] EXCEPT !.at = s]]
  BY DEF Goto
<1>2. [call[c] EXCEPT !.at = s] \in RunningCalls
  BY DEF RunningCalls
<1> QED BY <1>1, <1>2 DEF CallStates

LEMMA RefuseEffect ==
    ASSUME NEW c \in Calls, call \in [Calls -> CallStates], Refuse(c)
    PROVE  /\ call' \in [Calls -> CallStates] /\ \A d \in Calls \ {c} : call'[d] = call[d]
           /\ call'[c] = [at |-> "failed"]
           /\ call'[c].at \notin Stages /\ ~Sending(call'[c], "folder")
           /\ CallFits(c, call'[c])
<1>1. [at |-> "failed"] \in CallStates
  BY DEF CallStates
<1>2. call' \in [Calls -> CallStates] /\ call'[c] = [at |-> "failed"]
  BY <1>1 DEF Refuse
<1> QED
  BY <1>1, <1>2 DEF Refuse, CallFits, Stages, StartStages, AppendStages, StatusStages, Sending

LEMMA SendEffect ==
    ASSUME NEW c \in Calls, call \in [Calls -> CallStates], call[c] \in RunningCalls,
           NEW w \in Writes, NEW t \in Stages \cup {"ok"}, Send(c, w, t)
    PROVE  /\ call' \in [Calls -> CallStates] /\ \A d \in Calls \ {c} : call'[d] = call[d]
           /\ call'[c] = [call[c] EXCEPT !.sent = w, !.then = t, !.at = "sent"]
           /\ call'[c] \in RunningCalls
<1>1. call' = [call EXCEPT ![c] = [call[c] EXCEPT !.sent = w, !.then = t, !.at = "sent"]]
  BY DEF Send
<1>2. "sent" \in Stages
  BY DEF Stages, StartStages
<1>3. [call[c] EXCEPT !.sent = w, !.then = t, !.at = "sent"] \in RunningCalls
  BY <1>2 DEF RunningCalls
<1> QED BY <1>1, <1>3 DEF CallStates

LEMMA AnswerEffect ==
    ASSUME NEW c \in Calls, call \in [Calls -> CallStates], call[c] \in RunningCalls,
           call[c].j \in Journals, NEW v \in SessionFlags, AnswerOk(c, v)
    PROVE  /\ call' \in [Calls -> CallStates] /\ \A d \in Calls \ {c} : call'[d] = call[d]
           /\ call'[c] = [at |-> "ok", j |-> call[c].j, page |-> call[c].page, view |-> v]
           /\ call'[c] \in AnsweredCalls
<1>1. call' = [call EXCEPT ![c] = [at |-> "ok", j |-> call[c].j, page |-> call[c].page, view |-> v]]
  BY DEF AnswerOk
<1>2. [at |-> "ok", j |-> call[c].j, page |-> call[c].page, view |-> v] \in AnsweredCalls
  BY DEF RunningCalls, AnsweredCalls
<1> QED BY <1>1, <1>2 DEF CallStates

LEMMA RetryKeeps ==
    ASSUME SessionsIInv, NEW c \in Calls, Retry(c)
    PROVE  SessionsIInv'
<1>1. call[c] \in CallStates /\ call \in [Calls -> CallStates] /\ call[c].at = "failed"
  BY DEF SessionsIInv, CallsFit, Retry
<1>2. call[c] \in [at : Waiting \cup {"failed"}]
  BY <1>1 DEF CallStates, AnsweredCalls, RunningCalls, Stages, StartStages, AppendStages, StatusStages
<1>3. [call[c] EXCEPT !.at = "called"] \in [at : Waiting \cup {"failed"}]
  BY <1>2 DEF Waiting
<1>4. call' = [call EXCEPT ![c] = [call[c] EXCEPT !.at = "called"]]
  BY DEF Retry, Goto
<1>5. call'[c].at = "called" /\ call' \in [Calls -> CallStates] /\ call'[c] \in CallStates
  BY <1>1, <1>2, <1>3, <1>4 DEF CallStates
<1>6. CallFits(c, call'[c]) /\ call'[c].at \notin Stages
  BY <1>5 DEF CallFits, Stages, StartStages, AppendStages, StatusStages
<1> QED
  BY <1>1, <1>4, <1>5, <1>6, MoveKeeps DEF Retry, Sending, flags, history

LEMMA FailKeeps ==
    ASSUME SessionsIInv, NEW c \in Calls, Refuse(c), UNCHANGED <<flags, history>>
    PROVE  SessionsIInv'
BY RefuseEffect, MoveKeeps DEF SessionsIInv, CallsFit

LEMMA ReloadKeeps ==
    ASSUME SessionsIInv, Reload
    PROVE  SessionsIInv'
<1>1. \A c \in Calls : \/ call'[c] = call[c] /\ ~Running(c)
                       \/ call'[c] = [at |-> "failed"]
  BY DEF Reload
<1>2. [at |-> "failed"] \in CallStates
  BY DEF CallStates
<1>3. call' \in [Calls -> CallStates]
  BY <1>2 DEF Reload, SessionsIInv, CallsFit
<1>4. \A d \in Calls : ~Running(d)'
  BY <1>1 DEF Running, Over
<1>5. UNCHANGED <<flags, history>>
  BY DEF Reload
<1>6. World' /\ Remembers'
  BY <1>5 DEF SessionsIInv, World, flags, history, Known, PagesOnce, Remembers
<1>7. Locked'
  BY <1>4 DEF Locked
<1>8. ASSUME NEW d \in Calls PROVE CallFits(d, call[d])'
  <2>1. CASE call'[d] = [at |-> "failed"]
    BY <2>1, <1>2 DEF CallFits, Stages, StartStages, AppendStages, StatusStages
  <2>2. CASE call'[d] = call[d] /\ ~Running(d)
    <3>1. call[d] \in CallStates /\ call[d].at \notin Stages /\ CallFits(d, call[d])
      BY <2>2, RunningIsRunning DEF SessionsIInv, CallsFit, Running
    <3> QED BY <2>2, <3>1, <1>5 DEF CallFits, AnswerFits, flags, Known
  <2> QED BY <2>1, <2>2, <1>1
<1> QED BY <1>3, <1>6, <1>7, <1>8 DEF SessionsIInv, CallsFit

\* A call takes its lock only when nobody has it.
LEMMA BeginKeeps ==
    ASSUME SessionsIInv, NEW c \in Calls, Begin(c)
    PROVE  SessionsIInv'
<1> DEFINE s == [at |-> "find", j |-> None, view |-> None, page |-> None, hash |-> 0,
                 stamp |-> writes, sent |-> None, then |-> None]
<1>1. call' = [call EXCEPT ![c] = s] /\ UNCHANGED flags /\ UNCHANGED <<applied, verdict>>
      /\ (overlap' = (overlap \/ Overlapping(c))) /\ Free(c) /\ call[c].at = "called"
  BY DEF Begin
<1>2. s \in RunningCalls /\ s.at = "find" /\ s.stamp = writes /\ s.page = None /\ s.j = None
  BY DEF RunningCalls, Stages, StartStages, SessionsIInv, World
<1>3. call' \in [Calls -> CallStates] /\ call'[c] = s /\ \A d \in Calls \ {c} : call'[d] = call[d]
  BY <1>1, <1>2 DEF CallStates, SessionsIInv, CallsFit
<1> HIDE DEF s
<1>4. ~overlap' => ~overlap
  BY <1>1
<1>5. World'
  BY <1>1 DEF SessionsIInv, World, flags, Known, PagesOnce
<1>6. Remembers'
  BY <1>1, <1>4 DEF SessionsIInv, Remembers, flags, Known
<1>7. ASSUME NEW d \in Calls, d # c PROVE CallFits(d, call[d])'
  <2>1. CallFits(d, call'[d])
    BY <1>3, <1>7 DEF SessionsIInv, CallsFit
  <2> QED
    BY <2>1, <1>1, <1>4 DEF CallFits, RunningFits, AnswerFits, StageFits, TimesPast, SessionInHand,
        PageInHand, NothingMadeTwice, FieldsInHand, HasSession, HasPage, SetsStatus, Sending,
        Known, flags, IsStatus
<1>8. CallFits(c, call[c])'
  <2>0. /\ call'[c] \in RunningCalls /\ call'[c].at = "find" /\ call'[c].stamp = writes
        /\ call'[c].page = None /\ call'[c].j = None /\ \A on : ~Sending(call'[c], on)
    BY <1>2, <1>3 DEF Sending
  <2>1. RunningFits(c, call[c])'
    <3>2. StageFits(c, call[c])'
      BY <2>0, SessionsAssumption
      DEF StageFits, StartStages, AppendStages, StatusStages, Sending, IsStatus
    <3>3. TimesPast(call[c])'
      BY <1>1, <2>0 DEF TimesPast, flags, SessionsIInv, World, Sending
    <3>4. /\ SessionInHand(c, call[c])' /\ PageInHand(c, call[c])'
          /\ NothingMadeTwice(c, call[c])' /\ FieldsInHand(c, call[c])'
      BY <2>0 DEF SessionInHand, PageInHand, NothingMadeTwice, FieldsInHand, HasSession, HasPage, Sending
    <3> QED BY <2>0, <3>2, <3>3, <3>4 DEF RunningFits
  <2> QED BY <2>0, <2>1 DEF CallFits, CallStates
<1>9. Locked'
  <2>1. ASSUME NEW d \in Calls, d # c, Running(d)'
        PROVE  Running(d) /\ LockOf(d) # LockOf(c)
               /\ (~overlap' => ~(Op[c] = "start" /\ IsStatus(d)) /\ ~(Op[d] = "start" /\ IsStatus(c)))
    <3>1. Running(d) /\ LockOf(d) # LockOf(c)
      BY <1>1, <1>3, <2>1 DEF Running, Free
    <3>2. ~overlap' => ~((Op[d] = "start") # (Op[c] = "start") /\ "append" \notin {Op[c], Op[d]})
      BY <1>1, <3>1 DEF Overlapping
    <3> QED BY <3>1, <3>2 DEF IsStatus
  <2>2. \A on : ~Sending(call'[c], on)
    BY <1>2, <1>3 DEF Sending
  <2> SUFFICES ASSUME NEW a \in Calls, NEW b \in Calls, a # b, Running(a)', Running(b)'
               PROVE  /\ LockOf(a) # LockOf(b)
                      /\ ~overlap' => ~(Op[a] = "start" /\ IsStatus(b))
                      /\ Sending(call'[a], "folder") => ~Sending(call'[b], "folder")
    BY DEF Locked, LockOf, IsStatus, Sending
  <2>3. CASE a = c
    BY <2>1, <2>2, <2>3
  <2>4. CASE b = c
    BY <2>1, <2>2, <2>4
  <2>5. CASE a # c /\ b # c
    BY <2>1, <2>5, <1>3, <1>4 DEF SessionsIInv, Locked
  <2> QED BY <2>3, <2>4, <2>5
<1> QED BY <1>3, <1>5, <1>6, <1>7, <1>8, <1>9 DEF SessionsIInv, CallsFit

\* What a step within a call has to show.
LEMMA StageKeeps ==
    ASSUME SessionsIInv, NEW c \in Calls, call[c].at \in Stages, UNCHANGED <<flags, history>>,
           call' \in [Calls -> CallStates], \A d \in Calls \ {c} : call'[d] = call[d],
           call'[c] \in RunningCalls, call'[c].stamp <= writes, StageFits(c, call'[c]),
           Sending(call'[c], "newPage") => call'[c].sent.time <= writes,
           SessionInHand(c, call'[c]), PageInHand(c, call'[c]),
           NothingMadeTwice(c, call'[c]), FieldsInHand(c, call'[c]),
           Sending(call'[c], "folder") =>
              \A d \in Calls \ {c} : Running(d) => ~Sending(call[d], "folder")
    PROVE  SessionsIInv'
<1>1. call'[c] \in CallStates /\ call'[c].at # "ok"
  BY DEF CallStates, RunningCalls, Stages, StartStages, AppendStages, StatusStages
<1>2. CallFits(c, call'[c])
  BY <1>1 DEF CallFits, RunningFits, TimesPast
<1> QED BY <1>2, MoveKeeps

\* A write to the journal of the session in hand.
LEMMA JournalSent ==
    ASSUME SessionsIInv, NEW c \in Calls, call[c].at \in Stages, UNCHANGED <<flags, history>>,
           HasSession(call[c]), NEW fields \in Fields \cup StatusFields,
           NEW t \in Stages \cup {"ok"}, Send(c, [on |-> "journal", fields |-> fields], t),
           \/ t = "ok"
           \/ Op[c] = "start" /\ t = "overview"
           \/ Op[c] = "append" /\ t = "append"
           \/ IsStatus(c) /\ t = "status",
           t = "ok" /\ ~IsStatus(c) => HasPage(c, call[c]) /\ page[call[c].page].named,
           fields.updatedAt <= writes,
           fields.initial # None =>
              /\ page[fields.initial] # None /\ page[fields.initial].initial
              /\ page[fields.initial].journal = call[c].j,
           Op[c] = "start" /\ t = "ok" => fields.initial = call[c].page,
           IsStatus(c) /\ t = "ok" =>
              /\ fields \in StatusFields /\ KeyOf[c] \notin call[c].view.statusKeys
              /\ fields.statusKeys = call[c].view.statusKeys \cup {KeyOf[c]},
           ~(IsStatus(c) /\ t = "ok") =>
              fields \in Fields /\ fields.status = call[c].view.status
    PROVE  SessionsIInv'
<1> DEFINE w == [on |-> "journal", fields |-> fields]
<1>1. w \in Writes /\ w.on = "journal" /\ w.fields = fields
  BY DEF Writes
<1> HIDE DEF w
<1>2. call[c] \in RunningCalls /\ RunningFits(c, call[c]) /\ call \in [Calls -> CallStates]
  BY AtStage
<1>3. /\ call' \in [Calls -> CallStates] /\ \A d \in Calls \ {c} : call'[d] = call[d]
      /\ call'[c] = [call[c] EXCEPT !.sent = w, !.then = t, !.at = "sent"]
      /\ call'[c] \in RunningCalls
  BY <1>1, <1>2, SendEffect DEF w
<1>4. /\ call'[c].at = "sent" /\ call'[c].sent = w /\ call'[c].then = t
      /\ call'[c].j = call[c].j /\ call'[c].view = call[c].view
      /\ call'[c].page = call[c].page /\ call'[c].stamp = call[c].stamp
  BY <1>2, <1>3 DEF RunningCalls
<1>5. /\ \A on : Sending(call'[c], on) <=> on = "journal"
      /\ HasSession(call'[c])
  BY <1>1, <1>4 DEF Sending, HasSession
<1>6. StageFits(c, call'[c])
  BY <1>1, <1>2, <1>4, <1>5, SessionsAssumption
  DEF StageFits, RunningFits, StartStages, AppendStages, StatusStages, IsStatus
<1>7. SessionInHand(c, call'[c])
  BY <1>2, <1>4, <1>5 DEF RunningFits, SessionInHand
<1>8. PageInHand(c, call'[c])
  BY <1>2, <1>4, <1>5 DEF RunningFits, PageInHand, HasPage
<1>9. NothingMadeTwice(c, call'[c])
  BY <1>5 DEF NothingMadeTwice
<1>10. FieldsInHand(c, call'[c])
  BY <1>1, <1>2, <1>4, <1>5 DEF RunningFits, SessionInHand, FieldsInHand, SetsStatus
<1>11. call'[c].stamp <= writes
  BY <1>2, <1>4 DEF RunningFits, TimesPast
<1> QED
  BY <1>3, <1>5, <1>6, <1>7, <1>8, <1>9, <1>10, <1>11, StageKeeps

LEMMA MetadataSays ==
    ASSUME NEW v \in SessionFlags
    PROVE  /\ [Metadata(v) EXCEPT !.named = TRUE] \in Fields
           /\ [Metadata(v) EXCEPT !.named = TRUE].status = v.status
           /\ [Metadata(v) EXCEPT !.named = TRUE].updatedAt = v.updatedAt
           /\ [Metadata(v) EXCEPT !.named = TRUE].initial = v.initial
           /\ v.named => \A p \in Pages :
                 /\ [Metadata(v) EXCEPT !.initial = p] \in Fields
                 /\ [Metadata(v) EXCEPT !.initial = p].status = v.status
                 /\ [Metadata(v) EXCEPT !.initial = p].updatedAt = v.updatedAt
                 /\ [Metadata(v) EXCEPT !.initial = p].initial = p
           /\ v.named => \A t \in Nat :
                 /\ [Metadata(v) EXCEPT !.updatedAt = t] \in Fields
                 /\ [Metadata(v) EXCEPT !.updatedAt = t].status = v.status
                 /\ [Metadata(v) EXCEPT !.updatedAt = t].updatedAt = t
                 /\ [Metadata(v) EXCEPT !.updatedAt = t].initial = v.initial
BY DEF Metadata, SessionFlags, Fields

\* Finding a session, and naming its journal when that has not been done.
LEMMA RepairKeeps ==
    ASSUME SessionsIInv, NEW c \in Calls, call[c].at = "find", UNCHANGED <<flags, history>>,
           NEW j \in Known, NEW t, Repair(c, j, t),
           \/ Op[c] = "start" /\ t = "overview" /\ journal[j].startKey = KeyOf[c]
           \/ Op[c] = "append" /\ t = "append" /\ j = Target[c]
           \/ IsStatus(c) /\ t = "status" /\ j = Target[c]
    PROVE  SessionsIInv'
<1> DEFINE v == journal[j]
           f == [Metadata(v) EXCEPT !.named = TRUE]
           w == [on |-> "journal", fields |-> f]
<1>0. t \in Stages /\ "sent" \in Stages /\ call[c].at \in Stages /\ t # "adopt"
      /\ t \notin {"find", "folder", "create"}
      /\ t \notin {"nameOverview", "namePage", "link", "linkNew", "complete", "touch"} /\ t # "ok"
      /\ t # "sent"
  BY DEF Stages, StartStages, AppendStages, StatusStages
<1>1. call[c] \in RunningCalls /\ RunningFits(c, call[c]) /\ call \in [Calls -> CallStates]
  BY <1>0, AtStage
<1>2. j \in Journals /\ v \in SessionFlags
  BY DEF SessionsIInv, World, Known
<1>3. /\ v.updatedAt <= writes /\ v.startedAt <= writes /\ v.rev <= v.rev
      /\ v.initial # None =>
            page[v.initial] # None /\ page[v.initial].journal = j /\ page[v.initial].initial
  BY <1>2 DEF SessionsIInv, World, SessionFlags
<1>4. f \in Fields /\ f.status = v.status /\ f.updatedAt = v.updatedAt /\ f.initial = v.initial
  BY <1>2, MetadataSays
<1> HIDE DEF f
<1>5. w \in Writes /\ w.on = "journal" /\ w.fields = f
  BY <1>4 DEF Writes
<1> HIDE DEF w
<1>6. CASE IsRepaired(v)
  <2>1. call' = [call EXCEPT ![c] = [call[c] EXCEPT !.j = j, !.view = v, !.at = t]]
    BY <1>6, <1>1 DEF Repair, CallStates
  <2>2. [call[c] EXCEPT !.j = j, !.view = v, !.at = t] \in RunningCalls
    BY <1>0, <1>1, <1>2 DEF RunningCalls
  <2>3. /\ call' \in [Calls -> CallStates] /\ \A d \in Calls \ {c} : call'[d] = call[d]
        /\ call'[c] = [call[c] EXCEPT !.j = j, !.view = v, !.at = t] /\ call'[c] \in RunningCalls
    BY <1>1, <2>1, <2>2 DEF CallStates
  <2>4. /\ call'[c].at = t /\ call'[c].j = j /\ call'[c].view = v
        /\ call'[c].page = call[c].page /\ call'[c].stamp = call[c].stamp
    BY <1>1, <2>3 DEF RunningCalls
  <2>5. (\A on : ~Sending(call'[c], on)) /\ HasSession(call'[c]) /\ ~HasPage(c, call'[c])
    BY <1>0, <2>4 DEF Sending, HasSession, HasPage
  <2>6. StageFits(c, call'[c])
    BY <1>0, <1>1, <2>4, <2>5, SessionsAssumption
    DEF StageFits, RunningFits, StartStages, AppendStages, StatusStages, IsStatus
  <2>7. SessionInHand(c, call'[c])
    BY <1>2, <1>3, <1>6, <2>4, <2>5, SessionsAssumption DEF SessionInHand, IsRepaired, IsStatus
  <2>8. PageInHand(c, call'[c]) /\ NothingMadeTwice(c, call'[c]) /\ FieldsInHand(c, call'[c])
    BY <2>5 DEF PageInHand, NothingMadeTwice, FieldsInHand
  <2>9. call'[c].stamp <= writes
    BY <1>1, <2>4 DEF RunningFits, TimesPast
  <2> QED BY <1>0, <2>3, <2>5, <2>6, <2>7, <2>8, <2>9, StageKeeps
<1>7. CASE ~IsRepaired(v)
  <2>1. call' = [call EXCEPT ![c] = [call[c] EXCEPT !.j = j, !.view = v, !.at = "sent",
                                                    !.then = t, !.sent = w]]
    BY <1>7, <1>1 DEF Repair, CallStates, w, f
  <2>2. [call[c] EXCEPT !.j = j, !.view = v, !.at = "sent", !.then = t, !.sent = w] \in RunningCalls
    BY <1>0, <1>1, <1>2, <1>5 DEF RunningCalls
  <2>3. /\ call' \in [Calls -> CallStates] /\ \A d \in Calls \ {c} : call'[d] = call[d]
        /\ call'[c] = [call[c] EXCEPT !.j = j, !.view = v, !.at = "sent", !.then = t, !.sent = w]
        /\ call'[c] \in RunningCalls
    BY <1>1, <2>1, <2>2 DEF CallStates
  <2>4. /\ call'[c].at = "sent" /\ call'[c].j = j /\ call'[c].view = v /\ call'[c].sent = w
        /\ call'[c].then = t /\ call'[c].page = call[c].page /\ call'[c].stamp = call[c].stamp
    BY <1>1, <2>3 DEF RunningCalls
  <2>5. (\A on : Sending(call'[c], on) <=> on = "journal") /\ HasSession(call'[c])
        /\ ~HasPage(c, call'[c])
    BY <1>0, <1>5, <2>4 DEF Sending, HasSession, HasPage
  <2>6. StageFits(c, call'[c])
    BY <1>0, <1>1, <1>5, <2>4, <2>5, SessionsAssumption
    DEF StageFits, RunningFits, StartStages, AppendStages, StatusStages, IsStatus
  <2>7. SessionInHand(c, call'[c])
    BY <1>2, <1>3, <1>7, <2>4, <2>5, SessionsAssumption DEF SessionInHand, IsRepaired, IsStatus
  <2>8. PageInHand(c, call'[c]) /\ NothingMadeTwice(c, call'[c])
    BY <2>5 DEF PageInHand, NothingMadeTwice
  <2>10. FieldsInHand(c, call'[c])
    BY <1>0, <1>3, <1>4, <1>5, <2>4, <2>5 DEF FieldsInHand, SetsStatus
  <2>9. call'[c].stamp <= writes
    BY <1>1, <2>4 DEF RunningFits, TimesPast
  <2> QED BY <1>0, <2>3, <2>5, <2>6, <2>7, <2>8, <2>9, <2>10, StageKeeps
<1> QED BY <1>6, <1>7

LEMMA LeastIsMember ==
    ASSUME NEW S, S \subseteq Nat, S # {}
    PROVE  Least(S) \in S /\ \A y \in S : Least(S) <= y
<1>1. \A m, n \in Nat : m < n => <<m, n>> \in OpToRel(<, Nat)
  BY DEF OpToRel
<1>2. PICK R : IsWellFoundedOn(R, Nat) /\ \A m, n \in Nat : m < n => <<m, n>> \in R
  BY <1>1, NatLessThanWellFounded, Zenon
<1>3. PICK x \in S : \A y \in S : ~(<<y, x>> \in R)
  BY <1>2, WFMin, Zenon
<1>4. \A y \in S : ~(y < x) /\ y \in Nat /\ x \in Nat
  BY <1>2, <1>3
<1>5. \A y \in S : x <= y
  BY <1>4
<1> QED BY <1>3, <1>5 DEF Least

----------------------------------------------------------------------------
(* sessions.start.                                                         *)

LEMMA StartFindKeeps ==
    ASSUME SessionsIInv, NEW c \in Calls, StartFind(c)
    PROVE  SessionsIInv'
<1>1. Op[c] = "start" /\ call[c].at = "find" /\ UNCHANGED <<flags, history>>
  BY DEF StartFind, Step
<1>2. call[c].at \in Stages /\ "folder" \in Stages
  BY <1>1 DEF Stages, StartStages
<1>3. call[c] \in RunningCalls /\ RunningFits(c, call[c]) /\ call \in [Calls -> CallStates]
  BY <1>2, AtStage
<1>4. CASE FindByStartKey(c) # {}
  <2>1. FindByStartKey(c) \subseteq Nat
    BY SessionsAssumption DEF FindByStartKey, Known
  <2>2. Least(FindByStartKey(c)) \in FindByStartKey(c)
    BY <1>4, <2>1, LeastIsMember
  <2>3. /\ Least(FindByStartKey(c)) \in Known
        /\ journal[Least(FindByStartKey(c))].startKey = KeyOf[c]
    BY <2>2 DEF FindByStartKey
  <2>4. Repair(c, Least(FindByStartKey(c)), "overview")
    BY <1>4 DEF StartFind
  <2> QED BY <1>1, <2>3, <2>4, RepairKeeps
<1>5. CASE FindByStartKey(c) = {}
  <2>1. Goto(c, "folder")
    BY <1>5 DEF StartFind
  <2>2. /\ call' \in [Calls -> CallStates] /\ \A d \in Calls \ {c} : call'[d] = call[d]
        /\ call'[c] = [call[c] EXCEPT !.at = "folder"] /\ call'[c] \in RunningCalls
    BY <1>2, <1>3, <2>1, GotoEffect
  <2>3. /\ call'[c].at = "folder" /\ call'[c].stamp = call[c].stamp
        /\ call'[c].j = None /\ \A on : ~Sending(call'[c], on)
    <3>1. call[c].j = None
      BY <1>1, <1>3 DEF RunningFits, SessionInHand, HasSession
    <3> QED BY <3>1, <1>3, <2>2 DEF RunningCalls, Sending
  <2>4. StageFits(c, call'[c])
    BY <1>1, <2>3, SessionsAssumption DEF StageFits, StartStages, IsStatus
  <2>5. /\ SessionInHand(c, call'[c]) /\ PageInHand(c, call'[c]) /\ FieldsInHand(c, call'[c])
    BY <2>3 DEF SessionInHand, PageInHand, FieldsInHand, HasSession, HasPage
  <2>6. NothingMadeTwice(c, call'[c])
    BY <1>5, <2>3 DEF NothingMadeTwice, FindByStartKey
  <2>7. call'[c].stamp <= writes
    BY <1>3, <2>3 DEF RunningFits, TimesPast
  <2> QED BY <1>1, <1>2, <2>2, <2>3, <2>4, <2>5, <2>6, <2>7, StageKeeps
<1> QED BY <1>4, <1>5

LEMMA CreationsAreWrites ==
    /\ [on |-> "folder"] \in Writes /\ [on |-> "newJournal"] \in Writes
    /\ [on |-> "name"] \in Writes
    /\ \A b \in BOOLEAN, t \in Nat : [on |-> "newPage", initial |-> b, time |-> t] \in Writes
BY DEF Writes

LEMMA EnsureFolderKeeps ==
    ASSUME SessionsIInv, NEW c \in Calls, EnsureFolder(c)
    PROVE  SessionsIInv'
<1>1. call[c].at = "folder" /\ UNCHANGED <<flags, history>>
  BY DEF EnsureFolder, Step
<1>2. call[c].at \in Stages /\ "create" \in Stages
  BY <1>1 DEF Stages, StartStages
<1>3. call[c] \in RunningCalls /\ RunningFits(c, call[c]) /\ call \in [Calls -> CallStates]
  BY <1>2, AtStage
<1>4. Op[c] = "start"
  BY <1>1, <1>3, SessionsAssumption DEF RunningFits, StageFits, AppendStages, StatusStages, IsStatus
<1>5. (\A on : ~Sending(call[c], on)) /\ ~HasSession(call[c]) /\ call[c].stamp <= writes
      /\ call[c].j = None /\ \A j \in Known : journal[j].startKey # KeyOf[c]
  BY <1>1, <1>3 DEF RunningFits, TimesPast, SessionInHand, NothingMadeTwice, HasSession, Sending
<1>6. CASE folder > 0
  <2>1. Goto(c, "create")
    BY <1>6 DEF EnsureFolder
  <2>2. /\ call' \in [Calls -> CallStates] /\ \A d \in Calls \ {c} : call'[d] = call[d]
        /\ call'[c] = [call[c] EXCEPT !.at = "create"] /\ call'[c] \in RunningCalls
    BY <1>2, <1>3, <2>1, GotoEffect
  <2>3. /\ call'[c].at = "create" /\ call'[c].stamp = call[c].stamp
        /\ call'[c].j = None /\ \A on : ~Sending(call'[c], on)
    BY <1>3, <1>5, <2>2 DEF RunningCalls, Sending
  <2>4. StageFits(c, call'[c])
    BY <1>4, <2>3, SessionsAssumption DEF StageFits, StartStages, IsStatus
  <2>5. /\ SessionInHand(c, call'[c]) /\ PageInHand(c, call'[c]) /\ FieldsInHand(c, call'[c])
        /\ NothingMadeTwice(c, call'[c])
    BY <1>5, <2>3
    DEF SessionInHand, PageInHand, FieldsInHand, NothingMadeTwice, HasSession, HasPage
  <2> QED BY <1>1, <1>2, <1>5, <2>2, <2>3, <2>4, <2>5, StageKeeps
<1>7. CASE ~(folder > 0)
  <2>0. PICK w \in Writes : w = [on |-> "folder"] /\ w.on = "folder"
    BY CreationsAreWrites
  <2>1. Send(c, w, "create")
    BY <1>7, <2>0 DEF EnsureFolder
  <2>2. /\ call' \in [Calls -> CallStates] /\ \A d \in Calls \ {c} : call'[d] = call[d]
        /\ call'[c] = [call[c] EXCEPT !.sent = w, !.then = "create", !.at = "sent"]
        /\ call'[c] \in RunningCalls
    BY <1>2, <1>3, <2>1, SendEffect
  <2>3. /\ call'[c].at = "sent" /\ call'[c].stamp = call[c].stamp
        /\ call'[c].sent = w /\ call'[c].then = "create" /\ call'[c].j = None
        /\ \A on : Sending(call'[c], on) <=> on = "folder"
    BY <1>3, <1>5, <2>0, <2>2 DEF RunningCalls, Sending
  <2>4. StageFits(c, call'[c])
    BY <1>4, <2>3, SessionsAssumption DEF StageFits, StartStages, IsStatus
  <2>5. folder = 0
    BY <1>7 DEF SessionsIInv, World
  <2>6. /\ SessionInHand(c, call'[c]) /\ PageInHand(c, call'[c]) /\ FieldsInHand(c, call'[c])
        /\ NothingMadeTwice(c, call'[c])
    BY <1>5, <2>3, <2>5
    DEF SessionInHand, PageInHand, FieldsInHand, NothingMadeTwice, HasSession, HasPage
  <2>7. \A d \in Calls : Running(d) => ~Sending(call[d], "folder")
    BY DEF EnsureFolder, Sending
  <2> QED BY <1>1, <1>2, <1>5, <2>2, <2>3, <2>4, <2>6, <2>7, StageKeeps
<1> QED BY <1>6, <1>7

LEMMA CreateJournalKeeps ==
    ASSUME SessionsIInv, NEW c \in Calls, CreateJournal(c)
    PROVE  SessionsIInv'
<1>1. call[c].at = "create" /\ UNCHANGED <<flags, history>>
  BY DEF CreateJournal, Step
<1>2. call[c].at \in Stages /\ "adopt" \in Stages
  BY <1>1 DEF Stages, StartStages
<1>3. call[c] \in RunningCalls /\ RunningFits(c, call[c]) /\ call \in [Calls -> CallStates]
  BY <1>2, AtStage
<1>4. Op[c] = "start"
  BY <1>1, <1>3, SessionsAssumption DEF RunningFits, StageFits, AppendStages, StatusStages, IsStatus
<1>5. ~HasSession(call[c]) /\ call[c].stamp <= writes
      /\ call[c].j = None /\ \A j \in Known : journal[j].startKey # KeyOf[c]
  BY <1>1, <1>3 DEF RunningFits, TimesPast, SessionInHand, NothingMadeTwice, HasSession, Sending
<1>6. PICK w \in Writes : w = [on |-> "newJournal"] /\ w.on = "newJournal"
  BY CreationsAreWrites
<1>7. Send(c, w, "adopt")
  BY <1>6 DEF CreateJournal
<1>8. /\ call' \in [Calls -> CallStates] /\ \A d \in Calls \ {c} : call'[d] = call[d]
      /\ call'[c] = [call[c] EXCEPT !.sent = w, !.then = "adopt", !.at = "sent"]
      /\ call'[c] \in RunningCalls
  BY <1>2, <1>3, <1>7, SendEffect
<1>9. /\ call'[c].at = "sent" /\ call'[c].stamp = call[c].stamp
      /\ call'[c].sent = w /\ call'[c].then = "adopt" /\ call'[c].j = None
      /\ \A on : Sending(call'[c], on) <=> on = "newJournal"
  BY <1>3, <1>5, <1>6, <1>8 DEF RunningCalls, Sending
<1>10. StageFits(c, call'[c])
  BY <1>4, <1>9, SessionsAssumption DEF StageFits, StartStages, IsStatus
<1>11. /\ SessionInHand(c, call'[c]) /\ PageInHand(c, call'[c]) /\ FieldsInHand(c, call'[c])
       /\ NothingMadeTwice(c, call'[c])
  BY <1>5, <1>9
  DEF SessionInHand, PageInHand, FieldsInHand, NothingMadeTwice, HasSession, HasPage
<1> QED BY <1>1, <1>2, <1>5, <1>8, <1>9, <1>10, <1>11, StageKeeps

LEMMA AdoptJournalKeeps ==
    ASSUME SessionsIInv, NEW c \in Calls, AdoptJournal(c)
    PROVE  SessionsIInv'
<1> DEFINE f == [Metadata(call[c].view) EXCEPT !.named = TRUE]
<1>1. call[c].at = "adopt" /\ UNCHANGED <<flags, history>>
  BY DEF AdoptJournal, Step
<1>2. call[c].at \in Stages /\ "overview" \in Stages
  BY <1>1 DEF Stages, StartStages
<1>3. call[c] \in RunningCalls /\ RunningFits(c, call[c]) /\ call \in [Calls -> CallStates]
  BY <1>2, AtStage
<1>4. Op[c] = "start"
  BY <1>1, <1>3, SessionsAssumption DEF RunningFits, StageFits, AppendStages, StatusStages, IsStatus
<1>5. HasSession(call[c])
  BY <1>1 DEF HasSession, Sending
<1>6. /\ call[c].view \in SessionFlags /\ call[c].j \in Known /\ call[c].view.updatedAt <= writes
      /\ call[c].view.initial # None => journal[call[c].j].initial = call[c].view.initial
  BY <1>3, <1>5 DEF RunningFits, SessionInHand
<1>7. /\ f \in Fields /\ f.updatedAt = call[c].view.updatedAt /\ f.status = call[c].view.status
      /\ f.initial = call[c].view.initial
  BY <1>6, MetadataSays
<1>8. f.initial # None =>
          page[f.initial] # None /\ page[f.initial].initial /\ page[f.initial].journal = call[c].j
  BY <1>6, <1>7 DEF SessionsIInv, World
<1>9. UpdateJournal(c, call[c].view.rev, f, "overview")
  BY DEF AdoptJournal
<1> HIDE DEF f
<1>10. CASE Refuse(c)
  BY <1>1, <1>10, FailKeeps
<1>11. CASE Send(c, [on |-> "journal", fields |-> f], "overview")
  <2>1. f \in Fields \cup StatusFields
    BY <1>7
  <2> QED
    BY <1>1, <1>2, <1>4, <1>5, <1>6, <1>7, <1>8, <1>11, <2>1, JournalSent DEF IsStatus
<1> QED BY <1>9, <1>10, <1>11 DEF UpdateJournal

\* A page of the session in hand is about to be named.
LEMMA NameSent ==
    ASSUME SessionsIInv, NEW c \in Calls, call[c].at \in Stages, UNCHANGED <<flags, history>>,
           HasSession(call[c]), call[c].view.named, NEW p \in Pages, page[p] # None,
           NEW expected, NEW t \in {"link", "linkNew", "complete", "touch"},
           UpdatePage(c, p, expected, t),
           \/ /\ Op[c] = "start" /\ t \in {"link", "linkNew"}
              /\ page[p].initial /\ page[p].journal = call[c].j
           \/ Op[c] = "append" /\ t \in {"complete", "touch"}
    PROVE  SessionsIInv'
<1>0. t \in Stages /\ "sent" \in Stages /\ t # "ok"
  BY DEF Stages, StartStages, AppendStages, StatusStages
<1>1. call[c] \in RunningCalls /\ RunningFits(c, call[c]) /\ call \in [Calls -> CallStates]
  BY AtStage
<1>2. PICK w \in Writes : w = [on |-> "name"] /\ w.on = "name"
  BY CreationsAreWrites
<1>3. CASE Refuse(c)
  BY <1>3, FailKeeps
<1>4. CASE call' = [call EXCEPT ![c].sent = w, ![c].then = t, ![c].at = "sent", ![c].page = p]
  <2>1. call' = [call EXCEPT ![c] = [call[c] EXCEPT !.sent = w, !.then = t, !.at = "sent", !.page = p]]
    BY <1>4
  <2>2. [call[c] EXCEPT !.sent = w, !.then = t, !.at = "sent", !.page = p] \in RunningCalls
    BY <1>0, <1>1 DEF RunningCalls
  <2>3. /\ call' \in [Calls -> CallStates] /\ \A d \in Calls \ {c} : call'[d] = call[d]
        /\ call'[c] = [call[c] EXCEPT !.sent = w, !.then = t, !.at = "sent", !.page = p]
        /\ call'[c] \in RunningCalls
    BY <1>1, <2>1, <2>2 DEF CallStates
  <2>4. /\ call'[c].at = "sent" /\ call'[c].sent = w /\ call'[c].then = t /\ call'[c].page = p
        /\ call'[c].j = call[c].j /\ call'[c].view = call[c].view
        /\ call'[c].stamp = call[c].stamp
    BY <1>1, <2>3 DEF RunningCalls
  <2>5. (\A on : Sending(call'[c], on) <=> on = "name") /\ HasSession(call'[c])
    BY <1>2, <2>4 DEF Sending, HasSession
  <2>6. StageFits(c, call'[c])
    BY <1>2, <2>4, <2>5, SessionsAssumption
    DEF StageFits, RunningFits, StartStages, AppendStages, StatusStages, IsStatus
  <2>7. SessionInHand(c, call'[c])
    BY <1>1, <2>4, <2>5 DEF RunningFits, SessionInHand
  <2>8. PageInHand(c, call'[c])
    BY <1>1, <2>4, <2>5 DEF PageInHand, HasPage
  <2>9. NothingMadeTwice(c, call'[c]) /\ FieldsInHand(c, call'[c])
    BY <2>5 DEF NothingMadeTwice, FieldsInHand
  <2>10. call'[c].stamp <= writes
    BY <1>1, <2>4 DEF RunningFits, TimesPast
  <2> QED BY <2>3, <2>5, <2>6, <2>7, <2>8, <2>9, <2>10, StageKeeps
<1> QED BY <1>2, <1>3, <1>4 DEF UpdatePage

\* A page is about to be made.
LEMMA PageSent ==
    ASSUME SessionsIInv, NEW c \in Calls, call[c].at \in Stages, UNCHANGED <<flags, history>>,
           HasSession(call[c]), call[c].view.named, NEW s \in RunningCalls,
           call' = [call EXCEPT ![c] = s], NEW b \in BOOLEAN, NEW time \in Nat, time <= writes,
           s.at = "sent", s.sent = [on |-> "newPage", initial |-> b, time |-> time],
           s.j = call[c].j, s.view = call[c].view, s.page = call[c].page, s.stamp <= writes,
           \/ Op[c] = "start" /\ s.then = "nameOverview" /\ b
           \/ Op[c] = "append" /\ s.then = "namePage" /\ ~b,
           \A p \in Pages : page[p] # None /\ page[p].journal = call[c].j =>
               IF b THEN ~page[p].initial ELSE ~page[p].initial => page[p].key # KeyOf[c]
    PROVE  SessionsIInv'
<1>1. call[c] \in RunningCalls /\ RunningFits(c, call[c]) /\ call \in [Calls -> CallStates]
  BY AtStage
<1>2. /\ call' \in [Calls -> CallStates] /\ \A d \in Calls \ {c} : call'[d] = call[d]
      /\ call'[c] = s
  BY <1>1 DEF CallStates
<1>3. /\ s.sent \in Writes /\ s.sent.on = "newPage" /\ s.sent.initial = b /\ s.sent.time = time
  BY DEF Writes
<1>4. /\ \A on : Sending(s, on) <=> on = "newPage"
      /\ HasSession(s)
  BY <1>3 DEF Sending, HasSession
<1>5. StageFits(c, s)
  BY <1>1, <1>3, <1>4, SessionsAssumption
  DEF StageFits, RunningFits, StartStages, AppendStages, StatusStages, IsStatus
<1>6. SessionInHand(c, s)
  BY <1>1, <1>4 DEF RunningFits, SessionInHand
<1>7. PageInHand(c, s) /\ FieldsInHand(c, s)
  BY <1>4 DEF PageInHand, HasPage, FieldsInHand
<1>8. NothingMadeTwice(c, s)
  BY <1>3, <1>4 DEF NothingMadeTwice
<1>9. s.at \in Stages /\ s.sent.time <= writes
  BY <1>3 DEF Stages, StartStages
<1> QED BY <1>2, <1>4, <1>5, <1>6, <1>7, <1>8, <1>9, StageKeeps

\* From a stage in which the session is in hand to another, without a write.
LEMMA StageReached ==
    ASSUME SessionsIInv, NEW c \in Calls, call[c].at \in Stages, UNCHANGED <<flags, history>>,
           HasSession(call[c]), call[c].view.named, NEW s \in RunningCalls,
           call' = [call EXCEPT ![c] = s], s.j = call[c].j, s.view = call[c].view,
           s.stamp = call[c].stamp, s.page \in Pages, page[s.page] # None, page[s.page].named,
           \/ /\ Op[c] = "start" /\ s.at = "link"
              /\ page[s.page].initial /\ page[s.page].journal = call[c].j
           \/ Op[c] = "append" /\ s.at = "complete"
    PROVE  SessionsIInv'
<1>1. call[c] \in RunningCalls /\ RunningFits(c, call[c]) /\ call \in [Calls -> CallStates]
  BY AtStage
<1>2. /\ call' \in [Calls -> CallStates] /\ \A d \in Calls \ {c} : call'[d] = call[d]
      /\ call'[c] = s
  BY <1>1 DEF CallStates
<1>3. (\A on : ~Sending(s, on)) /\ HasSession(s)
  BY DEF Sending, HasSession
<1>4. StageFits(c, s)
  BY <1>1, <1>3, SessionsAssumption
  DEF StageFits, RunningFits, StartStages, AppendStages, StatusStages, IsStatus
<1>5. SessionInHand(c, s)
  BY <1>1, <1>3 DEF RunningFits, SessionInHand
<1>6. PageInHand(c, s) /\ FieldsInHand(c, s) /\ NothingMadeTwice(c, s)
  BY <1>3 DEF PageInHand, HasPage, FieldsInHand, NothingMadeTwice
<1>7. s.stamp <= writes
  BY <1>1 DEF RunningFits, TimesPast
<1> QED BY <1>2, <1>3, <1>4, <1>5, <1>6, <1>7, StageKeeps

LEMMA StageOf ==
    ASSUME SessionsIInv, NEW c \in Calls,
           call[c].at \in {"overview", "link", "nameOverview", "linkNew", "append", "complete",
                           "namePage", "touch", "status"}
    PROVE  /\ call[c].at \in Stages /\ HasSession(call[c])
           /\ call[c].at \in {"overview", "link", "nameOverview", "linkNew"} => Op[c] = "start"
           /\ call[c].at \in {"append", "complete", "namePage", "touch"} => Op[c] = "append"
           /\ call[c].at = "status" => IsStatus(c)
           /\ call[c] \in RunningCalls /\ call \in [Calls -> CallStates]
           /\ call[c].j \in Known /\ call[c].view \in SessionFlags /\ call[c].view.named
           /\ call[c].view.updatedAt <= writes /\ call[c].view.startedAt <= writes
           /\ call[c].view.initial # None =>
                 /\ page[call[c].view.initial] # None /\ page[call[c].view.initial].initial
                 /\ page[call[c].view.initial].journal = call[c].j
           /\ journal[call[c].j].named /\ call[c].stamp <= writes
           /\ call[c].view.initial # None => journal[call[c].j].initial = call[c].view.initial
           /\ HasPage(c, call[c]) =>
                 /\ call[c].page \in Pages /\ page[call[c].page] # None
                 /\ Op[c] = "start" =>
                       page[call[c].page].initial /\ page[call[c].page].journal = call[c].j
                 /\ call[c].at \notin {"nameOverview", "namePage"} => page[call[c].page].named
<1>1. call[c].at \in Stages /\ HasSession(call[c]) /\ call[c].at # "adopt"
      /\ \A on : ~Sending(call[c], on)
  BY DEF Stages, StartStages, AppendStages, StatusStages, HasSession, Sending
<1>2. call[c] \in RunningCalls /\ RunningFits(c, call[c]) /\ call \in [Calls -> CallStates]
  BY <1>1, AtStage
<1>3. /\ call[c].at \in {"overview", "link", "nameOverview", "linkNew"} => Op[c] = "start"
      /\ call[c].at \in {"append", "complete", "namePage", "touch"} => Op[c] = "append"
      /\ call[c].at = "status" => IsStatus(c)
  BY <1>2, SessionsAssumption
  DEF RunningFits, StageFits, StartStages, AppendStages, StatusStages, IsStatus
<1>4. SessionInHand(c, call[c]) /\ PageInHand(c, call[c]) /\ TimesPast(call[c])
  BY <1>2 DEF RunningFits
<1>5. /\ call[c].j \in Known /\ call[c].view \in SessionFlags /\ call[c].view.named
      /\ call[c].view.updatedAt <= writes /\ call[c].view.startedAt <= writes
      /\ call[c].view.initial # None => journal[call[c].j].initial = call[c].view.initial
      /\ journal[call[c].j].named /\ call[c].stamp <= writes
  BY <1>1, <1>4 DEF SessionInHand, TimesPast
<1>6. call[c].view.initial # None =>
          /\ page[call[c].view.initial] # None /\ page[call[c].view.initial].initial
          /\ page[call[c].view.initial].journal = call[c].j
  BY <1>5 DEF SessionsIInv, World
<1>7. HasPage(c, call[c]) =>
          /\ call[c].page \in Pages /\ page[call[c].page] # None
          /\ Op[c] = "start" =>
                page[call[c].page].initial /\ page[call[c].page].journal = call[c].j
          /\ call[c].at \notin {"nameOverview", "namePage"} => page[call[c].page].named
  BY <1>1, <1>4 DEF PageInHand
<1> QED BY <1>1, <1>2, <1>3, <1>5, <1>6, <1>7

LEMMA AnswerKeeps ==
    ASSUME SessionsIInv, NEW c \in Calls, UNCHANGED <<flags, history>>,
           call[c].at \in {"link", "complete", "status"}, AnswerOk(c, call[c].view),
           call[c].at = "link" => call[c].view.initial = call[c].page
    PROVE  SessionsIInv'
<1>1. /\ call[c].at \in Stages /\ call[c] \in RunningCalls /\ call \in [Calls -> CallStates]
      /\ RunningFits(c, call[c]) /\ call[c].j \in Known /\ call[c].view \in SessionFlags
      /\ journal[call[c].j].named
      /\ call[c].view.initial # None => journal[call[c].j].initial = call[c].view.initial
  BY StageOf, AtStage
<1>2. call[c].j \in Journals
  BY <1>1 DEF Known
<1>3. /\ call' \in [Calls -> CallStates] /\ \A d \in Calls \ {c} : call'[d] = call[d]
      /\ call'[c] = [at |-> "ok", j |-> call[c].j, page |-> call[c].page, view |-> call[c].view]
      /\ call'[c] \in AnsweredCalls
  BY <1>1, <1>2, AnswerEffect
<1>4. /\ call'[c].at = "ok" /\ call'[c].j = call[c].j /\ call'[c].page = call[c].page
  BY <1>3
<1>5. /\ call[c].page # None => page[call[c].page] # None /\ page[call[c].page].named
      /\ Op[c] = "start" => call[c].page # None /\ journal[call[c].j].initial = call[c].page
  <2>1. CASE call[c].at = "status"
    <3>1. IsStatus(c) /\ call[c].page = None
      BY <1>1, <2>1, StageOf DEF RunningFits, StageFits
    <3> QED BY <3>1 DEF IsStatus
  <2>2. CASE call[c].at \in {"link", "complete"}
    <3>1. HasPage(c, call[c])
      BY <2>2 DEF HasPage
    <3>2. /\ call[c].page \in Pages /\ page[call[c].page] # None /\ page[call[c].page].named
          /\ Op[c] = "start" => call[c].at = "link"
      BY <2>2, <3>1, StageOf
    <3>3. call[c].page # None
      BY <3>2, SessionsAssumption
    <3> QED BY <1>1, <3>2, <3>3
  <2> QED BY <2>1, <2>2
<1>6. AnswerFits(c, call'[c])
  BY <1>1, <1>3, <1>4, <1>5 DEF AnswerFits
<1>7. CallFits(c, call'[c]) /\ call'[c].at \notin Stages /\ ~Sending(call'[c], "folder")
  BY <1>3, <1>4, <1>6
  DEF CallFits, CallStates, Stages, StartStages, AppendStages, StatusStages, Sending
<1> QED BY <1>3, <1>7, MoveKeeps

LEMMA EnsureInitialPageKeeps ==
    ASSUME SessionsIInv, NEW c \in Calls, EnsureInitialPage(c)
    PROVE  SessionsIInv'
<1>1. call[c].at = "overview" /\ UNCHANGED <<flags, history>>
  BY DEF EnsureInitialPage, Step
<1>2. /\ call[c].at \in Stages /\ HasSession(call[c]) /\ Op[c] = "start"
      /\ call[c] \in RunningCalls /\ call \in [Calls -> CallStates]
      /\ call[c].j \in Known /\ call[c].view \in SessionFlags /\ call[c].view.named
      /\ call[c].view.startedAt <= writes /\ call[c].stamp <= writes
  BY <1>1, StageOf
<1>3. CASE InitialPage(c) # {}
  <2> DEFINE p == Least(InitialPage(c))
  <2>1. InitialPage(c) \subseteq Nat
    BY SessionsAssumption DEF InitialPage, PagesOf
  <2>2. p \in InitialPage(c)
    BY <1>3, <2>1, LeastIsMember
  <2>3. p \in Pages /\ page[p] # None /\ page[p].initial /\ page[p].journal = call[c].j
    BY <2>2 DEF InitialPage, PagesOf
  <2>4. IF page[p].named THEN call' = [call EXCEPT ![c].at = "link", ![c].page = p]
        ELSE UpdatePage(c, p, page[p].rev, "link")
    BY <1>3 DEF EnsureInitialPage
  <2> HIDE DEF p
  <2>5. CASE page[p].named
    <3> DEFINE s == [call[c] EXCEPT !.at = "link", !.page = p]
    <3>1. s \in RunningCalls
      BY <1>2, <2>3 DEF RunningCalls, Stages, StartStages
    <3>2. call' = [call EXCEPT ![c] = s]
      BY <2>4, <2>5
    <3>3. /\ s.at = "link" /\ s.page = p /\ s.j = call[c].j /\ s.view = call[c].view
          /\ s.stamp = call[c].stamp
      BY <1>2 DEF RunningCalls
    <3> HIDE DEF s
    <3> QED BY <1>1, <1>2, <2>3, <2>5, <3>1, <3>2, <3>3, StageReached
  <2>6. CASE ~page[p].named
    BY <1>1, <1>2, <2>3, <2>4, <2>6, NameSent
  <2> QED BY <2>5, <2>6
<1>4. CASE InitialPage(c) = {}
  <2> DEFINE w == [on |-> "newPage", initial |-> TRUE, time |-> call[c].view.startedAt]
             s == [call[c] EXCEPT !.sent = w, !.then = "nameOverview", !.at = "sent"]
  <2>1. call[c].view.startedAt \in Nat
    BY <1>2 DEF SessionFlags
  <2>2. w \in Writes
    BY <2>1, CreationsAreWrites
  <2>3. Send(c, w, "nameOverview")
    BY <1>4 DEF EnsureInitialPage
  <2>4. w = [on |-> "newPage", initial |-> TRUE, time |-> call[c].view.startedAt]
    OBVIOUS
  <2> HIDE DEF w
  <2>5. call' = [call EXCEPT ![c] = s]
    BY <2>3 DEF Send
  <2>6. s \in RunningCalls
    BY <1>2, <2>2 DEF RunningCalls, Stages, StartStages
  <2>7. /\ s.at = "sent" /\ s.sent = w /\ s.then = "nameOverview" /\ s.j = call[c].j
        /\ s.view = call[c].view /\ s.page = call[c].page /\ s.stamp = call[c].stamp
    BY <1>2 DEF RunningCalls
  <2>8. \A p \in Pages : page[p] # None /\ page[p].journal = call[c].j => ~page[p].initial
    BY <1>4 DEF InitialPage, PagesOf
  <2> HIDE DEF s
  <2>9. s.sent = [on |-> "newPage", initial |-> TRUE, time |-> call[c].view.startedAt]
    BY <2>4, <2>7
  <2> QED
    <3>1. Op[c] = "start" /\ s.then = "nameOverview" /\ TRUE
      BY <1>2, <2>7
    <3>2. \A p \in Pages : page[p] # None /\ page[p].journal = call[c].j =>
              IF TRUE THEN ~page[p].initial ELSE ~page[p].initial => page[p].key # KeyOf[c]
      BY <2>8
    <3>3. TRUE \in BOOLEAN /\ s.stamp <= writes
      BY <1>2, <2>7
    <3> QED
      BY <1>1, <1>2, <2>1, <2>5, <2>6, <2>7, <2>9, <3>1, <3>2, <3>3, PageSent, Zenon
<1> QED BY <1>3, <1>4

LEMMA NameNewPageKeeps ==
    ASSUME SessionsIInv, NEW c \in Calls, NEW at, NEW t, NameNewPage(c, at, t),
           \/ at = "nameOverview" /\ t = "linkNew"
           \/ at = "namePage" /\ t = "touch"
    PROVE  SessionsIInv'
<1>1. call[c].at = at /\ UNCHANGED <<flags, history>>
      /\ UpdatePage(c, call[c].page, call[c].hash, t)
  BY DEF NameNewPage, Step
<1>2. HasPage(c, call[c])
  BY <1>1 DEF HasPage
<1>3. /\ call[c].at \in Stages /\ HasSession(call[c]) /\ call[c].view.named
      /\ call[c].page \in Pages /\ page[call[c].page] # None
      /\ at = "nameOverview" =>
            Op[c] = "start" /\ page[call[c].page].initial /\ page[call[c].page].journal = call[c].j
      /\ at = "namePage" => Op[c] = "append"
  BY <1>1, <1>2, StageOf
<1> QED BY <1>1, <1>3, NameSent

\* The link to the overview is about to be written, whatever hash it compares.
LEMMA LinkKeeps ==
    ASSUME SessionsIInv, NEW c \in Calls, UNCHANGED <<flags, history>>,
           call[c].at \in {"link", "linkNew"}, NEW expected,
           UpdateJournal(c, expected, [Metadata(call[c].view) EXCEPT !.initial = call[c].page], "ok")
    PROVE  SessionsIInv'
<1> DEFINE f == [Metadata(call[c].view) EXCEPT !.initial = call[c].page]
<1>2. HasPage(c, call[c])
  BY DEF HasPage
<1>3. /\ call[c].at \in Stages /\ HasSession(call[c]) /\ call[c].view.named /\ Op[c] = "start"
      /\ call[c].view \in SessionFlags /\ call[c].view.updatedAt <= writes
      /\ call[c].page \in Pages /\ page[call[c].page] # None /\ page[call[c].page].named
      /\ page[call[c].page].initial /\ page[call[c].page].journal = call[c].j
  BY <1>2, StageOf
<1>4. /\ f \in Fields /\ f.status = call[c].view.status /\ f.initial = call[c].page
      /\ f.updatedAt = call[c].view.updatedAt
  BY <1>3, MetadataSays
<1>5. UpdateJournal(c, expected, f, "ok")
  OBVIOUS
<1> HIDE DEF f
<1>6. CASE Refuse(c)
  BY <1>6, FailKeeps
<1>7. CASE Send(c, [on |-> "journal", fields |-> f], "ok")
  <2>1. f \in Fields \cup StatusFields /\ "ok" \in Stages \cup {"ok"} /\ ~IsStatus(c)
    BY <1>3, <1>4 DEF IsStatus
  <2> QED
    BY <1>2, <1>3, <1>4, <1>7, <2>1, JournalSent
<1> QED BY <1>5, <1>6, <1>7 DEF UpdateJournal

LEMMA LinkInitialPageKeeps ==
    ASSUME SessionsIInv, NEW c \in Calls, LinkInitialPage(c)
    PROVE  SessionsIInv'
<1>1. call[c].at = "link" /\ UNCHANGED <<flags, history>>
  BY DEF LinkInitialPage, Step
<1>2. CASE call[c].view.initial = call[c].page
  BY <1>1, <1>2, AnswerKeeps DEF LinkInitialPage
<1>3. CASE call[c].view.initial # call[c].page
  BY <1>1, <1>3, LinkKeeps DEF LinkInitialPage
<1> QED BY <1>2, <1>3

LEMMA LinkNewPageKeeps ==
    ASSUME SessionsIInv, NEW c \in Calls, LinkNewPage(c)
    PROVE  SessionsIInv'
BY LinkKeeps DEF LinkNewPage, Step

----------------------------------------------------------------------------
(* sessions.append, sessions.end and sessions.reopen.                      *)

LEMMA FindSessionKeeps ==
    ASSUME SessionsIInv, NEW c \in Calls, NEW t, FindSession(c, t),
           \/ Op[c] = "append" /\ t = "append"
           \/ IsStatus(c) /\ t = "status"
    PROVE  SessionsIInv'
<1>1. call[c].at = "find" /\ UNCHANGED <<flags, history>>
  BY DEF FindSession, Step
<1>2. CASE Target[c] \in Known
  BY <1>1, <1>2, RepairKeeps DEF FindSession
<1>3. CASE Target[c] \notin Known
  BY <1>1, <1>3, FailKeeps DEF FindSession
<1> QED BY <1>2, <1>3

LEMMA AppendPageKeeps ==
    ASSUME SessionsIInv, NEW c \in Calls, AppendPage(c)
    PROVE  SessionsIInv'
<1>1. call[c].at = "append" /\ UNCHANGED <<flags, history>>
  BY DEF AppendPage, Step
<1>2. /\ call[c].at \in Stages /\ HasSession(call[c]) /\ Op[c] = "append"
      /\ call[c] \in RunningCalls /\ call \in [Calls -> CallStates]
      /\ call[c].j \in Known /\ call[c].view \in SessionFlags /\ call[c].view.named
  BY <1>1, StageOf
<1>3. writes \in Nat /\ writes <= writes
  BY DEF SessionsIInv, World
<1>4. CASE call[c].view.status # "open"
  BY <1>1, <1>4, FailKeeps DEF AppendPage
<1>5. CASE call[c].view.status = "open" /\ Duplicate(c) = {}
  <2> DEFINE w == [on |-> "newPage", initial |-> FALSE, time |-> writes]
             s == [call[c] EXCEPT !.at = "sent", !.then = "namePage", !.stamp = writes, !.sent = w]
  <2>2. w \in Writes
    BY <1>3, CreationsAreWrites
  <2>3. CreatePage(c)
    BY <1>5 DEF AppendPage
  <2>4. w = [on |-> "newPage", initial |-> FALSE, time |-> writes]
    OBVIOUS
  <2>5. call' = [call EXCEPT ![c] = s]
    BY <2>3 DEF CreatePage
  <2> HIDE DEF w
  <2>6. s \in RunningCalls
    BY <1>2, <1>3, <2>2 DEF RunningCalls, Stages, StartStages, AppendStages
  <2>7. /\ s.at = "sent" /\ s.sent = w /\ s.then = "namePage" /\ s.j = call[c].j
        /\ s.view = call[c].view /\ s.page = call[c].page /\ s.stamp = writes
    BY <1>2 DEF RunningCalls
  <2>8. \A p \in Pages : page[p] # None /\ page[p].journal = call[c].j => page[p].key # KeyOf[c]
    BY <1>5 DEF Duplicate, PagesOf
  <2> HIDE DEF s
  <2>9. s.sent = [on |-> "newPage", initial |-> FALSE, time |-> writes]
    BY <2>4, <2>7
  <2>10. Op[c] = "append" /\ s.then = "namePage" /\ ~FALSE
    BY <1>2, <2>7
  <2>11. \A p \in Pages : page[p] # None /\ page[p].journal = call[c].j =>
              IF FALSE THEN ~page[p].initial ELSE ~page[p].initial => page[p].key # KeyOf[c]
    BY <2>8
  <2>12. FALSE \in BOOLEAN /\ s.stamp <= writes
    BY <1>3, <2>7
  <2> QED
    BY <1>1, <1>2, <1>3, <2>5, <2>6, <2>7, <2>9, <2>10, <2>11, <2>12, PageSent, Zenon
<1>6. CASE call[c].view.status = "open" /\ Duplicate(c) # {}
  <2> DEFINE p == Least(Duplicate(c))
  <2>1. Duplicate(c) \subseteq Nat
    BY SessionsAssumption DEF Duplicate, PagesOf
  <2>2. p \in Duplicate(c)
    BY <1>6, <2>1, LeastIsMember
  <2>3. p \in Pages /\ page[p] # None
    BY <2>2 DEF Duplicate, PagesOf
  <2>4. IF page[p].named THEN call' = [call EXCEPT ![c].at = "complete", ![c].page = p]
        ELSE UpdatePage(c, p, page[p].rev, "complete")
    BY <1>6 DEF AppendPage
  <2> HIDE DEF p
  <2>5. CASE page[p].named
    <3> DEFINE s == [call[c] EXCEPT !.at = "complete", !.page = p]
    <3>1. s \in RunningCalls
      BY <1>2, <2>3 DEF RunningCalls, Stages, AppendStages
    <3>2. call' = [call EXCEPT ![c] = s]
      BY <2>4, <2>5
    <3>3. /\ s.at = "complete" /\ s.page = p /\ s.j = call[c].j /\ s.view = call[c].view
          /\ s.stamp = call[c].stamp
      BY <1>2 DEF RunningCalls
    <3> HIDE DEF s
    <3> QED BY <1>1, <1>2, <2>3, <2>5, <3>1, <3>2, <3>3, StageReached
  <2>6. CASE ~page[p].named
    BY <1>1, <1>2, <2>3, <2>4, <2>6, NameSent
  <2> QED BY <2>5, <2>6
<1> QED BY <1>4, <1>5, <1>6

LEMMA TouchKeeps ==
    ASSUME SessionsIInv, NEW c \in Calls, UNCHANGED <<flags, history>>,
           call[c].at \in {"complete", "touch"}, NEW time \in Nat, time <= writes, Touch(c, time)
    PROVE  SessionsIInv'
<1> DEFINE f == [Metadata(call[c].view) EXCEPT !.updatedAt = time]
<1>1. HasPage(c, call[c])
  BY DEF HasPage
<1>2. /\ call[c].at \in Stages /\ HasSession(call[c]) /\ call[c].view.named /\ Op[c] = "append"
      /\ call[c].view \in SessionFlags /\ page[call[c].page].named
      /\ call[c].view.initial # None =>
            /\ page[call[c].view.initial] # None /\ page[call[c].view.initial].initial
            /\ page[call[c].view.initial].journal = call[c].j
  BY <1>1, StageOf
<1>3. /\ f \in Fields /\ f.status = call[c].view.status /\ f.initial = call[c].view.initial
      /\ f.updatedAt = time
  BY <1>2, MetadataSays
<1>4. UpdateJournal(c, journal[call[c].j].rev, f, "ok")
  BY DEF Touch
<1> HIDE DEF f
<1>5. CASE Refuse(c)
  BY <1>5, FailKeeps
<1>6. CASE Send(c, [on |-> "journal", fields |-> f], "ok")
  <2>1. f \in Fields \cup StatusFields /\ "ok" \in Stages \cup {"ok"} /\ ~IsStatus(c)
        /\ Op[c] # "start"
    BY <1>2, <1>3 DEF IsStatus
  <2> QED
    BY <1>1, <1>2, <1>3, <1>6, <2>1, JournalSent
<1> QED BY <1>4, <1>5, <1>6 DEF UpdateJournal

LEMMA CompleteExistingAppendKeeps ==
    ASSUME SessionsIInv, NEW c \in Calls, CompleteExistingAppend(c)
    PROVE  SessionsIInv'
<1>1. call[c].at = "complete" /\ UNCHANGED <<flags, history>>
  BY DEF CompleteExistingAppend, Step
<1>2. HasPage(c, call[c])
  BY <1>1 DEF HasPage
<1>3. call[c].page \in Pages /\ page[call[c].page] # None
  BY <1>1, <1>2, StageOf
<1>4. page[call[c].page].at \in Nat /\ page[call[c].page].at <= writes
  BY <1>3 DEF SessionsIInv, World, PageFlags
<1>5. CASE call[c].view.updatedAt >= page[call[c].page].at
  BY <1>1, <1>5, AnswerKeeps DEF CompleteExistingAppend
<1>6. CASE ~(call[c].view.updatedAt >= page[call[c].page].at)
  BY <1>1, <1>4, <1>6, TouchKeeps DEF CompleteExistingAppend
<1> QED BY <1>5, <1>6

LEMMA FinishAppendKeeps ==
    ASSUME SessionsIInv, NEW c \in Calls, FinishAppend(c)
    PROVE  SessionsIInv'
<1>1. call[c].at = "touch" /\ UNCHANGED <<flags, history>> /\ Touch(c, call[c].stamp)
  BY DEF FinishAppend, Step
<1>2. call[c].stamp \in Nat /\ call[c].stamp <= writes
  BY <1>1, StageOf DEF RunningCalls
<1> QED BY <1>1, <1>2, TouchKeeps

LEMMA SetStatusKeeps ==
    ASSUME SessionsIInv, NEW c \in Calls, SetStatus(c)
    PROVE  SessionsIInv'
<1> DEFINE f == [named |-> call[c].view.named, initial |-> call[c].view.initial,
                 status |-> IF Op[c] = "end" THEN "ended" ELSE "open",
                 updatedAt |-> writes, statusKeys |-> NextKeys(c)]
<1>1. call[c].at = "status" /\ UNCHANGED <<flags, history>>
  BY DEF SetStatus, Step
<1>2. /\ call[c].at \in Stages /\ HasSession(call[c]) /\ call[c].view.named /\ IsStatus(c)
      /\ call[c].view \in SessionFlags
      /\ call[c].view.initial # None =>
            /\ page[call[c].view.initial] # None /\ page[call[c].view.initial].initial
            /\ page[call[c].view.initial].journal = call[c].j
  BY <1>1, StageOf
<1>3. writes \in Nat /\ writes <= writes
  BY DEF SessionsIInv, World
<1>4. CASE KeyOf[c] \in PriorKeys(c)
  BY <1>1, <1>4, AnswerKeeps DEF SetStatus
<1>5. CASE KeyOf[c] \notin PriorKeys(c)
  <2>1. call[c].view.statusKeys \cup {KeyOf[c]} \in SUBSET Keys
    BY <1>2 DEF SessionFlags, Keys
  <2>2. /\ f \in StatusFields /\ f.updatedAt = writes /\ f.initial = call[c].view.initial
        /\ f.statusKeys = call[c].view.statusKeys \cup {KeyOf[c]}
    BY <1>2, <1>3, <2>1 DEF StatusFields, SessionFlags, NextKeys, PriorKeys
  <2>3. UpdateJournal(c, call[c].view.rev, f, "ok")
    BY <1>5 DEF SetStatus
  <2> HIDE DEF f
  <2>4. CASE Refuse(c)
    BY <1>1, <2>4, FailKeeps
  <2>5. CASE Send(c, [on |-> "journal", fields |-> f], "ok")
    <3>1. f \in Fields \cup StatusFields /\ "ok" \in Stages \cup {"ok"}
          /\ KeyOf[c] \notin call[c].view.statusKeys /\ Op[c] # "start"
      BY <1>2, <1>5, <2>2 DEF IsStatus, PriorKeys
    <3> QED
      BY <1>1, <1>2, <1>3, <2>2, <2>5, <3>1, JournalSent
  <2> QED BY <2>3, <2>4, <2>5 DEF UpdateJournal
<1> QED BY <1>4, <1>5

----------------------------------------------------------------------------
(* A write takes effect.                                                   *)

\* What no write undoes.
Grows ==
    /\ \A j \in Known :
          /\ journal'[j] # None /\ journal'[j].startKey = journal[j].startKey
          /\ journal[j].rev <= journal'[j].rev
          /\ journal[j].named => journal'[j].named
          /\ journal[j].initial # None => journal'[j].initial = journal[j].initial
    /\ \A p \in Pages : page[p] # None =>
          /\ page'[p] # None /\ page'[p].journal = page[p].journal
          /\ page'[p].initial = page[p].initial /\ page'[p].key = page[p].key
          /\ page[p].named => page'[p].named

\* What a write of c may not do to another call.
Spares(d) ==
    call[d].at \in Stages =>
        /\ call[d].at # "find" /\ ~HasSession(call[d]) =>
              \A j \in Journals : journal'[j] # None /\ journal[j] = None =>
                                      journal'[j].startKey # KeyOf[d]
        /\ Sending(call[d], "folder") => folder' = folder
        /\ HasSession(call[d]) =>
              /\ Op[d] # "start" => journal'[call[d].j].statusKeys = journal[call[d].j].statusKeys
              /\ ~overlap => journal'[call[d].j].status = journal[call[d].j].status
        /\ Sending(call[d], "newPage") =>
              \A p \in Pages : page'[p] # None /\ page[p] = None /\ page'[p].journal = call[d].j =>
                  IF call[d].sent.initial THEN ~page'[p].initial
                  ELSE ~page'[p].initial => page'[p].key # KeyOf[d]

LEMMA OthersKeep ==
    ASSUME SessionsIInv, NEW d \in Calls, call'[d] = call[d], UNCHANGED overlap,
           writes' = writes + 1, journal' \in [Journals -> SessionFlags \cup {None}],
           Grows, Spares(d)
    PROVE  CallFits(d, call[d])'
<1>1. call[d] \in CallStates /\ CallFits(d, call[d]) /\ writes \in Nat
  BY DEF SessionsIInv, CallsFit, World
<1>2. \A j \in Known : j \in Known'
  BY DEF Grows, Known
<1>3. ASSUME call[d].at = "ok" PROVE AnswerFits(d, call[d])'
  <2>1. AnswerFits(d, call[d])
    BY <1>1, <1>3 DEF CallFits
  <2> QED BY <2>1, <1>2, SessionsAssumption DEF AnswerFits, AnsweredCalls, Grows, Known
<1>4. ASSUME call[d].at \in Stages PROVE RunningFits(d, call[d])'
  <2>1. RunningFits(d, call[d]) /\ call[d] \in RunningCalls
    BY <1>4, AtStage
  <2>2. StageFits(d, call[d])'
    BY <2>1 DEF RunningFits, StageFits, IsStatus, Sending
  <2>3. TimesPast(call[d])'
    <3>1. call[d].stamp \in Nat /\ call[d].stamp <= writes
      BY <2>1 DEF RunningFits, TimesPast, RunningCalls
    <3>2. Sending(call[d], "newPage") => call[d].sent.time \in Nat /\ call[d].sent.time <= writes
      BY <2>1 DEF RunningFits, TimesPast, StageFits, Sending, Writes
    <3> QED BY <1>1, <3>1, <3>2 DEF TimesPast, Sending
  <2>4. SessionInHand(d, call[d])'
    <3> SUFFICES ASSUME HasSession(call[d]) PROVE SessionInHand(d, call[d])'
      BY <1>1, <2>1 DEF RunningFits, SessionInHand, HasSession, Sending
    <3>0. call[d].j \in Known /\ call[d].j \in Journals
      BY <2>1 DEF RunningFits, SessionInHand, Known
    <3> DEFINE old == journal[call[d].j]
               new == journal'[call[d].j]
               view == call[d].view
    <3>1. /\ view \in SessionFlags /\ view.rev <= old.rev
          /\ Op[d] = "start" => old.startKey = KeyOf[d]
          /\ Op[d] # "start" => call[d].j = Target[d] /\ view.statusKeys = old.statusKeys
          /\ view.startedAt <= writes /\ view.updatedAt <= writes
          /\ view.initial # None => old.initial = view.initial
          /\ view.named => old.named
          /\ call[d].at # "adopt" /\ ~Sending(call[d], "journal") => view.named
          /\ ~overlap => view.status = old.status
      BY <2>1 DEF RunningFits, SessionInHand
    <3>2. /\ new # None /\ new.startKey = old.startKey /\ old.rev <= new.rev
          /\ old.named => new.named
          /\ old.initial # None => new.initial = old.initial
      BY <3>0 DEF Grows
    <3>3. /\ Op[d] # "start" => new.statusKeys = old.statusKeys
          /\ ~overlap => new.status = old.status
      BY <1>4 DEF Spares
    <3>4. old \in SessionFlags /\ new \in SessionFlags
      BY <3>0, <3>2 DEF SessionsIInv, World, Known
    <3>5. view.rev <= new.rev
      <4>1. view.rev \in Nat /\ old.rev \in Nat /\ new.rev \in Nat
        BY <3>1, <3>4 DEF SessionFlags
      <4> QED BY <4>1, <3>1, <3>2
    <3>6. view.startedAt <= writes' /\ view.updatedAt <= writes'
      <4>1. view.startedAt \in Nat /\ view.updatedAt \in Nat
        BY <3>1 DEF SessionFlags
      <4> QED BY <4>1, <3>1, <1>1
    <3>7. call[d].j \in Known'
      BY <3>0, <1>2
    <3>8. /\ Op[d] = "start" => new.startKey = KeyOf[d]
          /\ Op[d] # "start" => call[d].j = Target[d] /\ view.statusKeys = new.statusKeys
          /\ view.initial # None => new.initial = view.initial
          /\ view.named => new.named
          /\ ~overlap' => view.status = new.status
      BY <3>1, <3>2, <3>3
    <3> QED BY <3>1, <3>5, <3>6, <3>7, <3>8 DEF SessionInHand, Sending
  <2>5. PageInHand(d, call[d])'
    BY <2>1 DEF RunningFits, PageInHand, HasPage, Sending, IsStatus, Grows
  <2>6. NothingMadeTwice(d, call[d])'
    <3>1. /\ call[d].at # "find" /\ ~HasSession(call[d]) =>
                \A j \in Known : journal[j].startKey # KeyOf[d]
          /\ Sending(call[d], "folder") => folder = 0
          /\ Sending(call[d], "newPage") =>
                \A p \in Pages : page[p] # None /\ page[p].journal = call[d].j =>
                    IF call[d].sent.initial THEN ~page[p].initial
                    ELSE ~page[p].initial => page[p].key # KeyOf[d]
      BY <2>1 DEF RunningFits, NothingMadeTwice
    <3>2. ASSUME call[d].at # "find", ~HasSession(call[d]), NEW j \in Journals, journal'[j] # None
          PROVE  journal'[j].startKey # KeyOf[d]
      <4>1. CASE journal[j] = None
        BY <1>4, <3>2, <4>1 DEF Spares
      <4>2. CASE journal[j] # None
        BY <3>1, <3>2, <4>2 DEF Grows, Known
      <4> QED BY <4>1, <4>2
    <3>3. ASSUME Sending(call[d], "newPage"), NEW p \in Pages, page'[p] # None,
                 page'[p].journal = call[d].j
          PROVE  IF call[d].sent.initial THEN ~page'[p].initial
                 ELSE ~page'[p].initial => page'[p].key # KeyOf[d]
      <4>1. CASE page[p] = None
        BY <1>4, <3>3, <4>1 DEF Spares
      <4>2. CASE page[p] # None
        <5>1. /\ page'[p].journal = page[p].journal /\ page'[p].initial = page[p].initial
              /\ page'[p].key = page[p].key
          BY <4>2 DEF Grows
        <5> QED BY <3>1, <3>3, <4>2, <5>1
      <4> QED BY <4>1, <4>2
    <3>4. Sending(call[d], "folder") => folder' = 0
      BY <1>4, <3>1 DEF Spares
    <3> QED BY <3>2, <3>3, <3>4 DEF NothingMadeTwice, HasSession, Sending, Known
  <2>7. FieldsInHand(d, call[d])'
    <3> SUFFICES ASSUME Sending(call[d], "journal") PROVE FieldsInHand(d, call[d])'
      BY DEF FieldsInHand, Sending
    <3> DEFINE fields == call[d].sent.fields
    <3>0. fields.updatedAt \in Nat /\ fields.initial \in Pages \cup {None}
      <4>1. fields \in Fields \/ fields \in StatusFields
        BY <2>1 DEF RunningFits, FieldsInHand
      <4> QED BY <4>1 DEF Fields, StatusFields
    <3>1. HasSession(call[d])
      BY DEF HasSession, Sending
    <3>2. /\ fields.updatedAt <= writes
          /\ fields.initial # None =>
                /\ page[fields.initial] # None
                /\ page[fields.initial].journal = call[d].j /\ page[fields.initial].initial
          /\ Op[d] = "start" /\ call[d].then = "ok" => fields.initial = call[d].page
          /\ SetsStatus(d, call[d]) =>
                /\ fields \in StatusFields
                /\ KeyOf[d] \notin call[d].view.statusKeys
                /\ fields.statusKeys = call[d].view.statusKeys \cup {KeyOf[d]}
          /\ ~SetsStatus(d, call[d]) =>
                fields \in Fields /\ (~overlap => fields.status = journal[call[d].j].status)
      BY <2>1 DEF RunningFits, FieldsInHand
    <3>3. fields.updatedAt <= writes'
      BY <3>0, <3>2, <1>1
    <3>4. fields.initial # None =>
                /\ page'[fields.initial] # None
                /\ page'[fields.initial].journal = call[d].j /\ page'[fields.initial].initial
      BY <3>0, <3>2 DEF Grows
    <3>5. ~overlap => journal'[call[d].j].status = journal[call[d].j].status
      BY <1>4, <3>1 DEF Spares
    <3> QED BY <3>2, <3>3, <3>4, <3>5 DEF FieldsInHand, SetsStatus, IsStatus
  <2> QED BY <2>1, <2>2, <2>3, <2>4, <2>5, <2>6, <2>7 DEF RunningFits
<1> QED BY <1>1, <1>3, <1>4 DEF CallFits

LEMMA LockedKeeps ==
    ASSUME SessionsIInv, NEW c \in Calls, call' \in [Calls -> CallStates],
           \A d \in Calls \ {c} : call'[d] = call[d], call[c].at \in Stages,
           UNCHANGED overlap, call'[c].at # "sent"
    PROVE  Locked'
<1>1. \A d \in Calls : Running(d)' => Running(d)
  BY AtStage DEF Running
<1>2. ~Sending(call'[c], "folder")
  BY DEF Sending
<1> SUFFICES ASSUME NEW a \in Calls, NEW b \in Calls, a # b, Running(a)', Running(b)'
             PROVE  /\ LockOf(a) # LockOf(b)
                    /\ ~overlap' => ~(Op[a] = "start" /\ IsStatus(b))
                    /\ Sending(call'[a], "folder") => ~Sending(call'[b], "folder")
  BY DEF Locked, LockOf, IsStatus, Sending
<1>3. Running(a) /\ Running(b)
  BY <1>1
<1>4. /\ LockOf(a) # LockOf(b)
      /\ ~overlap => ~(Op[a] = "start" /\ IsStatus(b))
      /\ Sending(call[a], "folder") => ~Sending(call[b], "folder")
  BY <1>3 DEF SessionsIInv, Locked
<1> QED BY <1>2, <1>4

LEMMA CommitFrame ==
    ASSUME SessionsIInv, NEW c \in Calls, Commit(c)
    PROVE  /\ call[c].at = "sent" /\ call[c].at \in Stages
           /\ call[c] \in RunningCalls /\ RunningFits(c, call[c]) /\ call \in [Calls -> CallStates]
           /\ call[c].sent \in Writes /\ Sending(call[c], call[c].sent.on) /\ Running(c)
           /\ writes \in Nat /\ writes' = writes + 1 /\ Applied(c) /\ Observe(c)
           /\ UNCHANGED overlap
           /\ (Op[c] = "start" \/ Op[c] = "append" \/ IsStatus(c))
           /\ ~SetsStatus(c, call[c]) => UNCHANGED history
<1>1. call[c].at = "sent" /\ call[c].at \in Stages /\ writes' = writes + 1 /\ Applied(c) /\ Observe(c)
  BY DEF Commit, Stages, StartStages
<1>2. call[c] \in RunningCalls /\ RunningFits(c, call[c]) /\ call \in [Calls -> CallStates] /\ Running(c)
  BY <1>1, AtStage
<1>3. call[c].sent \in Writes /\ Sending(call[c], call[c].sent.on)
  BY <1>1, <1>2 DEF RunningFits, StageFits, Sending
<1>4. UNCHANGED overlap /\ (~SetsStatus(c, call[c]) => UNCHANGED history)
  BY <1>1 DEF Observe, SetsStatus, IsStatus, history
<1>5. Op[c] = "start" \/ Op[c] = "append" \/ IsStatus(c)
  BY SessionsAssumption DEF IsStatus
<1> QED BY <1>1, <1>2, <1>3, <1>4, <1>5 DEF SessionsIInv, World

LEMMA WriteResults ==
    ASSUME SessionsIInv, NEW c \in Calls, Commit(c)
    PROVE  LET w == call[c].sent
               next == [call EXCEPT ![c].at = call[c].then, ![c].sent = None]
           IN  /\ w.on = "folder" =>
                     /\ folder' = folder + 1 /\ call' = next
                     /\ UNCHANGED <<journal, page>>
               /\ w.on = "newJournal" =>
                     /\ journal' = [journal EXCEPT ![FreshJournal] = NewJournal(c)]
                     /\ call' = [next EXCEPT ![c].j = FreshJournal, ![c].view = NewJournal(c)]
                     /\ UNCHANGED <<page, folder>> /\ Journals # Known
               /\ w.on = "newPage" =>
                     /\ page' = [page EXCEPT ![FreshPage] =
                                   [journal |-> call[c].j, key |-> KeyOf[c], initial |-> w.initial,
                                    named |-> FALSE, at |-> w.time, rev |-> writes + 1]]
                     /\ call' = [next EXCEPT ![c].page = FreshPage, ![c].hash = writes + 1]
                     /\ UNCHANGED <<journal, folder>> /\ \E p \in Pages : page[p] = None
               /\ w.on = "name" =>
                     /\ page' = [page EXCEPT ![call[c].page].named = TRUE,
                                             ![call[c].page].rev = writes + 1]
                     /\ call' = next
                     /\ UNCHANGED <<journal, folder>>
               /\ w.on = "journal" =>
                     LET v == Merged(journal[call[c].j], w.fields)
                     IN  /\ journal' = [journal EXCEPT ![call[c].j] = v]
                         /\ IF call[c].then = "ok" THEN AnswerOk(c, v)
                            ELSE call' = [next EXCEPT ![c].view = v]
                         /\ UNCHANGED <<page, folder>>
<1>1. Applied(c) /\ call[c].sent.on \in {"folder", "newJournal", "newPage", "name", "journal"}
  BY CommitFrame DEF Writes
<1>2. CASE call[c].sent.on = "folder"
  BY <1>1, <1>2 DEF Applied
<1>3. CASE call[c].sent.on = "newJournal"
  BY <1>1, <1>3 DEF Applied, Commit
<1>4. CASE call[c].sent.on = "newPage"
  BY <1>1, <1>4 DEF Applied, Commit
<1>5. CASE call[c].sent.on = "name"
  BY <1>1, <1>5 DEF Applied
<1>6. CASE call[c].sent.on = "journal"
  BY <1>1, <1>6 DEF Applied
<1> QED BY <1>1, <1>2, <1>3, <1>4, <1>5, <1>6

\* What is left to show once the world has grown.
LEMMA GrowthKeeps ==
    ASSUME SessionsIInv, NEW c \in Calls, Commit(c), World', Remembers', Grows,
           call' \in [Calls -> CallStates], \A d \in Calls \ {c} : call'[d] = call[d],
           call'[c].at # "sent", CallFits(c, call[c])', \A d \in Calls \ {c} : Spares(d)
    PROVE  SessionsIInv' /\ Grows
<1>1. call[c].at \in Stages /\ UNCHANGED overlap /\ writes' = writes + 1
  BY CommitFrame
<1>2. Locked'
  BY <1>1, LockedKeeps
<1>3. \A d \in Calls : CallFits(d, call[d])'
  <2> SUFFICES ASSUME NEW d \in Calls \ {c} PROVE CallFits(d, call[d])'
    OBVIOUS
  <2>1. journal' \in [Journals -> SessionFlags \cup {None}]
    BY DEF World
  <2> QED BY <1>1, <2>1, OthersKeep
<1> QED BY <1>2, <1>3 DEF SessionsIInv, CallsFit

LEMMA TimesGrow ==
    ASSUME SessionsIInv, writes' = writes + 1
    PROVE  /\ writes' \in Nat
           /\ \A j \in Known : /\ journal[j].startedAt <= writes' /\ journal[j].updatedAt <= writes'
                               /\ journal[j].rev <= writes' /\ journal[j].rev <= journal[j].rev
           /\ \A p \in Pages : page[p] # None => page[p].at <= writes'
<1>1. writes \in Nat
  BY DEF SessionsIInv, World
<1>2. ASSUME NEW j \in Known
      PROVE  /\ journal[j].startedAt <= writes' /\ journal[j].updatedAt <= writes'
             /\ journal[j].rev <= writes' /\ journal[j].rev <= journal[j].rev
  <2>1. journal[j] \in SessionFlags /\ journal[j].startedAt <= writes
        /\ journal[j].updatedAt <= writes /\ journal[j].rev <= writes
    BY DEF SessionsIInv, World, Known
  <2>2. journal[j].startedAt \in Nat /\ journal[j].updatedAt \in Nat /\ journal[j].rev \in Nat
    BY <2>1 DEF SessionFlags
  <2> QED BY <1>1, <2>1, <2>2
<1>3. ASSUME NEW p \in Pages, page[p] # None PROVE page[p].at <= writes'
  <2>1. page[p] \in PageFlags /\ page[p].at <= writes
    BY <1>3 DEF SessionsIInv, World
  <2>2. page[p].at \in Nat
    BY <2>1 DEF PageFlags
  <2> QED BY <1>1, <2>1, <2>2
<1> QED BY <1>1, <1>2, <1>3

LEMMA FolderMade ==
    ASSUME SessionsIInv, NEW c \in Calls, Commit(c), call[c].sent.on = "folder"
    PROVE  SessionsIInv' /\ Grows
<1>1. /\ call[c].at = "sent" /\ call[c] \in RunningCalls /\ RunningFits(c, call[c])
      /\ call \in [Calls -> CallStates] /\ Sending(call[c], "folder") /\ Running(c)
      /\ writes \in Nat /\ writes' = writes + 1 /\ UNCHANGED overlap
      /\ ~SetsStatus(c, call[c]) => UNCHANGED history
  BY CommitFrame
<1>2. /\ folder' = folder + 1 /\ UNCHANGED <<journal, page>>
      /\ call' = [call EXCEPT ![c].at = call[c].then, ![c].sent = None]
  BY WriteResults
<1>3. Op[c] = "start" /\ call[c].then = "create" /\ folder = 0 /\ call[c].stamp <= writes
      /\ ~HasSession(call[c]) /\ \A j \in Known : journal[j].startKey # KeyOf[c]
  BY <1>1 DEF RunningFits, StageFits, NothingMadeTwice, TimesPast, HasSession
<1>4. UNCHANGED history
  BY <1>1, <1>3 DEF SetsStatus, IsStatus
<1>5. [call[c] EXCEPT !.at = "create", !.sent = None] \in RunningCalls
  BY <1>1 DEF RunningCalls, Stages, StartStages
<1>6. call' = [call EXCEPT ![c] = [call[c] EXCEPT !.at = "create", !.sent = None]]
  BY <1>2, <1>3
<1>7. /\ call' \in [Calls -> CallStates] /\ \A d \in Calls \ {c} : call'[d] = call[d]
      /\ call'[c] = [call[c] EXCEPT !.at = "create", !.sent = None] /\ call'[c] \in RunningCalls
  BY <1>1, <1>5, <1>6 DEF CallStates
<1>8. /\ call'[c].at = "create" /\ call'[c].stamp = call[c].stamp
      /\ call'[c].j = None /\ \A on : ~Sending(call'[c], on)
  <2>1. call[c].j = None
    BY <1>1 DEF RunningFits, SessionInHand, HasSession, Sending
  <2> QED BY <2>1, <1>1, <1>7 DEF RunningCalls, Sending
<1>9. World'
  <2>1. folder' \in 0 .. 1 /\ writes' \in Nat
    BY <1>1, <1>2, <1>3
  <2>2. /\ \A j \in Known : /\ journal[j].startedAt <= writes' /\ journal[j].updatedAt <= writes'
                            /\ journal[j].rev <= writes'
        /\ \A p \in Pages : page[p] # None => page[p].at <= writes'
    BY <1>1, TimesGrow
  <2> QED BY <1>2, <2>1, <2>2 DEF SessionsIInv, World, Known, PagesOnce
<1>10. Remembers'
  BY <1>2, <1>4 DEF SessionsIInv, Remembers, history, Known
<1>11. Grows
  <2>1. \A j \in Known : journal[j].rev \in Nat
    BY DEF SessionsIInv, World, Known, SessionFlags
  <2> QED BY <1>2, <2>1 DEF Grows, Known
<1>12. ASSUME NEW d \in Calls \ {c} PROVE Spares(d)
  <2>1. call[d].at \in Stages => Running(d)
    BY AtStage
  <2>2. call[d].at \in Stages => ~Sending(call[d], "folder")
    BY <1>1, <2>1 DEF SessionsIInv, Locked
  <2> QED BY <1>2, <2>2 DEF Spares
<1>13. CallFits(c, call[c])'
  <2>1. StageFits(c, call[c])'
    BY <1>3, <1>8, SessionsAssumption DEF StageFits, StartStages, IsStatus, Sending
  <2>2. TimesPast(call[c])'
    <3>1. call[c].stamp \in Nat
      BY <1>1 DEF RunningCalls
    <3> QED BY <1>1, <1>3, <1>8, <3>1 DEF TimesPast, Sending
  <2>3. /\ SessionInHand(c, call[c])' /\ PageInHand(c, call[c])' /\ FieldsInHand(c, call[c])'
        /\ NothingMadeTwice(c, call[c])'
    BY <1>2, <1>3, <1>8
    DEF SessionInHand, PageInHand, FieldsInHand, NothingMadeTwice, HasSession, HasPage, Sending,
        Known
  <2> QED BY <1>7, <1>8, <2>1, <2>2, <2>3 DEF CallFits, RunningFits, CallStates
<1> QED BY <1>7, <1>8, <1>9, <1>10, <1>11, <1>12, <1>13, GrowthKeeps

LEMMA JournalMade ==
    ASSUME SessionsIInv, NEW c \in Calls, Commit(c), call[c].sent.on = "newJournal"
    PROVE  SessionsIInv' /\ Grows
<1> DEFINE n == FreshJournal
           v == NewJournal(c)
<1>1. /\ call[c].at = "sent" /\ call[c] \in RunningCalls /\ RunningFits(c, call[c])
      /\ call \in [Calls -> CallStates] /\ Sending(call[c], "newJournal") /\ Running(c)
      /\ writes \in Nat /\ writes' = writes + 1 /\ UNCHANGED overlap
      /\ ~SetsStatus(c, call[c]) => UNCHANGED history
  BY CommitFrame
<1>2. /\ journal' = [journal EXCEPT ![n] = v]
      /\ call' = [call EXCEPT ![c].at = call[c].then, ![c].sent = None, ![c].j = n, ![c].view = v]
      /\ UNCHANGED <<page, folder>> /\ Journals # Known
  BY WriteResults
<1>3. Op[c] = "start" /\ call[c].then = "adopt" /\ call[c].stamp <= writes /\ call[c].stamp \in Nat
      /\ \A j \in Known : journal[j].startKey # KeyOf[c]
  BY <1>1 DEF RunningFits, StageFits, NothingMadeTwice, TimesPast, HasSession, RunningCalls
<1>4. UNCHANGED history
  BY <1>1, <1>3 DEF SetsStatus, IsStatus
<1>5. n \in Journals /\ journal[n] = None /\ n \notin Known
  <2>1. Journals \ Known \subseteq Nat /\ Journals \ Known # {}
    BY <1>2, SessionsAssumption DEF Known
  <2>2. n \in Journals \ Known
    BY <2>1, LeastIsMember DEF FreshJournal
  <2> QED BY <2>2 DEF Known
<1>6. /\ v \in SessionFlags /\ v # None /\ ~v.named /\ v.status = "open"
      /\ v.startedAt = call[c].stamp /\ v.updatedAt = call[c].stamp /\ v.initial = None
      /\ v.startKey = KeyOf[c] /\ v.statusKeys = {} /\ v.rev = writes + 1
  <2>1. v \in SessionFlags
    BY <1>1, <1>3 DEF NewJournal, SessionFlags, AllKeys, Keys
  <2> QED BY <2>1, SessionsAssumption DEF NewJournal
<1> HIDE DEF n, v
<1>7. [call[c] EXCEPT !.at = "adopt", !.sent = None, !.j = n, !.view = v] \in RunningCalls
  BY <1>1, <1>5, <1>6 DEF RunningCalls, Stages, StartStages
<1>8. call' = [call EXCEPT ![c] = [call[c] EXCEPT !.at = "adopt", !.sent = None, !.j = n, !.view = v]]
  BY <1>2, <1>3
<1>9. /\ call' \in [Calls -> CallStates] /\ \A d \in Calls \ {c} : call'[d] = call[d]
      /\ call'[c] = [call[c] EXCEPT !.at = "adopt", !.sent = None, !.j = n, !.view = v]
      /\ call'[c] \in RunningCalls
  BY <1>1, <1>7, <1>8 DEF CallStates
<1>10. /\ call'[c].at = "adopt" /\ call'[c].stamp = call[c].stamp
       /\ call'[c].j = n /\ call'[c].view = v
       /\ \A on : ~Sending(call'[c], on)
  BY <1>1, <1>9 DEF RunningCalls, Sending
<1>11. /\ journal' \in [Journals -> SessionFlags \cup {None}]
       /\ journal'[n] = v /\ \A j \in Journals \ {n} : journal'[j] = journal[j]
       /\ Known' = Known \cup {n}
  BY <1>2, <1>5, <1>6 DEF SessionsIInv, World, Known
<1>12. /\ writes' \in Nat
       /\ \A j \in Known : /\ journal[j].startedAt <= writes' /\ journal[j].updatedAt <= writes'
                           /\ journal[j].rev <= writes' /\ journal[j].rev <= journal[j].rev
       /\ \A p \in Pages : page[p] # None => page[p].at <= writes'
  BY <1>1, TimesGrow
<1>13. World'
  <2>1. v.startedAt <= writes' /\ v.updatedAt <= writes' /\ v.rev <= writes'
    BY <1>1, <1>3, <1>6
  <2>2. ASSUME NEW j \in Known'
        PROVE  /\ journal'[j].startedAt <= writes' /\ journal'[j].updatedAt <= writes'
               /\ journal'[j].rev <= writes'
               /\ journal'[j].initial # None =>
                     /\ page'[journal'[j].initial] # None
                     /\ page'[journal'[j].initial].journal = j /\ page'[journal'[j].initial].initial
    <3>1. CASE j = n
      BY <3>1, <2>1, <1>6, <1>11
    <3>2. CASE j # n
      <4>1. j \in Known /\ journal'[j] = journal[j]
        BY <3>2, <1>11 DEF Known
      <4> QED BY <4>1, <1>2, <1>12 DEF SessionsIInv, World
    <3> QED BY <3>1, <3>2
  <2>3. \A p \in Pages : page'[p] # None => page'[p].journal \in Known' /\ page'[p].at <= writes'
    BY <1>2, <1>11, <1>12 DEF SessionsIInv, World
  <2>4. ASSUME NEW i \in Known', NEW j \in Known', journal'[i].startKey = journal'[j].startKey,
               journal'[i].startKey \in Keys
        PROVE  i = j
    <3>1. \A k \in Known' : k # n => k \in Known /\ journal'[k] = journal[k]
      BY <1>11 DEF Known
    <3>2. CASE i = n /\ j # n
      BY <3>1, <3>2, <2>4, <1>3, <1>6, <1>11
    <3>3. CASE j = n /\ i # n
      BY <3>1, <3>3, <2>4, <1>3, <1>6, <1>11
    <3>4. CASE i # n /\ j # n
      BY <3>1, <3>4, <2>4 DEF SessionsIInv, World
    <3> QED BY <3>2, <3>3, <3>4
  <2> QED BY <1>2, <1>11, <1>12, <2>2, <2>3, <2>4 DEF SessionsIInv, World, PagesOnce
<1>14. Remembers'
  <2>1. ASSUME NEW j \in Journals, NEW k \in Keys
        PROVE  applied[j][k] <= 1 /\ (applied[j][k] = 1 => j \in Known' /\ k \in journal'[j].statusKeys)
    <3>1. applied[j][k] <= 1 /\ (applied[j][k] = 1 => j \in Known /\ k \in journal[j].statusKeys)
      BY DEF SessionsIInv, Remembers
    <3> QED BY <3>1, <1>5, <1>11
  <2>2. ASSUME NEW j \in Journals, verdict[j] # None
        PROVE  j \in Known' /\ (~overlap => journal'[j].status = verdict[j])
    <3>1. j \in Known /\ (~overlap => journal[j].status = verdict[j])
      BY <2>2 DEF SessionsIInv, Remembers
    <3> QED BY <3>1, <1>5, <1>11
  <2> QED BY <1>4, <2>1, <2>2 DEF SessionsIInv, Remembers, history
<1>15. Grows
  BY <1>2, <1>5, <1>11, <1>12, SessionsAssumption DEF Grows, Known
<1>16. ASSUME NEW d \in Calls \ {c} PROVE Spares(d)
  <2> SUFFICES ASSUME call[d].at \in Stages PROVE Spares(d)
    BY DEF Spares
  <2>1. Running(d) /\ RunningFits(d, call[d])
    BY AtStage
  <2>2. call[d].at # "find" /\ ~HasSession(call[d]) => KeyOf[d] # KeyOf[c]
    <3> SUFFICES ASSUME call[d].at # "find", ~HasSession(call[d]) PROVE KeyOf[d] # KeyOf[c]
      OBVIOUS
    <3>1. Op[d] = "start"
      BY <2>1, SessionsAssumption
      DEF RunningFits, StageFits, HasSession, AppendStages, StatusStages, IsStatus
    <3>2. LockOf(c) # LockOf(d)
      BY <1>1, <2>1 DEF SessionsIInv, Locked
    <3> QED BY <1>3, <3>1, <3>2 DEF LockOf
  <2>3. HasSession(call[d]) => call[d].j \in Known
    BY <2>1 DEF RunningFits, SessionInHand
  <2>4. HasSession(call[d]) => journal'[call[d].j] = journal[call[d].j]
    BY <2>3, <1>5, <1>11 DEF Known
  <2> QED BY <1>2, <1>5, <1>6, <1>11, <2>2, <2>4 DEF Spares
<1>17. CallFits(c, call[c])'
  <2>1. StageFits(c, call[c])'
    BY <1>3, <1>10, SessionsAssumption DEF StageFits, StartStages, IsStatus, Sending
  <2>2. TimesPast(call[c])'
    BY <1>1, <1>3, <1>10 DEF TimesPast, Sending
  <2>3. SessionInHand(c, call[c])'
    <3>1. v.rev <= v.rev /\ v.startedAt <= writes' /\ v.updatedAt <= writes'
      BY <1>1, <1>3, <1>6
    <3>2. n \in Known' /\ journal'[n] = v
      BY <1>11
    <3> QED BY <1>3, <1>6, <1>10, <3>1, <3>2 DEF SessionInHand, HasSession, Sending
  <2>4. /\ PageInHand(c, call[c])' /\ FieldsInHand(c, call[c])' /\ NothingMadeTwice(c, call[c])'
    BY <1>10 DEF PageInHand, FieldsInHand, NothingMadeTwice, HasSession, HasPage, Sending
  <2> QED BY <1>9, <1>10, <2>1, <2>2, <2>3, <2>4 DEF CallFits, RunningFits, CallStates
<1> QED BY <1>9, <1>10, <1>13, <1>14, <1>15, <1>16, <1>17, GrowthKeeps

LEMMA PageMade ==
    ASSUME SessionsIInv, NEW c \in Calls, Commit(c), call[c].sent.on = "newPage"
    PROVE  SessionsIInv' /\ Grows
<1> DEFINE n == FreshPage
           w == call[c].sent
           v == [journal |-> call[c].j, key |-> KeyOf[c], initial |-> w.initial,
                 named |-> FALSE, at |-> w.time, rev |-> writes + 1]
<1>1. /\ call[c].at = "sent" /\ call[c] \in RunningCalls /\ RunningFits(c, call[c])
      /\ call \in [Calls -> CallStates] /\ Sending(call[c], "newPage") /\ Running(c)
      /\ writes \in Nat /\ writes' = writes + 1 /\ UNCHANGED overlap
      /\ ~SetsStatus(c, call[c]) => UNCHANGED history
  BY CommitFrame
<1>2. /\ page' = [page EXCEPT ![n] = v]
      /\ call' = [call EXCEPT ![c].at = call[c].then, ![c].sent = None, ![c].page = n,
                              ![c].hash = writes + 1]
      /\ UNCHANGED <<journal, folder>> /\ \E p \in Pages : page[p] = None
  BY WriteResults
<1>3. /\ \/ Op[c] = "start" /\ call[c].then = "nameOverview" /\ w.initial
         \/ Op[c] = "append" /\ call[c].then = "namePage" /\ ~w.initial
      /\ call[c].stamp <= writes /\ call[c].stamp \in Nat /\ w.time <= writes
      /\ w.initial \in BOOLEAN /\ w.time \in Nat /\ HasSession(call[c]) /\ call[c].j \in Known
      /\ \A p \in Pages : page[p] # None /\ page[p].journal = call[c].j =>
              IF w.initial THEN ~page[p].initial ELSE ~page[p].initial => page[p].key # KeyOf[c]
  <2>1. w \in Writes /\ w.on = "newPage"
    BY CommitFrame
  <2>2. w.initial \in BOOLEAN /\ w.time \in Nat
    BY <2>1 DEF Writes
  <2>3. HasSession(call[c])
    BY <1>1 DEF HasSession, Sending
  <2> QED
    BY <1>1, <2>2, <2>3
    DEF RunningFits, StageFits, NothingMadeTwice, TimesPast, RunningCalls, SessionInHand
<1>4. UNCHANGED history
  BY <1>1, <1>3 DEF SetsStatus, IsStatus
<1>5. n \in Pages /\ page[n] = None
  <2>1. {p \in Pages : page[p] = None} \subseteq Nat /\ {p \in Pages : page[p] = None} # {}
    BY <1>2, SessionsAssumption
  <2>2. n \in {p \in Pages : page[p] = None}
    BY <2>1, LeastIsMember DEF FreshPage
  <2> QED BY <2>2
<1>6. /\ v \in PageFlags /\ v # None /\ v.journal = call[c].j /\ v.key = KeyOf[c]
      /\ v.initial = w.initial /\ v.at = w.time
  <2>1. v \in PageFlags
    BY <1>1, <1>3 DEF PageFlags, AllKeys, Keys, Known
  <2> QED BY <2>1, SessionsAssumption
<1>6a. call[c].then \in Stages /\ call[c].then # "sent" /\ call[c].then # "adopt"
       /\ call[c].then \notin {"find", "folder", "create"}
  BY <1>3 DEF Stages, StartStages, AppendStages
<1>6b. PICK h \in Nat : h = writes + 1
  BY <1>1
<1> HIDE DEF n, v
<1>7. [call[c] EXCEPT !.at = call[c].then, !.sent = None, !.page = n, !.hash = h] \in RunningCalls
  BY <1>1, <1>5, <1>6a DEF RunningCalls
<1>8. call' = [call EXCEPT ![c] = [call[c] EXCEPT !.at = call[c].then, !.sent = None, !.page = n,
                                                  !.hash = h]]
  BY <1>2, <1>6b
<1>9. /\ call' \in [Calls -> CallStates] /\ \A d \in Calls \ {c} : call'[d] = call[d]
      /\ call'[c] = [call[c] EXCEPT !.at = call[c].then, !.sent = None, !.page = n, !.hash = h]
      /\ call'[c] \in RunningCalls
  BY <1>1, <1>7, <1>8 DEF CallStates
<1>10. /\ call'[c].at = call[c].then /\ call'[c].stamp = call[c].stamp
       /\ call'[c].j = call[c].j /\ call'[c].view = call[c].view /\ call'[c].page = n
       /\ \A on : ~Sending(call'[c], on)
       /\ HasSession(call'[c])
  BY <1>1, <1>6a, <1>9 DEF RunningCalls, Sending, HasSession
<1>11. /\ page' \in [Pages -> PageFlags \cup {None}]
       /\ page'[n] = v /\ \A p \in Pages \ {n} : page'[p] = page[p]
       /\ Known' = Known
  BY <1>2, <1>5, <1>6 DEF SessionsIInv, World, Known
<1>12. /\ writes' \in Nat
       /\ \A j \in Known : /\ journal[j].startedAt <= writes' /\ journal[j].updatedAt <= writes'
                           /\ journal[j].rev <= writes' /\ journal[j].rev <= journal[j].rev
       /\ \A p \in Pages : page[p] # None => page[p].at <= writes'
  BY <1>1, TimesGrow
<1>13. World'
  <2>1. v.at <= writes'
    BY <1>1, <1>3, <1>6
  <2>2. \A j \in Known : journal[j].initial # None =>
            /\ page'[journal[j].initial] # None
            /\ page'[journal[j].initial].journal = j /\ page'[journal[j].initial].initial
    <3> SUFFICES ASSUME NEW j \in Known, journal[j].initial # None
                 PROVE  /\ page'[journal[j].initial] # None
                        /\ page'[journal[j].initial].journal = j /\ page'[journal[j].initial].initial
      OBVIOUS
    <3>1. journal[j].initial \in Pages /\ page[journal[j].initial] # None
          /\ page[journal[j].initial].journal = j /\ page[journal[j].initial].initial
      BY DEF SessionsIInv, World, Known, SessionFlags
    <3> QED BY <3>1, <1>5, <1>11
  <2>3. \A p \in Pages : page'[p] # None => page'[p].journal \in Known /\ page'[p].at <= writes'
    BY <1>3, <1>6, <1>11, <1>12, <2>1 DEF SessionsIInv, World
  <2>4. ASSUME NEW p \in Pages, NEW q \in Pages, p # q, page'[p] # None, page'[q] # None,
               page'[p].journal = page'[q].journal, page'[p].initial = page'[q].initial
        PROVE  ~page'[p].initial /\ page'[p].key # page'[q].key
    <3>0. \A r \in Pages \ {n} : page'[r] # None /\ page'[r].journal = call[c].j =>
              IF w.initial THEN ~page'[r].initial ELSE ~page'[r].initial => page'[r].key # KeyOf[c]
      BY <1>3, <1>11
    <3>1. CASE p = n
      BY <3>0, <3>1, <2>4, <1>3, <1>6, <1>11
    <3>2. CASE q = n
      BY <3>0, <3>2, <2>4, <1>3, <1>6, <1>11
    <3>3. CASE p # n /\ q # n
      BY <3>3, <2>4, <1>11 DEF SessionsIInv, World, PagesOnce
    <3> QED BY <3>1, <3>2, <3>3
  <2>5. PagesOnce'
    BY <2>4 DEF PagesOnce
  <2> QED BY <1>2, <1>11, <1>12, <2>2, <2>3, <2>5 DEF SessionsIInv, World
<1>14. Remembers'
  BY <1>2, <1>4 DEF SessionsIInv, Remembers, history, Known
<1>15. Grows
  BY <1>2, <1>5, <1>11, <1>12 DEF Grows, Known
<1>16. ASSUME NEW d \in Calls \ {c} PROVE Spares(d)
  <2> SUFFICES ASSUME call[d].at \in Stages PROVE Spares(d)
    BY DEF Spares
  <2>1. Running(d) /\ RunningFits(d, call[d])
    BY AtStage
  <2>2. ASSUME Sending(call[d], "newPage"), call[d].j = call[c].j
        PROVE  call[d].sent.initial # w.initial
    <3>1. LockOf(c) # LockOf(d)
      BY <1>1, <2>1 DEF SessionsIInv, Locked
    <3>2. HasSession(call[d])
      BY <2>2 DEF HasSession, Sending
    <3>3. /\ Op[c] = "start" => journal[call[c].j].startKey = KeyOf[c]
          /\ Op[c] # "start" => call[c].j = Target[c]
          /\ Op[d] = "start" => journal[call[d].j].startKey = KeyOf[d]
          /\ Op[d] # "start" => call[d].j = Target[d]
      BY <1>1, <1>3, <2>1, <3>2 DEF RunningFits, SessionInHand
    <3>4. \/ Op[d] = "start" /\ call[d].sent.initial
          \/ Op[d] = "append" /\ ~call[d].sent.initial
      BY <2>1, <2>2 DEF RunningFits, StageFits
    <3>5. (Op[c] = "start") # (Op[d] = "start")
      BY <2>2, <3>1, <3>3 DEF LockOf
    <3> QED BY <1>3, <3>4, <3>5
  <2>3. Sending(call[d], "newPage") =>
            \A p \in Pages : page'[p] # None /\ page[p] = None /\ page'[p].journal = call[d].j =>
                IF call[d].sent.initial THEN ~page'[p].initial
                ELSE ~page'[p].initial => page'[p].key # KeyOf[d]
    <3> SUFFICES ASSUME Sending(call[d], "newPage"), NEW p \in Pages, page'[p] # None,
                        page[p] = None, page'[p].journal = call[d].j
                 PROVE  IF call[d].sent.initial THEN ~page'[p].initial
                        ELSE ~page'[p].initial => page'[p].key # KeyOf[d]
      OBVIOUS
    <3>1. p = n
      BY <1>11
    <3>2. call[d].j = call[c].j /\ page'[p].initial = w.initial
      BY <3>1, <1>6, <1>11
    <3>3. call[d].sent.initial # w.initial
      BY <2>2, <3>2
    <3>4. call[d].sent.initial \in BOOLEAN
      BY <2>1 DEF RunningFits, StageFits, Sending, Writes
    <3> QED BY <3>2, <3>3, <3>4, <1>3
  <2> QED BY <1>2, <2>3 DEF Spares
<1>17. CallFits(c, call[c])'
  <2>1. StageFits(c, call[c])'
    BY <1>3, <1>10, SessionsAssumption
    DEF StageFits, StartStages, AppendStages, IsStatus, Sending
  <2>2. TimesPast(call[c])'
    BY <1>1, <1>3, <1>10 DEF TimesPast, Sending
  <2>3. SessionInHand(c, call[c])'
    <3>1. /\ call[c].view \in SessionFlags /\ call[c].view.startedAt <= writes
          /\ call[c].view.updatedAt <= writes
      BY <1>1, <1>3 DEF RunningFits, SessionInHand
    <3>2. call[c].view.startedAt <= writes' /\ call[c].view.updatedAt <= writes'
      <4>1. call[c].view.startedAt \in Nat /\ call[c].view.updatedAt \in Nat
        BY <3>1 DEF SessionFlags
      <4> QED BY <1>1, <3>1, <4>1
    <3>3. call[c].view.named
      BY <1>1, <1>3 DEF RunningFits, SessionInHand, Sending
    <3> QED BY <1>1, <1>2, <1>3, <1>10, <3>2, <3>3 DEF RunningFits, SessionInHand, Known, Sending
  <2>4. PageInHand(c, call[c])'
    BY <1>3, <1>5, <1>6, <1>10, <1>11 DEF PageInHand, Sending
  <2>5. FieldsInHand(c, call[c])' /\ NothingMadeTwice(c, call[c])'
    BY <1>10 DEF FieldsInHand, NothingMadeTwice, HasSession, Sending
  <2>6. call'[c].at # "ok" /\ call'[c] \in CallStates
    BY <1>3, <1>9, <1>10
  <2>7. RunningFits(c, call[c])'
    BY <1>9, <2>1, <2>2, <2>3, <2>4, <2>5 DEF RunningFits
  <2> QED BY <2>6, <2>7 DEF CallFits
<1> QED BY <1>6a, <1>9, <1>10, <1>13, <1>14, <1>15, <1>16, <1>17, GrowthKeeps

LEMMA PageNamed ==
    ASSUME SessionsIInv, NEW c \in Calls, Commit(c), call[c].sent.on = "name"
    PROVE  SessionsIInv' /\ Grows
<1> DEFINE n == call[c].page
           t == call[c].then
<1>1. /\ call[c].at = "sent" /\ call[c] \in RunningCalls /\ RunningFits(c, call[c])
      /\ call \in [Calls -> CallStates] /\ Sending(call[c], "name") /\ Running(c)
      /\ writes \in Nat /\ writes' = writes + 1 /\ UNCHANGED overlap
      /\ ~SetsStatus(c, call[c]) => UNCHANGED history
  BY CommitFrame
<1>2. /\ call' = [call EXCEPT ![c].at = t, ![c].sent = None]
      /\ UNCHANGED <<journal, folder>>
  BY WriteResults
<1>2a. page' = [page EXCEPT ![n].named = TRUE, ![n].rev = writes + 1]
  BY WriteResults
<1>3. /\ \/ Op[c] = "start" /\ t \in {"link", "linkNew"}
         \/ Op[c] = "append" /\ t \in {"complete", "touch"}
      /\ call[c].stamp <= writes /\ call[c].stamp \in Nat
      /\ HasSession(call[c]) /\ HasPage(c, call[c])
  <2>1. HasSession(call[c]) /\ HasPage(c, call[c])
    BY <1>1 DEF HasSession, HasPage, Sending
  <2> QED BY <1>1, <2>1 DEF RunningFits, StageFits, TimesPast, RunningCalls
<1>4. UNCHANGED history
  BY <1>1, <1>3 DEF SetsStatus, IsStatus
<1>5. /\ n \in Pages /\ page[n] # None /\ page[n] \in PageFlags
      /\ Op[c] = "start" => page[n].initial /\ page[n].journal = call[c].j
  <2>1. /\ n \in Pages /\ page[n] # None
        /\ Op[c] = "start" => page[n].initial /\ page[n].journal = call[c].j
    BY <1>1, <1>3 DEF RunningFits, PageInHand
  <2> QED BY <2>1 DEF SessionsIInv, World
<1>6. PICK v \in PageFlags :
          /\ page' = [page EXCEPT ![n] = v] /\ v.named
          /\ v.journal = page[n].journal /\ v.key = page[n].key /\ v.initial = page[n].initial
          /\ v.at = page[n].at
  <2>0. PICK h \in Nat : h = writes + 1
    BY <1>1
  <2> DEFINE v == [page[n] EXCEPT !.named = TRUE, !.rev = h]
  <2>1. page' = [page EXCEPT ![n] = v]
    BY <1>2a, <2>0
  <2>2. v \in PageFlags /\ v.named /\ v.journal = page[n].journal /\ v.key = page[n].key
        /\ v.initial = page[n].initial /\ v.at = page[n].at
    BY <1>5 DEF PageFlags
  <2> QED BY <2>1, <2>2
<1>6a. v # None /\ t \in Stages /\ t # "sent" /\ t # "adopt" /\ t \notin {"find", "folder", "create"}
       /\ t \notin {"nameOverview", "namePage"}
  BY <1>3, SessionsAssumption DEF Stages, StartStages, AppendStages
<1>7. [call[c] EXCEPT !.at = t, !.sent = None] \in RunningCalls
  BY <1>1, <1>6a DEF RunningCalls
<1>8. call' = [call EXCEPT ![c] = [call[c] EXCEPT !.at = t, !.sent = None]]
  BY <1>2
<1>9. /\ call' \in [Calls -> CallStates] /\ \A d \in Calls \ {c} : call'[d] = call[d]
      /\ call'[c] = [call[c] EXCEPT !.at = t, !.sent = None]
      /\ call'[c] \in RunningCalls
  BY <1>1, <1>7, <1>8 DEF CallStates
<1>10. /\ call'[c].at = t /\ call'[c].stamp = call[c].stamp
       /\ call'[c].j = call[c].j /\ call'[c].view = call[c].view /\ call'[c].page = n
       /\ \A on : ~Sending(call'[c], on)
       /\ HasSession(call'[c])
  BY <1>1, <1>6a, <1>9 DEF RunningCalls, Sending, HasSession
<1>11. /\ page' \in [Pages -> PageFlags \cup {None}]
       /\ page'[n] = v /\ \A p \in Pages \ {n} : page'[p] = page[p]
       /\ Known' = Known
       /\ \A p \in Pages : page'[p] # None <=> page[p] # None
       /\ \A p \in Pages : page[p] # None =>
             /\ page'[p].journal = page[p].journal /\ page'[p].key = page[p].key
             /\ page'[p].initial = page[p].initial /\ page'[p].at = page[p].at
             /\ page[p].named => page'[p].named
  <2>1. /\ page \in [Pages -> PageFlags \cup {None}] /\ Known' = Known
    BY <1>2 DEF SessionsIInv, World, Known
  <2>2. page' \in [Pages -> PageFlags \cup {None}] /\ page'[n] = v
        /\ \A p \in Pages \ {n} : page'[p] = page[p]
    BY <1>5, <1>6, <2>1
  <2> QED BY <1>5, <1>6, <1>6a, <2>1, <2>2
<1>12. /\ writes' \in Nat
       /\ \A j \in Known : /\ journal[j].startedAt <= writes' /\ journal[j].updatedAt <= writes'
                           /\ journal[j].rev <= writes' /\ journal[j].rev <= journal[j].rev
       /\ \A p \in Pages : page[p] # None => page[p].at <= writes'
  BY <1>1, TimesGrow
<1>13. World'
  <2>2. \A j \in Known : journal[j].initial # None =>
            /\ page'[journal[j].initial] # None
            /\ page'[journal[j].initial].journal = j /\ page'[journal[j].initial].initial
    <3> SUFFICES ASSUME NEW j \in Known, journal[j].initial # None
                 PROVE  /\ page'[journal[j].initial] # None
                        /\ page'[journal[j].initial].journal = j /\ page'[journal[j].initial].initial
      OBVIOUS
    <3>1. journal[j].initial \in Pages /\ page[journal[j].initial] # None
          /\ page[journal[j].initial].journal = j /\ page[journal[j].initial].initial
      BY DEF SessionsIInv, World, Known, SessionFlags
    <3> QED BY <3>1, <1>11
  <2>3. \A p \in Pages : page'[p] # None => page'[p].journal \in Known /\ page'[p].at <= writes'
    BY <1>11, <1>12 DEF SessionsIInv, World
  <2>4. PagesOnce'
    BY <1>11 DEF SessionsIInv, World, PagesOnce
  <2> QED BY <1>2, <1>11, <1>12, <2>2, <2>3, <2>4 DEF SessionsIInv, World
<1>14. Remembers'
  BY <1>2, <1>4 DEF SessionsIInv, Remembers, history, Known
<1>15. Grows
  BY <1>2, <1>11, <1>12 DEF Grows, Known
<1>16. ASSUME NEW d \in Calls \ {c} PROVE Spares(d)
  BY <1>2, <1>11 DEF Spares
<1>17. CallFits(c, call[c])'
  <2>1. StageFits(c, call[c])'
    BY <1>3, <1>10, SessionsAssumption
    DEF StageFits, StartStages, AppendStages, IsStatus, Sending
  <2>2. TimesPast(call[c])'
    BY <1>1, <1>3, <1>10 DEF TimesPast, Sending
  <2>3. SessionInHand(c, call[c])'
    <3>1. /\ call[c].view \in SessionFlags /\ call[c].view.startedAt <= writes
          /\ call[c].view.updatedAt <= writes
      BY <1>1, <1>3 DEF RunningFits, SessionInHand
    <3>2. call[c].view.startedAt <= writes' /\ call[c].view.updatedAt <= writes'
      <4>1. call[c].view.startedAt \in Nat /\ call[c].view.updatedAt \in Nat
        BY <3>1 DEF SessionFlags
      <4> QED BY <1>1, <3>1, <4>1
    <3>3. call[c].view.named
      BY <1>1, <1>3 DEF RunningFits, SessionInHand, Sending
    <3> QED BY <1>1, <1>2, <1>3, <1>10, <3>2, <3>3 DEF RunningFits, SessionInHand, Known, Sending
  <2>4. PageInHand(c, call[c])'
    BY <1>3, <1>5, <1>6, <1>6a, <1>10, <1>11 DEF PageInHand, Sending
  <2>5. FieldsInHand(c, call[c])' /\ NothingMadeTwice(c, call[c])'
    BY <1>10 DEF FieldsInHand, NothingMadeTwice, HasSession, Sending
  <2>6. call'[c].at # "ok" /\ call'[c] \in CallStates
    BY <1>3, <1>9, <1>10
  <2>7. RunningFits(c, call[c])'
    BY <1>9, <2>1, <2>2, <2>3, <2>4, <2>5 DEF RunningFits
  <2> QED BY <2>6, <2>7 DEF CallFits
<1> QED BY <1>6a, <1>9, <1>10, <1>13, <1>14, <1>15, <1>16, <1>17, GrowthKeeps

LEMMA MergedSays ==
    ASSUME NEW old \in SessionFlags, NEW f \in Fields \cup StatusFields, writes \in Nat
    PROVE  /\ Merged(old, f) \in SessionFlags /\ Merged(old, f).named
           /\ Merged(old, f).status = f.status /\ Merged(old, f).updatedAt = f.updatedAt
           /\ f.initial = None => Merged(old, f).initial = old.initial
           /\ f.initial # None => Merged(old, f).initial = f.initial
           /\ Merged(old, f).startKey = old.startKey /\ Merged(old, f).startedAt = old.startedAt
           /\ Merged(old, f).rev = writes + 1
           /\ f \in Fields => Merged(old, f).statusKeys = old.statusKeys
           /\ f \in StatusFields => Merged(old, f).statusKeys = f.statusKeys
<1>1. f \in Fields => "statusKeys" \notin DOMAIN f
  BY DEF Fields
<1>2. f \in StatusFields => "statusKeys" \in DOMAIN f
  BY DEF StatusFields
<1>3. /\ f.named = TRUE /\ f.status \in {"open", "ended"} /\ f.updatedAt \in Nat
      /\ f.initial \in Pages \cup {None}
      /\ f \in StatusFields => f.statusKeys \in SUBSET Keys
  BY DEF Fields, StatusFields
<1>4. PICK keys \in SUBSET Keys :
          /\ keys = IF "statusKeys" \in DOMAIN f THEN f.statusKeys ELSE old.statusKeys
          /\ f \in Fields => keys = old.statusKeys
          /\ f \in StatusFields => keys = f.statusKeys
  <2>1. CASE f \in Fields
    BY <1>1, <2>1 DEF SessionFlags, Fields, StatusFields
  <2>2. CASE f \in StatusFields
    <3>1. f \notin Fields
      BY <1>1, <1>2, <2>2
    <3> QED BY <1>2, <1>3, <2>2, <3>1
  <2> QED BY <2>1, <2>2
<1>5. PICK i \in Pages \cup {None} :
          /\ i = IF f.initial = None THEN old.initial ELSE f.initial
          /\ f.initial = None => i = old.initial
          /\ f.initial # None => i = f.initial
  BY <1>3 DEF SessionFlags
<1>6. PICK r \in Nat : r = writes + 1
  OBVIOUS
<1>7. Merged(old, f) = [named |-> f.named, status |-> f.status, updatedAt |-> f.updatedAt,
                        initial |-> i, startKey |-> old.startKey, startedAt |-> old.startedAt,
                        statusKeys |-> keys, rev |-> r]
  BY <1>4, <1>5, <1>6, Zenon DEF Merged
<1>8. PICK k \in AllKeys : k = old.startKey
  BY DEF SessionFlags
<1>9. PICK begun \in Nat : begun = old.startedAt
  BY DEF SessionFlags
<1>10. PICK u \in Nat : u = f.updatedAt
  BY <1>3
<1>11. PICK s \in {"open", "ended"} : s = f.status
  BY <1>3
<1>12. Merged(old, f) = [named |-> TRUE, status |-> s, updatedAt |-> u, initial |-> i,
                         startKey |-> k, startedAt |-> begun, statusKeys |-> keys, rev |-> r]
  BY <1>3, <1>7, <1>8, <1>9, <1>10, <1>11, Zenon
<1>13. Merged(old, f) \in SessionFlags
  BY <1>12 DEF SessionFlags
<1>14. LET v == Merged(old, f) IN
       /\ v.named /\ v.status = s /\ v.updatedAt = u /\ v.initial = i /\ v.startKey = k
       /\ v.startedAt = begun /\ v.statusKeys = keys /\ v.rev = r
  BY <1>12
<1>15. /\ f \in Fields => keys = old.statusKeys
       /\ f \in StatusFields => keys = f.statusKeys
       /\ f.initial = None => i = old.initial
       /\ f.initial # None => i = f.initial
  BY <1>4, <1>5, Zenon
<1> QED BY <1>6, <1>8, <1>9, <1>10, <1>11, <1>13, <1>14, <1>15, Zenon

LEMMA JournalWritten ==
    ASSUME SessionsIInv, NEW c \in Calls, Commit(c), call[c].sent.on = "journal"
    PROVE  SessionsIInv' /\ Grows
<1> DEFINE n == call[c].j
           f == call[c].sent.fields
           old == journal[n]
           t == call[c].then
<1>1. /\ call[c].at = "sent" /\ call[c] \in RunningCalls /\ RunningFits(c, call[c])
      /\ call \in [Calls -> CallStates] /\ Sending(call[c], "journal") /\ Running(c)
      /\ writes \in Nat /\ writes' = writes + 1 /\ UNCHANGED overlap
      /\ ~SetsStatus(c, call[c]) => UNCHANGED history
  BY CommitFrame
<1>2. PICK v : /\ v = Merged(old, f)
               /\ journal' = [journal EXCEPT ![n] = v]
               /\ IF t = "ok" THEN AnswerOk(c, v)
                  ELSE call' = [call EXCEPT ![c].at = t, ![c].sent = None, ![c].view = v]
               /\ UNCHANGED <<page, folder>>
  BY WriteResults
<1>3. HasSession(call[c]) /\ SessionInHand(c, call[c]) /\ PageInHand(c, call[c])
      /\ FieldsInHand(c, call[c]) /\ StageFits(c, call[c])
      /\ call[c].stamp <= writes /\ call[c].stamp \in Nat
  <2>1. HasSession(call[c])
    BY <1>1 DEF HasSession, Sending
  <2> QED BY <1>1, <2>1 DEF RunningFits, TimesPast, RunningCalls
<1>4. n \in Journals /\ n \in Known /\ old \in SessionFlags /\ old # None
  BY <1>3 DEF SessionInHand, Known, SessionsIInv, World
<1>5. /\ SetsStatus(c, call[c]) =>
             /\ f \in StatusFields /\ KeyOf[c] \notin old.statusKeys
             /\ f.statusKeys = old.statusKeys \cup {KeyOf[c]}
      /\ ~SetsStatus(c, call[c]) => f \in Fields /\ (~overlap => f.status = old.status)
      /\ f.updatedAt <= writes /\ f.updatedAt \in Nat
      /\ f.initial # None => /\ f.initial \in Pages /\ page[f.initial] # None
                             /\ page[f.initial].journal = n /\ page[f.initial].initial
      /\ Op[c] = "start" /\ t = "ok" => f.initial = call[c].page
  <2>1. /\ SetsStatus(c, call[c]) =>
             /\ f \in StatusFields /\ KeyOf[c] \notin call[c].view.statusKeys
             /\ f.statusKeys = call[c].view.statusKeys \cup {KeyOf[c]}
        /\ ~SetsStatus(c, call[c]) => f \in Fields /\ (~overlap => f.status = old.status)
        /\ f.updatedAt <= writes
        /\ f.initial # None => /\ page[f.initial] # None
                               /\ page[f.initial].journal = n /\ page[f.initial].initial
        /\ Op[c] = "start" /\ t = "ok" => f.initial = call[c].page
    BY <1>1, <1>3 DEF FieldsInHand
  <2>2. SetsStatus(c, call[c]) => call[c].view.statusKeys = old.statusKeys
    BY <1>3 DEF SessionInHand, SetsStatus, IsStatus
  <2>3. f.updatedAt \in Nat /\ f.initial \in Pages \cup {None}
    BY <2>1 DEF Fields, StatusFields
  <2> QED BY <2>1, <2>2, <2>3
<1>6. /\ v \in SessionFlags /\ v.named /\ v.status = f.status /\ v.updatedAt = f.updatedAt
      /\ f.initial = None => v.initial = old.initial
      /\ f.initial # None => v.initial = f.initial
      /\ v.startKey = old.startKey /\ v.startedAt = old.startedAt /\ v.rev = writes + 1
      /\ ~SetsStatus(c, call[c]) => v.statusKeys = old.statusKeys
      /\ SetsStatus(c, call[c]) => v.statusKeys = old.statusKeys \cup {KeyOf[c]}
  <2>1. f \in Fields \cup StatusFields
    BY <1>5
  <2> QED BY <1>1, <1>2, <1>4, <1>5, <2>1, MergedSays
<1>7. old.initial # None => v.initial = old.initial
  <2>0. SUFFICES ASSUME old.initial # None, f.initial # None PROVE f.initial = old.initial
    BY <1>6
  <2>1. /\ old.initial \in Pages /\ page[old.initial] # None
        /\ page[old.initial].journal = n /\ page[old.initial].initial
    BY <2>0, <1>4 DEF SessionsIInv, World, SessionFlags
  <2>2. /\ f.initial \in Pages /\ page[f.initial] # None
        /\ page[f.initial].journal = n /\ page[f.initial].initial
    BY <2>0, <1>5
  <2>3. PagesOnce
    BY DEF SessionsIInv, World
  <2>4. \A p, q \in Pages :
           /\ p # q /\ page[p] # None /\ page[q] # None /\ page[p].journal = page[q].journal
           /\ page[p].initial = page[q].initial
           => ~page[p].initial
    BY <2>3, Zenon DEF PagesOnce
  <2>5. \A p, q \in Pages :
           /\ page[p] # None /\ page[q] # None /\ page[p].journal = n /\ page[q].journal = n
           /\ page[p].initial = TRUE /\ page[q].initial = TRUE
           => p = q
    BY <2>4
  <2>6. page[f.initial].initial = TRUE /\ page[old.initial].initial = TRUE
    <3>1. \A p \in Pages : page[p] # None => page[p].initial \in BOOLEAN
      BY DEF SessionsIInv, World, PageFlags
    <3> QED BY <3>1, <2>1, <2>2
  <2> QED BY <2>1, <2>2, <2>5, <2>6
<1>8. v # None
  BY <1>6, SessionsAssumption
<1>9. /\ journal' \in [Journals -> SessionFlags \cup {None}]
      /\ journal'[n] = v /\ \A j \in Journals \ {n} : journal'[j] = journal[j]
      /\ Known' = Known
  <2>1. journal \in [Journals -> SessionFlags \cup {None}]
    BY DEF SessionsIInv, World
  <2>2. /\ journal' \in [Journals -> SessionFlags \cup {None}]
        /\ journal'[n] = v /\ \A j \in Journals \ {n} : journal'[j] = journal[j]
    BY <1>2, <1>4, <1>6, <2>1
  <2> QED BY <1>4, <1>8, <2>2 DEF Known
<1>10. /\ writes' \in Nat
       /\ \A j \in Known : /\ journal[j].startedAt <= writes' /\ journal[j].updatedAt <= writes'
                           /\ journal[j].rev <= writes' /\ journal[j].rev <= journal[j].rev
       /\ \A p \in Pages : page[p] # None => page[p].at <= writes'
  BY <1>1, TimesGrow
<1>11. /\ v.startedAt <= writes' /\ v.updatedAt <= writes' /\ v.rev <= writes'
       /\ old.rev <= v.rev /\ v.rev <= v.rev
  <2>1. old.rev <= writes /\ old.rev \in Nat
    BY <1>4 DEF SessionsIInv, World, SessionFlags
  <2>2. v.startedAt <= writes'
    BY <1>4, <1>6, <1>10
  <2> QED BY <1>1, <1>5, <1>6, <2>1, <2>2
<1>12. World'
  <2>1. ASSUME NEW j \in Known
        PROVE  /\ journal'[j].startedAt <= writes' /\ journal'[j].updatedAt <= writes'
               /\ journal'[j].rev <= writes'
               /\ journal'[j].initial # None =>
                     /\ page[journal'[j].initial] # None
                     /\ page[journal'[j].initial].journal = j /\ page[journal'[j].initial].initial
    <3>1. CASE j = n
      <4>1. v.initial # None => /\ page[v.initial] # None
                                /\ page[v.initial].journal = n /\ page[v.initial].initial
        BY <1>4, <1>5, <1>6 DEF SessionsIInv, World
      <4> QED BY <3>1, <4>1, <1>9, <1>11
    <3>2. CASE j # n
      <4>1. journal'[j] = journal[j]
        BY <3>2, <1>9 DEF Known
      <4> QED BY <4>1, <1>10 DEF SessionsIInv, World
    <3> QED BY <3>1, <3>2
  <2>2. \A j \in Known : journal'[j].startKey = journal[j].startKey
    BY <1>4, <1>6, <1>9 DEF Known
  <2>3. \A i, j \in Known :
            journal'[i].startKey = journal'[j].startKey /\ journal'[i].startKey \in Keys => i = j
    BY <2>2 DEF SessionsIInv, World
  <2>4. page' = page /\ folder' = folder
    BY <1>2, Zenon
  <2>5. PagesOnce'
    BY <2>4 DEF SessionsIInv, World, PagesOnce
  <2>6. /\ folder' \in 0 .. 1 /\ page' \in [Pages -> PageFlags \cup {None}]
        /\ \A p \in Pages : page'[p] # None => page'[p].journal \in Known /\ page'[p].at <= writes'
    BY <2>4, <1>10 DEF SessionsIInv, World
  <2>7. \A j \in Known :
            /\ journal'[j].startedAt <= writes' /\ journal'[j].updatedAt <= writes'
            /\ journal'[j].rev <= writes'
            /\ journal'[j].initial # None =>
                  /\ page'[journal'[j].initial] # None
                  /\ page'[journal'[j].initial].journal = j /\ page'[journal'[j].initial].initial
    BY <2>1, <2>4, Zenon
  <2> QED BY <1>9, <1>10, <2>3, <2>5, <2>6, <2>7 DEF World
<1>13. Grows
  <2>1. \A j \in Known :
          /\ journal'[j] # None /\ journal'[j].startKey = journal[j].startKey
          /\ journal[j].rev <= journal'[j].rev
          /\ journal[j].named => journal'[j].named
          /\ journal[j].initial # None => journal'[j].initial = journal[j].initial
    <3> SUFFICES ASSUME NEW j \in Known
                 PROVE  /\ journal'[j] # None /\ journal'[j].startKey = journal[j].startKey
                        /\ journal[j].rev <= journal'[j].rev
                        /\ journal[j].named => journal'[j].named
                        /\ journal[j].initial # None => journal'[j].initial = journal[j].initial
      OBVIOUS
    <3>1. CASE j = n
      BY <3>1, <1>6, <1>7, <1>8, <1>9, <1>11
    <3>2. CASE j # n
      BY <3>2, <1>9, <1>10 DEF Known
    <3> QED BY <3>1, <3>2
  <2> QED BY <1>2, <2>1 DEF Grows
<1>14. Remembers'
  <2>1. CASE SetsStatus(c, call[c])
    <3>1. n = Target[c] /\ KeyOf[c] \in Keys
      BY <2>1, <1>3 DEF SessionInHand, SetsStatus, IsStatus, Keys
    <3>2. /\ applied \in [Journals -> [Keys -> Nat]] /\ DOMAIN verdict = Journals
          /\ applied[n][KeyOf[c]] = 0
      <4>0. applied \in [Journals -> [Keys -> Nat]] /\ DOMAIN verdict = Journals
        BY DEF SessionsIInv, Remembers
      <4>1. applied[n][KeyOf[c]] \in Nat /\ applied[n][KeyOf[c]] <= 1
            /\ applied[n][KeyOf[c]] # 1
        BY <2>1, <1>4, <1>5, <3>1 DEF SessionsIInv, Remembers
      <4>2. applied[n][KeyOf[c]] = 0
        BY <4>1
      <4> QED BY <4>0, <4>2
    <3>3. /\ applied' = [applied EXCEPT ![n][KeyOf[c]] = @ + 1]
          /\ verdict' = [verdict EXCEPT ![n] = f.status]
      BY <2>1, CommitFrame DEF Observe, SetsStatus, IsStatus
    <3>4. /\ applied' = [applied EXCEPT ![n] = [applied[n] EXCEPT ![KeyOf[c]] = 1]]
      BY <3>1, <3>2, <3>3, <1>4
    <3>5. /\ applied' \in [Journals -> [Keys -> Nat]] /\ DOMAIN verdict' = Journals
          /\ applied'[n][KeyOf[c]] = 1 /\ verdict'[n] = f.status
          /\ \A j \in Journals, k \in Keys :
                j # n \/ k # KeyOf[c] => applied'[j][k] = applied[j][k]
          /\ \A j \in Journals \ {n} : verdict'[j] = verdict[j]
      BY <3>1, <3>2, <3>3, <3>4, <1>4
    <3>6. ASSUME NEW j \in Journals, NEW k \in Keys
          PROVE  /\ applied'[j][k] <= 1
                 /\ applied'[j][k] = 1 => j \in Known /\ k \in journal'[j].statusKeys
      <4>1. CASE j = n /\ k = KeyOf[c]
        BY <4>1, <2>1, <3>5, <1>4, <1>6, <1>9
      <4>2. CASE ~(j = n /\ k = KeyOf[c])
        <5>1. applied[j][k] <= 1 /\ (applied[j][k] = 1 => j \in Known /\ k \in journal[j].statusKeys)
          BY DEF SessionsIInv, Remembers
        <5>2. journal[j].statusKeys \subseteq journal'[j].statusKeys
          BY <2>1, <1>6, <1>9
        <5> QED BY <4>2, <3>5, <5>1, <5>2
      <4> QED BY <4>1, <4>2
    <3>7. ASSUME NEW j \in Journals, verdict'[j] # None
          PROVE  j \in Known /\ (~overlap => journal'[j].status = verdict'[j])
      <4>1. CASE j = n
        BY <4>1, <3>5, <1>4, <1>6, <1>9
      <4>2. CASE j # n
        <5>1. verdict[j] # None => j \in Known /\ (~overlap => journal[j].status = verdict[j])
          BY DEF SessionsIInv, Remembers
        <5> QED BY <4>2, <3>5, <3>7, <5>1, <1>9
      <4> QED BY <4>1, <4>2
    <3> QED BY <1>1, <1>9, <3>5, <3>6, <3>7 DEF Remembers
  <2>2. CASE ~SetsStatus(c, call[c])
    <3>1. UNCHANGED <<applied, verdict, overlap>>
      BY <2>2, <1>1 DEF history
    <3>2. \A j \in Journals : /\ journal'[j].statusKeys = journal[j].statusKeys
                              /\ ~overlap => journal'[j].status = journal[j].status
      BY <2>2, <1>5, <1>6, <1>9
    <3> QED BY <3>1, <3>2, <1>9 DEF SessionsIInv, Remembers
  <2> QED BY <2>1, <2>2
<1>15. ASSUME NEW d \in Calls \ {c} PROVE Spares(d)
  <2> SUFFICES ASSUME call[d].at \in Stages PROVE Spares(d)
    BY DEF Spares
  <2>1. Running(d) /\ RunningFits(d, call[d])
    BY AtStage
  <2>2. ASSUME HasSession(call[d])
        PROVE  /\ Op[d] # "start" => journal'[call[d].j].statusKeys = journal[call[d].j].statusKeys
               /\ ~overlap => journal'[call[d].j].status = journal[call[d].j].status
    <3>1. /\ call[d].j \in Known
          /\ Op[d] # "start" => call[d].j = Target[d]
      BY <2>1, <2>2 DEF RunningFits, SessionInHand
    <3>2. CASE call[d].j # n
      BY <3>1, <3>2, <1>9 DEF Known
    <3>3. CASE call[d].j = n /\ ~SetsStatus(c, call[c])
      BY <3>3, <1>5, <1>6, <1>9
    <3>4. CASE call[d].j = n /\ SetsStatus(c, call[c])
      <4>1. IsStatus(c) /\ Op[c] # "start" /\ n = Target[c]
        BY <3>4, <1>3 DEF SetsStatus, IsStatus, SessionInHand
      <4>2. LockOf(c) # LockOf(d) /\ (~overlap => ~(Op[d] = "start" /\ IsStatus(c)))
        BY <1>1, <2>1 DEF SessionsIInv, Locked
      <4>3. Op[d] = "start"
        BY <3>1, <3>4, <4>1, <4>2 DEF LockOf
      <4> QED BY <4>1, <4>2, <4>3
    <3> QED BY <3>2, <3>3, <3>4
  <2>3. \A j \in Journals : ~(journal'[j] # None /\ journal[j] = None)
    BY <1>4, <1>9
  <2> QED BY <1>2, <2>2, <2>3 DEF Spares
<1>16. CASE t = "ok"
  <2>1. AnswerOk(c, v)
    BY <1>2, <1>16
  <2>2. /\ call' \in [Calls -> CallStates] /\ \A d \in Calls \ {c} : call'[d] = call[d]
        /\ call'[c] = [at |-> "ok", j |-> n, page |-> call[c].page, view |-> v]
        /\ call'[c] \in AnsweredCalls
    BY <1>1, <1>4, <1>6, <2>1, AnswerEffect
  <2>3. call'[c].at = "ok" /\ call'[c].j = n /\ call'[c].page = call[c].page
    BY <2>2
  <2>4. /\ call[c].page # None => page[call[c].page] # None /\ page[call[c].page].named
        /\ Op[c] = "start" => call[c].page # None /\ v.initial = call[c].page
    <3>1. CASE IsStatus(c)
      BY <3>1, <1>3 DEF StageFits, IsStatus
    <3>2. CASE ~IsStatus(c)
      <4>1. HasPage(c, call[c])
        BY <3>2, <1>1, <1>16 DEF HasPage
      <4>2. call[c].page \in Pages /\ page[call[c].page] # None /\ page[call[c].page].named
        BY <4>1, <1>1, <1>3 DEF PageInHand, Sending
      <4> QED BY <4>2, <1>5, <1>6, <1>16, SessionsAssumption
    <3> QED BY <3>1, <3>2
  <2>5. AnswerFits(c, call[c])'
    BY <2>2, <2>3, <2>4, <1>2, <1>4, <1>6, <1>9 DEF AnswerFits
  <2>6. CallFits(c, call[c])'
    BY <2>2, <2>3, <2>5
    DEF CallFits, CallStates, Stages, StartStages, AppendStages, StatusStages
  <2> QED BY <1>12, <1>13, <1>14, <1>15, <2>2, <2>3, <2>6, GrowthKeeps
<1>17. CASE t # "ok"
  <2>0. /\ \/ Op[c] = "start" /\ t = "overview"
           \/ Op[c] = "append" /\ t = "append"
           \/ IsStatus(c) /\ t = "status"
        /\ t \in Stages /\ t # "sent" /\ t # "adopt" /\ t \notin {"find", "folder", "create"}
        /\ t \notin {"nameOverview", "namePage", "link", "linkNew", "complete", "touch"}
        /\ (IsStatus(c) => call[c].page = None)
    <3>1. \/ Op[c] = "start" /\ t = "overview"
          \/ Op[c] = "append" /\ t = "append"
          \/ IsStatus(c) /\ t = "status"
      BY <1>1, <1>3, <1>17 DEF StageFits
    <3> QED BY <3>1, <1>3 DEF Stages, StartStages, AppendStages, StatusStages, StageFits
  <2>1. call' = [call EXCEPT ![c] = [call[c] EXCEPT !.at = t, !.sent = None, !.view = v]]
    BY <1>2, <1>17
  <2>2. [call[c] EXCEPT !.at = t, !.sent = None, !.view = v] \in RunningCalls
    BY <1>1, <1>6, <2>0 DEF RunningCalls
  <2>3. /\ call' \in [Calls -> CallStates] /\ \A d \in Calls \ {c} : call'[d] = call[d]
        /\ call'[c] = [call[c] EXCEPT !.at = t, !.sent = None, !.view = v]
        /\ call'[c] \in RunningCalls
    BY <1>1, <2>1, <2>2 DEF CallStates
  <2>4. /\ call'[c].at = t /\ call'[c].stamp = call[c].stamp /\ call'[c].j = n
        /\ call'[c].view = v /\ call'[c].page = call[c].page
        /\ \A on : ~Sending(call'[c], on)
        /\ HasSession(call'[c])
    BY <1>1, <2>0, <2>3 DEF RunningCalls, Sending, HasSession
  <2>5. StageFits(c, call[c])'
    BY <2>0, <2>4, SessionsAssumption
    DEF StageFits, StartStages, AppendStages, StatusStages, IsStatus, Sending
  <2>6. TimesPast(call[c])'
    BY <1>1, <1>3, <2>4 DEF TimesPast, Sending
  <2>7. SessionInHand(c, call[c])'
    <3>1. /\ Op[c] = "start" => v.startKey = KeyOf[c]
          /\ Op[c] # "start" => n = Target[c]
      BY <1>3, <1>6 DEF SessionInHand
    <3> QED BY <1>4, <1>6, <1>9, <1>11, <2>4, <3>1 DEF SessionInHand
  <2>8. PageInHand(c, call[c])' /\ FieldsInHand(c, call[c])' /\ NothingMadeTwice(c, call[c])'
    BY <2>0, <2>4 DEF PageInHand, FieldsInHand, NothingMadeTwice, HasPage, HasSession, Sending
  <2>9. call'[c].at # "ok" /\ call'[c].at # "sent" /\ call'[c] \in CallStates
    BY <1>17, <2>0, <2>3, <2>4
  <2>10. RunningFits(c, call[c])'
    BY <2>3, <2>5, <2>6, <2>7, <2>8 DEF RunningFits
  <2>11. CallFits(c, call[c])'
    BY <2>9, <2>10 DEF CallFits
  <2> QED BY <1>12, <1>13, <1>14, <1>15, <2>3, <2>9, <2>11, GrowthKeeps
<1> QED BY <1>16, <1>17

LEMMA CommitKeeps ==
    ASSUME SessionsIInv, NEW c \in Calls, Commit(c)
    PROVE  SessionsIInv' /\ Grows
<1>1. call[c].sent.on \in {"folder", "newJournal", "newPage", "name", "journal"}
  BY CommitFrame DEF Writes
<1> QED BY <1>1, FolderMade, JournalMade, PageMade, PageNamed, JournalWritten


----------------------------------------------------------------------------
(* Every step.                                                             *)

LEMMA CallStepKeeps ==
    ASSUME SessionsIInv, NEW c \in Calls, CallStep(c)
    PROVE  SessionsIInv' /\ (UNCHANGED flags \/ Grows)
<1>1. CASE Begin(c)
  BY <1>1, BeginKeeps DEF Begin
<1>2. CASE Retry(c)
  BY <1>2, RetryKeeps DEF Retry
<1>3. CASE Commit(c)
  BY <1>3, CommitKeeps
<1>4. CASE Fail(c)
  BY <1>4, FailKeeps DEF Fail
<1>5. CASE StartFind(c)
  BY <1>5, StartFindKeeps DEF StartFind, Step
<1>6. CASE EnsureFolder(c)
  BY <1>6, EnsureFolderKeeps DEF EnsureFolder, Step
<1>7. CASE CreateJournal(c)
  BY <1>7, CreateJournalKeeps DEF CreateJournal, Step
<1>8. CASE AdoptJournal(c)
  BY <1>8, AdoptJournalKeeps DEF AdoptJournal, Step
<1>9. CASE EnsureInitialPage(c)
  BY <1>9, EnsureInitialPageKeeps DEF EnsureInitialPage, Step
<1>10. CASE LinkInitialPage(c)
  BY <1>10, LinkInitialPageKeeps DEF LinkInitialPage, Step
<1>11. CASE LinkNewPage(c)
  BY <1>11, LinkNewPageKeeps DEF LinkNewPage, Step
<1>12. CASE NameNewPage(c, "nameOverview", "linkNew")
  BY <1>12, NameNewPageKeeps DEF NameNewPage, Step
<1>13. CASE NameNewPage(c, "namePage", "touch")
  BY <1>13, NameNewPageKeeps DEF NameNewPage, Step
<1>14. CASE AppendFind(c)
  BY <1>14, FindSessionKeeps DEF AppendFind, FindSession, Step
<1>15. CASE AppendPage(c)
  BY <1>15, AppendPageKeeps DEF AppendPage, Step
<1>16. CASE CompleteExistingAppend(c)
  BY <1>16, CompleteExistingAppendKeeps DEF CompleteExistingAppend, Step
<1>17. CASE FinishAppend(c)
  BY <1>17, FinishAppendKeeps DEF FinishAppend, Step
<1>18. CASE StatusFind(c)
  BY <1>18, FindSessionKeeps DEF StatusFind, FindSession, Step, IsStatus
<1>19. CASE SetStatus(c)
  BY <1>19, SetStatusKeeps DEF SetStatus, Step
<1> QED
  BY <1>1, <1>2, <1>3, <1>4, <1>5, <1>6, <1>7, <1>8, <1>9, <1>10, <1>11, <1>12, <1>13, <1>14,
     <1>15, <1>16, <1>17, <1>18, <1>19 DEF CallStep

LEMMA SessionsInitInv == ASSUME NEW s \in Scenarios, SessionsInit(s) PROVE SessionsIInv
<1>1. /\ s.existing \subseteq Journals /\ s.key \in AllKeys
      /\ s.key \in Keys => \A i, j \in s.existing : i = j
  BY ScenariosAssumption DEF AllKeys
<1>2. ASSUME NEW j \in s.existing
      PROVE  /\ Before(j, s.existing, s.key) \in SessionFlags
             /\ Before(j, s.existing, s.key).startedAt = 0 /\ Before(j, s.existing, s.key).updatedAt = 0
             /\ Before(j, s.existing, s.key).rev = 0 /\ Before(j, s.existing, s.key).initial = j
             /\ Before(j, s.existing, s.key).startKey = s.key
  <2>1. j \in Pages /\ {} \in SUBSET Keys
    BY <1>1, SessionsAssumption
  <2>2. Before(j, s.existing, s.key) =
          [named |-> TRUE, status |-> "open", startedAt |-> 0, updatedAt |-> 0, initial |-> j,
           startKey |-> s.key, statusKeys |-> {}, rev |-> 0]
    BY DEF Before
  <2> QED BY <1>1, <2>1, <2>2 DEF SessionFlags
<1>3. /\ journal \in [Journals -> SessionFlags \cup {None}]
      /\ \A j \in s.existing : journal[j] = Before(j, s.existing, s.key)
      /\ \A j \in Journals \ s.existing : journal[j] = None
  <2>1. \A j \in Journals : Before(j, s.existing, s.key) \in SessionFlags \cup {None}
    BY <1>2 DEF Before
  <2>2. journal = [j \in Journals |-> Before(j, s.existing, s.key)]
    BY DEF SessionsInit
  <2>3. \A j \in Journals \ s.existing : Before(j, s.existing, s.key) = None
    BY DEF Before
  <2> QED BY <1>1, <2>1, <2>2, <2>3
<1>4. Known = s.existing
  <2>1. \A j \in s.existing : journal[j] # None
    <3>1. \A j \in s.existing : journal[j] \in SessionFlags
      BY <1>2, <1>3
    <3> QED BY <3>1, SessionsAssumption
  <2>2. \A j \in Journals \ s.existing : journal[j] = None
    BY <1>3
  <2> QED BY <1>1, <2>1, <2>2 DEF Known
<1>5. ASSUME NEW p \in s.existing
      PROVE  /\ page[p] \in PageFlags /\ page[p].journal = p /\ page[p].initial /\ page[p].at = 0
  <2>1. p \in Pages /\ p \in Journals
    BY <1>1, SessionsAssumption
  <2>2. page[p] = [journal |-> p, key |-> s.key, initial |-> TRUE, named |-> TRUE, at |-> 0, rev |-> 0]
    BY <2>1 DEF SessionsInit
  <2> QED BY <1>1, <2>1, <2>2 DEF PageFlags
<1>6. page \in [Pages -> PageFlags \cup {None}] /\ \A p \in Pages \ s.existing : page[p] = None
  <2>1. \A p \in Pages : page[p] \in PageFlags \cup {None}
    BY <1>5 DEF SessionsInit
  <2>2. page = [p \in Pages |-> page[p]]
    BY DEF SessionsInit
  <2>3. \A p \in Pages \ s.existing : page[p] = None
    BY DEF SessionsInit
  <2> QED BY <2>1, <2>2, <2>3
<1>7. writes = 0 /\ folder \in 0 .. 1
  BY DEF SessionsInit
<1>8. World
  <2>1. \A j \in Known :
          /\ journal[j].startedAt <= writes /\ journal[j].updatedAt <= writes
          /\ journal[j].rev <= writes
          /\ journal[j].initial # None =>
                /\ page[journal[j].initial] # None
                /\ page[journal[j].initial].journal = j /\ page[journal[j].initial].initial
    BY <1>2, <1>3, <1>4, <1>5, <1>7, SessionsAssumption
  <2>2. \A p \in Pages : page[p] # None => page[p].journal \in Known /\ page[p].at <= writes
    BY <1>4, <1>5, <1>6, <1>7
  <2>3. \A i, j \in Known :
          journal[i].startKey = journal[j].startKey /\ journal[i].startKey \in Keys => i = j
    BY <1>1, <1>2, <1>3, <1>4
  <2>4. PagesOnce
    <3>1. \A p \in Pages : page[p] # None => page[p].journal = p
      BY <1>5, <1>6
    <3> QED BY <3>1 DEF PagesOnce
  <2> QED BY <1>3, <1>6, <1>7, <2>1, <2>2, <2>3, <2>4 DEF World
<1>9. \A c \in Calls : call[c] \in [at : Waiting \cup {"failed"}] /\ call[c].at \in Waiting
  BY DEF SessionsInit, Idle, Waiting
<1>10. CallsFit /\ Locked
  <2>1. call = [c \in Calls |-> call[c]]
    BY DEF SessionsInit
  <2>2. call \in [Calls -> CallStates]
    BY <1>9, <2>1 DEF CallStates
  <2>3. \A c \in Calls : call[c].at \notin Stages /\ call[c].at # "ok" /\ ~Running(c)
    BY <1>9 DEF Waiting, Stages, StartStages, AppendStages, StatusStages, Running
  <2> QED BY <2>2, <2>3 DEF CallsFit, CallFits, Locked
<1>11. Remembers
  BY DEF SessionsInit, Remembers
<1> QED BY <1>8, <1>10, <1>11 DEF SessionsIInv

----------------------------------------------------------------------------
(* The readers.  What a reader has listed is what its cursor has passed.    *)

Statuses == {"idle", "reading", "done", "refused"}
Cursors == [id : Nat, key : Int \X Nat]

ReaderTypes ==
    /\ issued \in Nat
    /\ cursors \in Seq(Cursors) /\ Len(cursors) <= MaxCursors
    /\ \A i \in DOMAIN cursors : cursors[i].id <= issued
    /\ reader \in [Readers -> [status : Statuses, cursor : Nat \cup {None}, listed : [Pages -> Nat]]]
    /\ \A r \in Readers : reader[r].cursor # None => reader[r].cursor <= issued
    /\ steady \in [Readers -> SUBSET Pages]

SteadyRead(r) ==
    /\ steady[r] \subseteq Entries(r)
    /\ reader[r].status = "done" => \A e \in steady[r] : reader[r].listed[e] = 1
    /\ reader[r].status = "reading" => \A e \in steady[r] :
          /\ reader[r].cursor = None => reader[r].listed[e] = 0
          /\ \A i \in DOMAIN cursors : cursors[i].id = reader[r].cursor =>
                reader[r].listed[e] = IF Less(cursors[i].key, Key(r, e)) THEN 0 ELSE 1

ReadersFit == ReaderTypes /\ \A r \in Readers : SteadyRead(r)

ReadersIInv == SessionsIInv /\ ReadersFit

LEMMA EntriesHaveKeys ==
    ASSUME SessionsIInv, NEW r \in Readers
    PROVE  /\ Entries(r) \in SUBSET Pages /\ IsFiniteSet(Entries(r))
           /\ \A e \in Entries(r) : Key(r, e) \in Int \X Nat /\ Key(r, e)[2] = e
<1>1. Entries(r) \in SUBSET Pages
  BY SessionsAssumption DEF Entries, Known, PagesOf
<1>2. IsFiniteSet(Entries(r))
  BY <1>1, SessionsAssumption, FS_Subset
<1>3. ASSUME NEW e \in Entries(r) PROVE Key(r, e) \in Int \X Nat /\ Key(r, e)[2] = e
  <2>1. e \in Nat
    BY <1>1, SessionsAssumption
  <2>2. CASE Kind[r] = None
    <3>1. e \in Journals /\ journal[e] # None
      BY <2>2 DEF Entries, Known
    <3>2. journal[e] \in SessionFlags
      BY <3>1 DEF SessionsIInv, World
    <3>3. PICK u \in Nat : journal[e].updatedAt = u
      BY <3>2 DEF SessionFlags
    <3>4. Key(r, e) = <<-u, e>>
      BY <2>2, <3>3 DEF Key
    <3> QED BY <2>1, <3>4
  <2>3. CASE Kind[r] # None
    <3>1. e \in Pages /\ page[e] # None
      BY <2>3 DEF Entries, PagesOf
    <3>2. page[e] \in PageFlags
      BY <3>1 DEF SessionsIInv, World
    <3>3. PICK t \in Nat : page[e].at = t
      BY <3>2 DEF PageFlags
    <3>4. Key(r, e) = <<t, e>>
      BY <2>3, <3>3 DEF Key
    <3> QED BY <2>1, <3>4
  <2> QED BY <2>2, <2>3
<1> QED BY <1>1, <1>2, <1>3

LEMMA LessIsOrder ==
    ASSUME NEW k \in Int \X Nat, NEW l \in Int \X Nat, NEW m \in Int \X Nat
    PROVE  /\ ~Less(k, k)
           /\ Less(k, l) /\ Less(l, m) => Less(k, m)
           /\ Less(k, l) \/ Less(l, k) \/ k = l
  BY DEF Less

\* The remaining entries that come before e.
Earlier(r, e) == {f \in Remaining(r) : Less(Key(r, f), Key(r, e))}

LEMMA LaterHasMoreEarlier ==
    ASSUME SessionsIInv, NEW r \in Readers, NEW e \in Remaining(r), NEW f \in Remaining(r)
    PROVE  /\ Cardinality(Earlier(r, e)) \in Nat
           /\ Less(Key(r, e), Key(r, f)) =>
                Cardinality(Earlier(r, e)) < Cardinality(Earlier(r, f))
<1>1. Remaining(r) \subseteq Entries(r)
  BY DEF Remaining
<1>2. \A x \in Remaining(r) : Key(r, x) \in Int \X Nat
  BY <1>1, EntriesHaveKeys
<1>3. Earlier(r, e) \subseteq Entries(r) /\ Earlier(r, f) \subseteq Entries(r)
  BY <1>1 DEF Earlier
<1>4. /\ IsFiniteSet(Earlier(r, e)) /\ IsFiniteSet(Earlier(r, f))
      /\ Cardinality(Earlier(r, e)) \in Nat /\ Cardinality(Earlier(r, f)) \in Nat
  BY <1>3, EntriesHaveKeys, FS_Subset, FS_CardinalityType
<1>5. ASSUME Less(Key(r, e), Key(r, f))
      PROVE  Cardinality(Earlier(r, e)) < Cardinality(Earlier(r, f))
  <2>1. Earlier(r, e) \subseteq Earlier(r, f)
    BY <1>2, <1>5, LessIsOrder DEF Earlier
  <2>2. e \in Earlier(r, f) /\ e \notin Earlier(r, e)
    BY <1>2, <1>5, LessIsOrder DEF Earlier
  <2>3. /\ Cardinality(Earlier(r, e)) <= Cardinality(Earlier(r, f))
        /\ Cardinality(Earlier(r, e)) = Cardinality(Earlier(r, f)) => Earlier(r, e) = Earlier(r, f)
    BY <1>4, <2>1, FS_Subset
  <2> QED BY <1>4, <2>2, <2>3
<1> QED BY <1>4, <1>5

\* A page that leaves entries out has a last entry.
LEMMA PageHasLast ==
    ASSUME SessionsIInv, NEW r \in Readers, ReadPage(r) # Remaining(r)
    PROVE  /\ LastOf(r) \in ReadPage(r)
           /\ \A f \in ReadPage(r) \ {LastOf(r)} : Less(Key(r, f), Key(r, LastOf(r)))
<1> DEFINE A == Remaining(r)
           P == ReadPage(r)
           K(e) == Key(r, e)
           N(e) == Cardinality(Earlier(r, e))
<1>1. P = {e \in A : N(e) < PageSize}
  BY DEF ReadPage, Earlier
<1>2. \A e \in A : N(e) \in Nat /\ \A f \in A : Less(K(e), K(f)) => N(e) < N(f)
  BY LaterHasMoreEarlier
<1>3. \A e \in A : K(e) \in Int \X Nat /\ K(e)[2] = e
  BY EntriesHaveKeys DEF Remaining
<1>4. PageSize \in Nat \ {0}
  BY ReadersAssumption
<1>5. P # {}
  <2> DEFINE M == {N(e) : e \in A}
  <2>1. M \subseteq Nat /\ M # {}
    BY <1>1, <1>2
  <2>2. Least(M) \in M /\ \A y \in M : Least(M) <= y
    <3> HIDE DEF M
    <3> QED BY <2>1, LeastIsMember
  <2>3. PICK e \in A : N(e) = Least(M)
    BY <2>2
  <2>4. ASSUME NEW f \in Earlier(r, e) PROVE FALSE
    <3>1. f \in A /\ Less(K(f), K(e))
      BY DEF Earlier
    <3>2. N(f) < N(e) /\ N(f) \in Nat /\ N(e) \in Nat
      BY <3>1, <1>2
    <3>3. Least(M) <= N(f)
      BY <3>1, <2>2
    <3> HIDE DEF M
    <3> QED BY <3>2, <3>3, <2>3
  <2>5. Earlier(r, e) = {}
    BY <2>4
  <2>6. N(e) = 0
    BY <2>5, FS_EmptySet
  <2> QED BY <1>1, <1>4, <2>6
<1>6. PICK m \in P : \A f \in P : N(f) <= N(m)
  <2> DEFINE M == {PageSize - N(e) : e \in P}
  <2>1. M \subseteq Nat /\ M # {}
    BY <1>1, <1>2, <1>4, <1>5
  <2>2. Least(M) \in M /\ \A y \in M : Least(M) <= y
    <3> HIDE DEF M
    <3> QED BY <2>1, LeastIsMember
  <2>3. PICK m \in P : Least(M) = PageSize - N(m)
    BY <2>2
  <2>4. ASSUME NEW f \in P PROVE N(f) <= N(m)
    <3>1. PageSize - N(m) <= PageSize - N(f)
      BY <2>2, <2>3
    <3> HIDE DEF M
    <3> QED BY <3>1, <1>1, <1>2, <1>4
  <2> QED BY <2>4
<1>7. \A f \in P \ {m} : Less(K(f), K(m))
  <2> SUFFICES ASSUME NEW f \in P \ {m} PROVE Less(K(f), K(m))
    OBVIOUS
  <2>1. f \in A /\ m \in A /\ N(f) <= N(m) /\ N(f) \in Nat /\ N(m) \in Nat
    BY <1>1, <1>2, <1>6
  <2>2. ~Less(K(m), K(f))
    BY <2>1, <1>2
  <2>3. K(f) # K(m)
    BY <2>1, <1>3
  <2> QED BY <2>1, <2>2, <2>3, <1>3, LessIsOrder
<1>8. \E e \in P : \A f \in P \ {e} : Less(K(f), K(e))
  BY <1>7
<1>9. LastOf(r) = CHOOSE e \in P : \A f \in P \ {e} : Less(K(f), K(e))
  BY DEF LastOf
<1> HIDE DEF P, K
<1>10. LastOf(r) \in P /\ \A f \in P \ {LastOf(r)} : Less(K(f), K(LastOf(r)))
  BY <1>8, <1>9
<1> QED BY <1>10 DEF P, K

\* A page is the first of the remaining entries: its last comes after the others,
\* and before every entry that is left out.
LEMMA PageIsFirst ==
    ASSUME SessionsIInv, NEW r \in Readers, ReadPage(r) # Remaining(r)
    PROVE  /\ LastOf(r) \in Remaining(r) /\ Key(r, LastOf(r)) \in Int \X Nat
           /\ \A e \in ReadPage(r) : ~Less(Key(r, LastOf(r)), Key(r, e))
           /\ \A e \in Remaining(r) \ ReadPage(r) : Less(Key(r, LastOf(r)), Key(r, e))
<1> DEFINE A == Remaining(r)
           P == ReadPage(r)
           K(e) == Key(r, e)
           N(e) == Cardinality(Earlier(r, e))
           m == LastOf(r)
<1>1. P = {e \in A : N(e) < PageSize}
  BY DEF ReadPage, Earlier
<1>2. \A e \in A : N(e) \in Nat /\ \A f \in A : Less(K(e), K(f)) => N(e) < N(f)
  BY LaterHasMoreEarlier
<1>3. \A e \in A : K(e) \in Int \X Nat /\ K(e)[2] = e
  BY EntriesHaveKeys DEF Remaining
<1>4. m \in P /\ \A f \in P \ {m} : Less(K(f), K(m))
  BY PageHasLast
<1> HIDE DEF m
<1>5. m \in A /\ N(m) < PageSize
  BY <1>1, <1>4
<1>6. ASSUME NEW e \in P PROVE ~Less(K(m), K(e))
  <2>1. e = m \/ Less(K(e), K(m))
    BY <1>4
  <2>2. K(m) \in Int \X Nat /\ K(e) \in Int \X Nat
    BY <1>1, <1>3, <1>5
  <2>3. ~Less(K(m), K(m)) /\ (Less(K(e), K(m)) /\ Less(K(m), K(e)) => Less(K(e), K(e)))
        /\ ~Less(K(e), K(e))
    BY <2>2, LessIsOrder
  <2> QED BY <2>1, <2>3
<1>7. ASSUME NEW e \in A \ P PROVE Less(K(m), K(e))
  <2>1. ~(N(e) < PageSize) /\ N(e) \in Nat /\ N(m) \in Nat /\ PageSize \in Nat
    BY <1>1, <1>2, <1>5, ReadersAssumption
  <2>2. ~(N(e) < N(m))
    BY <2>1, <1>5
  <2>3. ~Less(K(e), K(m)) /\ K(e) # K(m)
    BY <2>2, <1>2, <1>3, <1>4, <1>5
  <2> QED BY <2>3, <1>3, <1>5, LessIsOrder
<1> QED BY <1>3, <1>5, <1>6, <1>7 DEF m

\* Calls move no entry that they do not strike from the steady ones.
LEMMA StillThere ==
    ASSUME SessionsIInv, UNCHANGED flags \/ Grows, NEW r \in Readers, NEW e \in Entries(r),
           IF Kind[r] = None THEN journal'[e].updatedAt = journal[e].updatedAt
           ELSE page'[e].at = page[e].at
    PROVE  e \in Entries(r)' /\ Key(r, e)' = Key(r, e)
<1>1. CASE UNCHANGED flags
  BY <1>1 DEF flags, Entries, Known, PagesOf, Key
<1>2. CASE Grows /\ Kind[r] = None
  BY <1>2 DEF Grows, Entries, Known, Key
<1>3. CASE Grows /\ Kind[r] # None
  BY <1>3 DEF Grows, Entries, PagesOf, Key
<1> QED BY <1>1, <1>2, <1>3

LEMMA CallsKeepReaders ==
    ASSUME SessionsIInv, ReadersFit, UNCHANGED flags \/ Grows,
           steady' = [r \in Readers |-> Keep(r)], UNCHANGED <<cursors, issued, reader>>
    PROVE  ReadersFit'
<1>1. ReaderTypes /\ \A r \in Readers : SteadyRead(r)
  BY DEF ReadersFit
<1>2. ASSUME NEW r \in Readers
      PROVE  /\ steady'[r] \subseteq steady[r]
             /\ \A e \in steady'[r] : e \in Entries(r)' /\ Key(r, e)' = Key(r, e)
  <2>1. steady[r] \subseteq Entries(r)
    BY <1>1 DEF SteadyRead
  <2>2. steady'[r] = Keep(r)
    OBVIOUS
  <2> QED BY <2>1, <2>2, StillThere DEF Keep
<1>3. steady' \in [Readers -> SUBSET Pages]
  <2>1. \A r \in Readers : Keep(r) \in SUBSET Pages
    BY <1>1 DEF Keep, ReaderTypes
  <2> QED BY <2>1
<1>4. ReaderTypes'
  BY <1>1, <1>3 DEF ReaderTypes
<1>5. ASSUME NEW r \in Readers PROVE SteadyRead(r)'
  <2>1. SteadyRead(r)
    BY <1>1
  <2> QED BY <2>1, <1>2 DEF SteadyRead
<1> QED BY <1>4, <1>5 DEF ReadersFit

LEMMA ReloadKeepsReaders ==
    ASSUME SessionsIInv, ReadersFit, Reload, cursors' = <<>>, UNCHANGED <<issued, reader, steady>>
    PROVE  ReadersFit'
<1>1. ReaderTypes /\ \A r \in Readers : SteadyRead(r)
  BY DEF ReadersFit
<1>2. UNCHANGED flags
  BY DEF Reload
<1>3. \A r \in Readers : Entries(r)' = Entries(r) /\ \A e : Key(r, e)' = Key(r, e)
  BY <1>2 DEF flags, Entries, Known, PagesOf, Key
<1>4. cursors' \in Seq(Cursors) /\ Len(cursors') <= MaxCursors /\ DOMAIN cursors' = {}
  BY ReadersAssumption
<1>5. ReaderTypes'
  BY <1>1, <1>4 DEF ReaderTypes
<1>6. ASSUME NEW r \in Readers PROVE SteadyRead(r)'
  <2>1. SteadyRead(r)
    BY <1>1
  <2> QED BY <2>1, <1>3, <1>4 DEF SteadyRead
<1> QED BY <1>5, <1>6 DEF ReadersFit

LEMMA DecodeSays ==
    ASSUME ReaderTypes, NEW r \in Readers, Decode(r)[1] # "unknown"
    PROVE  \/ reader[r].cursor = None /\ Remaining(r) = Entries(r)
           \/ /\ reader[r].cursor # None
              /\ \E i \in DOMAIN cursors :
                    /\ cursors[i].id = reader[r].cursor
                    /\ Remaining(r) = {e \in Entries(r) : Less(cursors[i].key, Key(r, e))}
<1> DEFINE found == {i \in DOMAIN cursors : cursors[i].id = reader[r].cursor}
<1>1. CASE reader[r].cursor = None
  <2>1. Decode(r) = <<"start">>
    BY <1>1 DEF Decode
  <2>2. Decode(r)[1] = "start"
    BY <2>1
  <2> QED BY <1>1, <2>2 DEF Remaining
<1>2. CASE reader[r].cursor # None
  <2>1. found # {}
    <3>1. found = {} => Decode(r) = <<"unknown">>
      BY <1>2 DEF Decode
    <3> QED BY <3>1
  <2>2. Decode(r) = <<"after", cursors[CHOOSE i \in found : TRUE].key>>
    BY <1>2, <2>1 DEF Decode
  <2>3. PICK i \in found : i = CHOOSE k \in found : TRUE
    <3> HIDE DEF found
    <3> QED BY <2>1
  <2>4. Decode(r) = <<"after", cursors[i].key>>
    BY <2>2, <2>3
  <2>5. Decode(r)[1] # "start" /\ Decode(r)[2] = cursors[i].key
    BY <2>4
  <2>6. Remaining(r) = {e \in Entries(r) : Less(cursors[i].key, Key(r, e))}
    BY <2>5 DEF Remaining
  <2> QED BY <1>2, <2>3, <2>6
<1> QED BY <1>1, <1>2

LEMMA CursorTypes ==
    ASSUME ReaderTypes, NEW i \in DOMAIN cursors
    PROVE  cursors[i].id \in Nat /\ cursors[i].id <= issued /\ cursors[i].key \in Int \X Nat
<1>1. cursors \in Seq(Cursors) /\ cursors[i].id <= issued
  BY DEF ReaderTypes
<1>2. cursors[i] \in Cursors
  BY <1>1
<1> DEFINE Pairs == Int \X Nat
<1>3. Cursors = [id : Nat, key : Pairs]
  BY DEF Cursors
<1> HIDE DEF Pairs
<1>4. cursors[i].id \in Nat /\ cursors[i].key \in Pairs
  BY <1>2, <1>3
<1> QED BY <1>1, <1>4 DEF Pairs

LEMMA RememberedHolds ==
    ASSUME ReaderTypes, NEW key \in Int \X Nat
    PROVE  LET known == Remembered(cursors, key) IN
           /\ known \in Seq(Cursors) /\ Len(known) <= MaxCursors
           /\ \A i \in DOMAIN known :
                 \/ known[i] = [id |-> issued + 1, key |-> key]
                 \/ \E k \in DOMAIN cursors : known[i] = cursors[k]
<1>1. PICK new \in Cursors : new = [id |-> issued + 1, key |-> key]
  <2>1. PICK n \in Nat : n = issued + 1
    BY DEF ReaderTypes
  <2>2. [id |-> n, key |-> key] \in Cursors
    BY Zenon DEF Cursors
  <2> QED BY <2>1, <2>2, Zenon
<1> DEFINE all == Append(cursors, new)
<1>2. cursors \in Seq(Cursors) /\ Len(cursors) <= MaxCursors /\ MaxCursors \in Nat
  BY ReadersAssumption DEF ReaderTypes
<1>3. /\ all \in Seq(Cursors) /\ Len(all) = Len(cursors) + 1
      /\ DOMAIN all = 1 .. Len(cursors) + 1 /\ DOMAIN cursors = 1 .. Len(cursors)
      /\ all[Len(cursors) + 1] = new
      /\ \A i \in 1 .. Len(cursors) : all[i] = cursors[i]
  BY <1>2
<1>4. Remembered(cursors, key) = IF Len(all) > MaxCursors THEN Tail(all) ELSE all
  BY <1>1 DEF Remembered
<1> HIDE DEF all
<1>5. CASE Len(all) > MaxCursors
  <2>1. Remembered(cursors, key) = Tail(all)
    BY <1>4, <1>5
  <2>2. /\ Tail(all) \in Seq(Cursors) /\ Len(Tail(all)) = Len(cursors)
        /\ DOMAIN Tail(all) = 1 .. Len(cursors)
        /\ \A i \in 1 .. Len(cursors) : Tail(all)[i] = all[i + 1]
    BY <1>2, <1>3
  <2>3. ASSUME NEW i \in 1 .. Len(cursors)
        PROVE  Tail(all)[i] = new \/ \E k \in DOMAIN cursors : Tail(all)[i] = cursors[k]
    <3>1. CASE i = Len(cursors)
      BY <3>1, <2>2, <1>3
    <3>2. CASE i # Len(cursors)
      <4>1. i + 1 \in 1 .. Len(cursors) /\ Tail(all)[i] = all[i + 1]
        BY <3>2, <2>2, <1>2
      <4> QED BY <4>1, <1>3
    <3> QED BY <3>1, <3>2
  <2> QED BY <1>1, <1>2, <2>1, <2>2, <2>3
<1>6. CASE ~(Len(all) > MaxCursors)
  <2>1. Remembered(cursors, key) = all
    BY <1>4, <1>6
  <2>2. Len(all) <= MaxCursors
    BY <1>2, <1>3, <1>6
  <2>3. ASSUME NEW i \in DOMAIN all
        PROVE  all[i] = new \/ \E k \in DOMAIN cursors : all[i] = cursors[k]
    <3>1. i = Len(cursors) + 1 \/ i \in 1 .. Len(cursors)
      BY <1>2, <1>3
    <3> QED BY <3>1, <1>3
  <2> QED BY <1>1, <1>3, <2>1, <2>2, <2>3
<1> QED BY <1>5, <1>6

LEMMA ReadRefusedKeepsReaders ==
    ASSUME ReadersFit, NEW r \in Readers, ReadRefused(r)
    PROVE  ReadersFit'
<1>1. ReaderTypes /\ \A q \in Readers : SteadyRead(q)
  BY DEF ReadersFit
<1>2. /\ UNCHANGED <<flags, cursors, issued, steady>>
      /\ reader' = [reader EXCEPT ![r].status = "refused"]
  BY DEF ReadRefused
<1>3. \A q \in Readers : Entries(q)' = Entries(q) /\ \A e : Key(q, e)' = Key(q, e)
  BY <1>2 DEF flags, Entries, Known, PagesOf, Key
<1>4. /\ reader' \in [Readers -> [status : Statuses, cursor : Nat \cup {None}, listed : [Pages -> Nat]]]
      /\ \A q \in Readers : reader'[q].cursor = reader[q].cursor /\ reader'[q].listed = reader[q].listed
      /\ reader'[r].status = "refused" /\ \A q \in Readers \ {r} : reader'[q] = reader[q]
  BY <1>1, <1>2 DEF ReaderTypes, Statuses
<1>5. ReaderTypes'
  BY <1>1, <1>2, <1>4 DEF ReaderTypes
<1>6. ASSUME NEW q \in Readers PROVE SteadyRead(q)'
  <2>1. SteadyRead(q)
    BY <1>1
  <2> QED BY <2>1, <1>2, <1>3, <1>4 DEF SteadyRead
<1> QED BY <1>5, <1>6 DEF ReadersFit

LEMMA ReadKeepsReaders ==
    ASSUME SessionsIInv, ReadersFit, NEW r \in Readers, Read(r)
    PROVE  ReadersFit'
<1> DEFINE A == Remaining(r)
           P == ReadPage(r)
           K(e) == Key(r, e)
           listed == [e \in Pages |-> reader[r].listed[e] + IF e \in ReadPage(r) THEN 1 ELSE 0]
<1>1. ReaderTypes /\ \A q \in Readers : SteadyRead(q)
  BY DEF ReadersFit
<1>2. /\ UNCHANGED <<flags, steady>> /\ Decode(r)[1] # "unknown" /\ reader[r].status = "reading"
  BY DEF Read
<1>3. \A q \in Readers : Entries(q)' = Entries(q) /\ \A e : Key(q, e)' = Key(q, e)
  BY <1>2 DEF flags, Entries, Known, PagesOf, Key
<1>4. /\ reader[r].listed \in [Pages -> Nat] /\ steady[r] \subseteq Pages
      /\ steady[r] \subseteq Entries(r) /\ issued \in Nat
  BY <1>1 DEF ReaderTypes, SteadyRead
<1>5. /\ listed \in [Pages -> Nat]
      /\ \A e \in Pages : listed[e] = IF e \in P THEN reader[r].listed[e] + 1 ELSE reader[r].listed[e]
  BY <1>4
<1>6. \A e \in steady[r] : reader[r].listed[e] = IF e \in A THEN 0 ELSE 1
  <2>1. SteadyRead(r)
    BY <1>1
  <2>2. \/ reader[r].cursor = None /\ A = Entries(r)
        \/ /\ reader[r].cursor # None
           /\ \E i \in DOMAIN cursors :
                 /\ cursors[i].id = reader[r].cursor
                 /\ A = {e \in Entries(r) : Less(cursors[i].key, Key(r, e))}
    BY <1>1, <1>2, DecodeSays
  <2>3. CASE reader[r].cursor = None /\ A = Entries(r)
    BY <2>1, <2>3, <1>2, <1>4 DEF SteadyRead
  <2>4. ASSUME NEW i \in DOMAIN cursors, cursors[i].id = reader[r].cursor,
               A = {e \in Entries(r) : Less(cursors[i].key, Key(r, e))}
        PROVE  \A e \in steady[r] : reader[r].listed[e] = IF e \in A THEN 0 ELSE 1
    BY <2>1, <2>4, <1>2, <1>4 DEF SteadyRead
  <2> QED BY <2>2, <2>3, <2>4
<1>7. P \subseteq A
  BY DEF ReadPage
<1>8. \A e \in steady[r] :
         listed[e] = IF e \in P THEN 1 ELSE IF e \in A THEN 0 ELSE 1
  <2> HIDE DEF A, P, listed
  <2> QED BY <1>4, <1>5, <1>6, <1>7
<1>9. CASE P = A
  <2>1. /\ cursors' = cursors /\ issued' = issued
        /\ reader' = [reader EXCEPT ![r] = [status |-> "done", cursor |-> None, listed |-> listed]]
    BY <1>9 DEF Read
  <2> HIDE DEF A, P, listed
  <2>2. /\ reader' \in [Readers -> [status : Statuses, cursor : Nat \cup {None}, listed : [Pages -> Nat]]]
        /\ reader'[r].cursor = None /\ reader'[r].listed = listed /\ reader'[r].status = "done"
        /\ \A q \in Readers \ {r} : reader'[q] = reader[q]
    BY <2>1, <1>1, <1>5 DEF ReaderTypes, Statuses
  <2>3. ReaderTypes'
    BY <1>1, <1>2, <2>1, <2>2 DEF ReaderTypes
  <2>4. SteadyRead(r)'
    BY <1>1, <1>2, <1>3, <1>8, <1>9, <2>2 DEF SteadyRead
  <2>5. ASSUME NEW q \in Readers \ {r} PROVE SteadyRead(q)'
    <3>1. SteadyRead(q)
      BY <1>1
    <3> QED BY <3>1, <1>2, <1>3, <2>1, <2>2 DEF SteadyRead
  <2> QED BY <2>3, <2>4, <2>5 DEF ReadersFit
<1>10. CASE P # A
  <2> DEFINE key == Key(r, LastOf(r))
  <2>1. /\ cursors' = Remembered(cursors, key) /\ issued' = issued + 1
        /\ reader' = [reader EXCEPT ![r] =
                        [status |-> "reading", cursor |-> issued + 1, listed |-> listed]]
    BY <1>10 DEF Read
  <2>2. /\ LastOf(r) \in A /\ key \in Int \X Nat
        /\ \A e \in P : ~Less(key, K(e))
        /\ \A e \in A \ P : Less(key, K(e))
    BY <1>10, PageIsFirst
  <2>3. \A e \in steady[r] \ A : ~Less(key, K(e))
    <3>1. CASE reader[r].cursor = None /\ A = Entries(r)
      BY <3>1, <1>4
    <3>2. ASSUME NEW i \in DOMAIN cursors, A = {e \in Entries(r) : Less(cursors[i].key, Key(r, e))},
                 NEW e \in steady[r] \ A
          PROVE  ~Less(key, K(e))
      <4>1. cursors[i].key \in Int \X Nat
        BY <1>1, CursorTypes
      <4>2. K(e) \in Int \X Nat
        BY <1>4, EntriesHaveKeys
      <4>3. Less(cursors[i].key, key) /\ ~Less(cursors[i].key, K(e))
        BY <3>2, <2>2, <1>4
      <4>4. Less(cursors[i].key, key) /\ Less(key, K(e)) => Less(cursors[i].key, K(e))
        <5> HIDE DEF key, K
        <5> QED BY <4>1, <4>2, <2>2, LessIsOrder
      <4> QED BY <4>3, <4>4
    <3>3. \/ reader[r].cursor = None /\ A = Entries(r)
          \/ /\ reader[r].cursor # None
             /\ \E i \in DOMAIN cursors :
                   /\ cursors[i].id = reader[r].cursor
                   /\ A = {e \in Entries(r) : Less(cursors[i].key, Key(r, e))}
      BY <1>1, <1>2, DecodeSays
    <3> HIDE DEF A, K, key
    <3> QED BY <3>1, <3>2, <3>3
  <2>4. \A e \in steady[r] : listed[e] = IF Less(key, K(e)) THEN 0 ELSE 1
    <3> HIDE DEF A, P, K, key, listed
    <3> QED BY <1>7, <1>8, <2>2, <2>3
  <2> HIDE DEF A, P, listed, key
  <2>5. PICK n \in Nat : n = issued + 1
    BY <1>4
  <2>6. /\ reader' \in [Readers -> [status : Statuses, cursor : Nat \cup {None}, listed : [Pages -> Nat]]]
        /\ reader'[r].cursor = n /\ reader'[r].listed = listed /\ reader'[r].status = "reading"
        /\ \A q \in Readers \ {r} : reader'[q] = reader[q]
    <3>1. reader' = [reader EXCEPT ![r] = [status |-> "reading", cursor |-> n, listed |-> listed]]
      BY <2>1, <2>5, Zenon
    <3> QED BY <3>1, <1>1, <1>5 DEF ReaderTypes, Statuses
  <2>7. /\ cursors' \in Seq(Cursors) /\ Len(cursors') <= MaxCursors
        /\ \A i \in DOMAIN cursors' : \/ cursors'[i].id = n /\ cursors'[i].key = key
                                      \/ \E k \in DOMAIN cursors : cursors'[i] = cursors[k]
    <3>1. /\ Remembered(cursors, key) \in Seq(Cursors) /\ Len(Remembered(cursors, key)) <= MaxCursors
          /\ \A i \in DOMAIN Remembered(cursors, key) :
                \/ Remembered(cursors, key)[i] = [id |-> issued + 1, key |-> key]
                \/ \E k \in DOMAIN cursors : Remembered(cursors, key)[i] = cursors[k]
      BY <1>1, <2>2, RememberedHolds
    <3>2. \A x : x = [id |-> n, key |-> key] => x.id = n /\ x.key = key
      OBVIOUS
    <3>3. [id |-> issued + 1, key |-> key] = [id |-> n, key |-> key]
      BY <2>5
    <3> QED BY <3>1, <3>2, <3>3, <2>1
  <2>8. \A k \in DOMAIN cursors : cursors[k].id \in Nat /\ cursors[k].id <= issued
    BY <1>1, CursorTypes
  <2>9. ReaderTypes'
    <3>1. \A i \in DOMAIN cursors' : cursors'[i].id <= issued'
      BY <1>4, <2>1, <2>5, <2>7, <2>8
    <3>2. \A q \in Readers : reader'[q].cursor # None => reader'[q].cursor <= issued'
      <4> SUFFICES ASSUME NEW q \in Readers, reader'[q].cursor # None
                   PROVE  reader'[q].cursor <= issued'
        OBVIOUS
      <4>1. CASE q = r
        BY <4>1, <1>4, <2>1, <2>5, <2>6
      <4>2. CASE q # r
        <5>1. reader[q].cursor \in Nat /\ reader[q].cursor <= issued
          BY <4>2, <2>6, <1>1 DEF ReaderTypes
        <5> QED BY <5>1, <4>2, <2>6, <1>4, <2>1
      <4> QED BY <4>1, <4>2
    <3>3. steady' \in [Readers -> SUBSET Pages] /\ issued' \in Nat
      BY <1>1, <1>2, <2>1, <2>5 DEF ReaderTypes
    <3> QED BY <2>6, <2>7, <3>1, <3>2, <3>3 DEF ReaderTypes
  <2>10. SteadyRead(r)'
    <3>1. n \notin {None} /\ \A k \in DOMAIN cursors : cursors[k].id # n
      BY <1>4, <2>5, <2>8, ReadersAssumption
    <3>2. \A i \in DOMAIN cursors' : cursors'[i].id = n => cursors'[i].key = key
      BY <2>7, <3>1
    <3>3. steady'[r] = steady[r] /\ steady[r] \subseteq Entries(r)'
      BY <1>2, <1>3, <1>4
    <3>4. \A e \in steady'[r], i \in DOMAIN cursors' : cursors'[i].id = reader'[r].cursor =>
              reader'[r].listed[e] = IF Less(cursors'[i].key, Key(r, e)') THEN 0 ELSE 1
      BY <1>3, <2>4, <2>6, <3>2, <3>3
    <3> QED BY <2>6, <3>1, <3>3, <3>4 DEF SteadyRead
  <2>11. ASSUME NEW q \in Readers \ {r} PROVE SteadyRead(q)'
    <3>1. SteadyRead(q) /\ reader'[q] = reader[q] /\ steady'[q] = steady[q]
      BY <1>1, <1>2, <2>6
    <3>2. ASSUME NEW i \in DOMAIN cursors', cursors'[i].id = reader[q].cursor
          PROVE  \E k \in DOMAIN cursors : cursors'[i] = cursors[k]
      <4>1. reader[q].cursor # n
        <5>1. reader[q].cursor # None => reader[q].cursor <= issued
          BY <1>1 DEF ReaderTypes
        <5>2. reader[q].cursor \in Nat \cup {None}
          BY <1>1 DEF ReaderTypes
        <5> QED BY <5>1, <5>2, <1>4, <2>5, ReadersAssumption
      <4> QED BY <3>2, <4>1, <2>7
    <3> QED BY <3>1, <3>2, <1>3 DEF SteadyRead
  <2> QED BY <2>9, <2>10, <2>11 DEF ReadersFit
<1> QED BY <1>9, <1>10

LEMMA ReadersInitInv == Init => ReadersIInv
<1>1. SUFFICES ASSUME NEW s \in Scenarios, SessionsInit(s), cursors = <<>>, issued = 0,
                      reader = [r \in Readers |->
                                  [status |-> IF r \in s.readers THEN "reading" ELSE "idle",
                                   cursor |-> None, listed |-> [e \in Pages |-> 0]]],
                      steady = [r \in Readers |-> Entries(r)]
               PROVE  ReadersIInv
  BY DEF Init
<1>2. SessionsIInv
  BY <1>1, SessionsInitInv
<1>3. ASSUME NEW r \in Readers
      PROVE  /\ reader[r] \in [status : Statuses, cursor : Nat \cup {None}, listed : [Pages -> Nat]]
             /\ reader[r].cursor = None /\ reader[r].status \in {"reading", "idle"}
             /\ \A e \in Pages : reader[r].listed[e] = 0
  <2>1. PICK t \in {"reading", "idle"} :
            reader[r] = [status |-> t, cursor |-> None, listed |-> [e \in Pages |-> 0]]
    BY <1>1
  <2> QED BY <2>1 DEF Statuses
<1>4. \A r \in Readers : Entries(r) \in SUBSET Pages /\ steady[r] = Entries(r)
  BY <1>1, <1>2, EntriesHaveKeys
<1>5. /\ steady \in [Readers -> SUBSET Pages] /\ reader = [r \in Readers |-> reader[r]]
      /\ cursors \in Seq(Cursors) /\ Len(cursors) <= MaxCursors /\ DOMAIN cursors = {}
  BY <1>1, <1>4, ReadersAssumption
<1>6. reader \in [Readers -> [status : Statuses, cursor : Nat \cup {None}, listed : [Pages -> Nat]]]
  BY <1>3, <1>5
<1>7. ReaderTypes
  BY <1>1, <1>3, <1>5, <1>6 DEF ReaderTypes
<1>8. \A r \in Readers : SteadyRead(r)
  BY <1>3, <1>4, <1>5 DEF SteadyRead
<1> QED BY <1>2, <1>7, <1>8 DEF ReadersIInv, ReadersFit

LEMMA SessionsUntouched ==
    ASSUME SessionsIInv, UNCHANGED <<flags, bounds, call, history>>
    PROVE  SessionsIInv'
<1>1. UNCHANGED <<journal, page, folder, writes, call, applied, verdict, overlap>>
  BY DEF flags, history
<1>2. World' /\ Locked' /\ Remembers'
  BY <1>1 DEF SessionsIInv, World, Locked, Remembers, Known, PagesOnce, Running, LockOf, Sending
<1>3. CallsFit'
  BY <1>1 DEF SessionsIInv, CallsFit, CallFits, RunningFits, AnswerFits, StageFits, TimesPast,
     SessionInHand, PageInHand, NothingMadeTwice, FieldsInHand, HasPage, HasSession, SetsStatus,
     Sending, Known
<1> QED BY <1>2, <1>3 DEF SessionsIInv

LEMMA ReadersStep == ReadersIInv /\ [Next]_vars => ReadersIInv'
<1>1. SUFFICES ASSUME SessionsIInv, ReadersFit, [Next]_vars PROVE SessionsIInv' /\ ReadersFit'
  BY DEF ReadersIInv
<1>2. ASSUME NEW c \in Calls, CallStep(c), steady' = [r \in Readers |-> Keep(r)],
             UNCHANGED <<cursors, issued, reader>>
      PROVE  SessionsIInv' /\ ReadersFit'
  BY <1>1, <1>2, CallStepKeeps, CallsKeepReaders
<1>3. ASSUME Reload, cursors' = <<>>, UNCHANGED <<issued, reader, steady>>
      PROVE  SessionsIInv' /\ ReadersFit'
  BY <1>1, <1>3, ReloadKeeps, ReloadKeepsReaders
<1>4. ASSUME NEW r \in Readers, Read(r) PROVE SessionsIInv' /\ ReadersFit'
  BY <1>1, <1>4, SessionsUntouched, ReadKeepsReaders DEF Read
<1>5. ASSUME NEW r \in Readers, ReadRefused(r) PROVE SessionsIInv' /\ ReadersFit'
  BY <1>1, <1>5, SessionsUntouched, ReadRefusedKeepsReaders DEF ReadRefused
<1>6. ASSUME UNCHANGED vars PROVE SessionsIInv' /\ ReadersFit'
  <2>1. UNCHANGED <<flags, bounds, call, history, cursors, issued, reader, steady>>
    BY <1>6 DEF vars
  <2>2. SessionsIInv'
    BY <1>1, <2>1, SessionsUntouched
  <2>3. \A q \in Readers : Entries(q)' = Entries(q) /\ \A e : Key(q, e)' = Key(q, e)
    BY <2>1 DEF flags, Entries, Known, PagesOf, Key
  <2> QED BY <1>1, <2>1, <2>2, <2>3 DEF ReadersFit, ReaderTypes, SteadyRead
<1> QED BY <1>1, <1>2, <1>3, <1>4, <1>5, <1>6 DEF Next

----------------------------------------------------------------------------
(* The theorems.                                                           *)

\* The inductive invariant: what the journals and pages hold, what every call has
\* in hand of them, and what every reader has listed.
THEOREM ReadersInvariant == Spec => []ReadersIInv
<1> QED BY ReadersInitInv, ReadersStep, PTL DEF Spec

LEMMA InvariantSays == ReadersIInv => SessionsInv
<1>1. SUFFICES ASSUME SessionsIInv, ReadersFit PROVE SessionsInv
  BY DEF ReadersIInv
<1>2. PagesOnce /\ StatusAppliedOnce
  BY <1>1 DEF SessionsIInv, World, Remembers, StatusAppliedOnce
<1>3. OneSessionPerKey
  <2>1. ASSUME NEW k \in Keys PROVE Cardinality({j \in Known : journal[j].startKey = k}) <= 1
    <3> DEFINE S == {j \in Known : journal[j].startKey = k}
    <3>1. \A i, j \in S : i = j
      BY <1>1 DEF SessionsIInv, World
    <3>2. CASE S = {}
      BY <3>2, FS_EmptySet
    <3>3. CASE S # {}
      <4>1. PICK i \in S : S = {i}
        BY <3>1, <3>3
      <4> HIDE DEF S
      <4>2. Cardinality({i}) = 1
        BY FS_Singleton
      <4>3. Cardinality(S) <= 1
        BY <4>1, <4>2
      <4> QED BY <4>3 DEF S
    <3> QED BY <3>2, <3>3
  <2>2. folder <= 1
    BY <1>1 DEF SessionsIInv, World
  <2> QED BY <2>1, <2>2 DEF OneSessionPerKey
<1>4. TypeOK
  <2>1. ASSUME NEW j \in Known
        PROVE  /\ journal[j].status \in {"open", "ended"} /\ journal[j].named \in BOOLEAN
               /\ journal[j].updatedAt \in 0 .. writes /\ journal[j].rev \in 0 .. writes
               /\ journal[j].initial # None => page[journal[j].initial] # None
    <3>1. journal[j] \in SessionFlags /\ writes \in Nat
      BY <1>1 DEF SessionsIInv, World, Known
    <3>2. /\ journal[j].updatedAt <= writes /\ journal[j].rev <= writes
          /\ journal[j].initial # None => page[journal[j].initial] # None
      BY <1>1 DEF SessionsIInv, World
    <3>3. journal[j].status \in {"open", "ended"} /\ journal[j].named \in BOOLEAN
          /\ journal[j].updatedAt \in Nat /\ journal[j].rev \in Nat
      BY <3>1 DEF SessionFlags
    <3> QED BY <3>1, <3>2, <3>3
  <2>2. ASSUME NEW p \in Pages, page[p] # None
        PROVE  page[p].journal \in Known /\ page[p].at \in 0 .. writes
    <3>1. page[p] \in PageFlags /\ writes \in Nat
      BY <1>1, <2>2 DEF SessionsIInv, World
    <3>2. page[p].journal \in Known /\ page[p].at <= writes
      BY <1>1, <2>2 DEF SessionsIInv, World
    <3>3. page[p].at \in Nat
      BY <3>1 DEF PageFlags
    <3> QED BY <3>1, <3>2, <3>3
  <2>3. ASSUME NEW c \in Calls, Running(c), call[c].at # "find", call[c].j # None
        PROVE  call[c].j \in Known /\ call[c].view.rev <= journal[call[c].j].rev
    <3>1. call[c] \in CallStates /\ CallFits(c, call[c])
      BY <1>1 DEF SessionsIInv, CallsFit
    <3>2. call[c].at \in Stages
      BY <2>3, <3>1, RunningIsRunning DEF Running
    <3>3. RunningFits(c, call[c])
      BY <3>1, <3>2 DEF CallFits
    <3>4. HasSession(call[c])
      BY <2>3, <3>3 DEF RunningFits, SessionInHand
    <3> QED BY <3>3, <3>4 DEF RunningFits, SessionInHand
  <2>4. Len(cursors) <= MaxCursors /\ \A r \in Readers : steady[r] \subseteq Entries(r)
    BY <1>1 DEF ReadersFit, ReaderTypes, SteadyRead
  <2> QED BY <2>1, <2>2, <2>3, <2>4 DEF TypeOK
<1> QED BY <1>2, <1>3, <1>4 DEF SessionsInv

\* The journals are consistent: a key of start makes one session, a session has one
\* overview and one page for every key appended, a key of end or reopen takes effect
\* once; there is one folder, and the page never holds more cursors than it may.
THEOREM SessionsAreConsistent == Spec => []SessionsInv
<1> QED BY ReadersInvariant, InvariantSays, PTL

LEMMA AnswersAreWhole == SessionsIInv => AnsweredIsWhole
<1>1. SUFFICES ASSUME SessionsIInv, NEW c \in Calls, call[c].at = "ok"
               PROVE  /\ journal[call[c].j].named
                      /\ call[c].page # None => page[call[c].page].named
                      /\ Op[c] = "start" => journal[call[c].j].initial = call[c].page
  BY DEF AnsweredIsWhole
<1>2. AnswerFits(c, call[c])
  BY <1>1 DEF SessionsIInv, CallsFit, CallFits
<1> QED BY <1>2 DEF AnswerFits

\* Whoever was answered finds the journal and the page complete, from then on.
THEOREM AnsweredSessionsAreWhole == Spec => []AnsweredIsWhole
<1>1. ReadersIInv => AnsweredIsWhole
  BY AnswersAreWhole DEF ReadersIInv
<1> QED BY <1>1, ReadersInvariant, PTL

\* The last status acknowledged stands, as long as no start ran beside end or reopen.
THEOREM AcknowledgedStatusStands == Spec => []StatusStands
<1>1. ReadersIInv => StatusStands
  BY DEF ReadersIInv, SessionsIInv, Remembers, StatusStands, Known
<1> QED BY <1>1, ReadersInvariant, PTL

\* Whoever follows the cursors to the end lists every steady entry exactly once.
THEOREM SteadyEntriesReadOnce == Spec => []SteadyReadOnce
<1>1. ReadersIInv => SteadyReadOnce
  BY DEF ReadersIInv, ReadersFit, SteadyRead, SteadyReadOnce
<1> QED BY <1>1, ReadersInvariant, PTL
=============================================================================
