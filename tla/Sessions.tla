------------------------------ MODULE Sessions ------------------------------
(***************************************************************************)
(* The session service of the Foundry page                                 *)
(* (packages/foundry-module/src/sessions.ts): sessions are journals, their *)
(* entries pages, and everything the service knows of them is in the flags *)
(* of these documents.  start, append, end and reopen are sequences of     *)
(* Foundry calls under locks that live in the page; each may stop in the   *)
(* middle, and is repaired by a retry with the same idempotency key.       *)
(*                                                                         *)
(* Abstractions.  A write is sent in one step, which compares the source   *)
(* hash, and applied in another; reading all the journals, or all the      *)
(* pages of one, is one step: each reader looks for one entry, and the     *)
(* lock keeps others from making it.  The time is the number of writes so  *)
(* far.  Titles, purposes, tags and html are left out.                     *)
(***************************************************************************)
EXTENDS Integers, FiniteSets, Sequences

CONSTANTS
    Journals,    \* journals there are or may be created, numbered from 1
    Pages,       \* their pages, numbered from 1
    Calls,       \* calls of sessions.start, append, end and reopen
    Op,          \* per call: "start", "append", "end" or "reopen"
    KeyOf,       \* per call: its idempotency key
    Target,      \* per call: the session, for other calls than start
    Scenarios,   \* what happens: [existing, calls, readers], see Init
    None,        \* nothing
    MaxFailures, \* bound: Foundry calls that fail
    MaxReloads   \* bound: reloads of the page

Keys == {KeyOf[c] : c \in Calls}
AllKeys == Keys \cup {s.key : s \in Scenarios}

\* The flags of a session and of a page: `named` when they hold their own id.
SessionFlags ==
    [named : BOOLEAN, status : {"open", "ended"}, startedAt : Nat, updatedAt : Nat,
     initial : Pages \cup {None}, startKey : AllKeys, statusKeys : SUBSET Keys, rev : Nat]
PageFlags ==
    [journal : Journals, key : AllKeys, initial : BOOLEAN, named : BOOLEAN, at : Nat, rev : Nat]

ASSUME SessionsAssumption ==
    /\ Pages \subseteq Nat /\ IsFiniteSet(Pages) /\ Journals \subseteq Pages
    /\ Op \in [Calls -> {"start", "append", "end", "reopen"}]
    /\ DOMAIN KeyOf = Calls /\ Target \in [Calls -> Journals]
    /\ None \notin Pages /\ None \notin SessionFlags /\ None \notin PageFlags
    /\ MaxFailures \in Nat /\ MaxReloads \in Nat

\* Sessions that were there before have keys of their own.
ASSUME ScenariosAssumption ==
    \A s \in Scenarios :
        /\ s.existing \subseteq Journals
        /\ s.key \in Keys => \A i, j \in s.existing : i = j

VARIABLES
    journal,   \* per journal: the flags of its session, or None
    page,      \* per page: the flags of the page, or None
    folder,    \* how many folders have the name of the session folder
    writes,    \* writes so far: the time
    call,      \* per call: where it is
    failures, reloads,
    applied,   \* history, per session and key: how often it changed the status
    verdict,   \* history, per journal: the status last acknowledged, or None
    overlap    \* history: a start ran at the same time as an end or a reopen

flags == <<journal, page, folder, writes>>
bounds == <<failures, reloads>>
history == <<applied, verdict, overlap>>

Known == {j \in Journals : journal[j] # None}
PagesOf(j) == {p \in Pages : page[p] # None /\ page[p].journal = j}

Waiting == {"idle", "called"}
Over == {"ok", "failed"}
Running(c) == call[c].at \notin Waiting \cup Over

----------------------------------------------------------------------------
(* Mutated forms.                                                          *)

LockOfAppends(c) == IF Op[c] = "start" THEN <<"start", KeyOf[c]>> ELSE <<Op[c], KeyOf[c]>>
LockOfCalls(c) == <<"call", c>>
IsRepairedAlways(v) == TRUE
ForgetKey(c) == call[c].view.statusKeys
InitialOfView(c) == {p \in PagesOf(call[c].j) : page[p].initial /\ page[p].named}

----------------------------------------------------------------------------
(* Locks and answers.                                                      *)

\* #withLock: one call per key of a start, one other call per session.
LockOf(c) == IF Op[c] = "start" THEN <<"start", KeyOf[c]>> ELSE <<"session", Target[c]>>

Free(c) == \A d \in Calls : Running(d) => LockOf(d) # LockOf(c)

Idle == [at |-> "idle"]

Goto(c, at) == call' = [call EXCEPT ![c].at = at]
Refuse(c) == call' = [call EXCEPT ![c] = [at |-> "failed"]]
AnswerOk(c, v) ==
    call' = [call EXCEPT ![c] = [at |-> "ok", j |-> @.j, page |-> @.page, view |-> v]]

Overlapping(c) ==
    \E d \in Calls : Running(d) /\ (Op[d] = "start") # (Op[c] = "start")
                     /\ "append" \notin {Op[c], Op[d]}

\* The lock is taken: the call is the only one that works for its key.
Begin(c) ==
    /\ call[c].at = "called" /\ Free(c)
    /\ call' = [call EXCEPT ![c] = [at |-> "find", j |-> None, view |-> None,
                                    page |-> None, hash |-> 0, stamp |-> writes,
                                    sent |-> None, then |-> None]]
    /\ overlap' = (overlap \/ Overlapping(c))
    /\ UNCHANGED <<flags, bounds, applied, verdict>>

\* The caller repeats a call that failed, with its key.
Retry(c) ==
    /\ call[c].at = "failed"
    /\ Goto(c, "called")
    /\ UNCHANGED <<flags, bounds, history>>

----------------------------------------------------------------------------
(* Writing: documents.create and documents.update.                         *)

\* update refuses a document that has changed since the view in hand.
Send(c, write, then) ==
    call' = [call EXCEPT ![c].sent = write, ![c].then = then, ![c].at = "sent"]

UpdateJournal(c, expected, fields, then) ==
    IF journal[call[c].j].rev # expected THEN Refuse(c)
    ELSE Send(c, [on |-> "journal", fields |-> fields], then)

UpdatePage(c, p, expected, then) ==
    IF page[p].rev # expected THEN Refuse(c)
    ELSE call' = [call EXCEPT ![c].sent = [on |-> "name"], ![c].then = then,
                              ![c].at = "sent", ![c].page = p]

Metadata(v) ==
    [named |-> v.named, status |-> v.status, updatedAt |-> v.updatedAt, initial |-> v.initial]

\* Foundry merges the flags: a field that is absent stays what it is.
Merged(old, fields) ==
    [named |-> fields.named, status |-> fields.status, updatedAt |-> fields.updatedAt,
     initial |-> IF fields.initial = None THEN old.initial ELSE fields.initial,
     startKey |-> old.startKey, startedAt |-> old.startedAt,
     statusKeys |-> IF "statusKeys" \in DOMAIN fields THEN fields.statusKeys ELSE old.statusKeys,
     rev |-> writes + 1]

Least(S) == CHOOSE x \in S : \A y \in S : x <= y
FreshJournal == Least(Journals \ Known)
FreshPage == Least({p \in Pages : page[p] = None})

NewJournal(c) ==
    [named |-> FALSE, status |-> "open", startedAt |-> call[c].stamp,
     updatedAt |-> call[c].stamp, initial |-> None,
     startKey |-> KeyOf[c], statusKeys |-> {}, rev |-> writes + 1]

\* What a write of c does to the world, and what c has in hand after it.
Applied(c) ==
    LET w == call[c].sent
        next == [call EXCEPT ![c].at = call[c].then, ![c].sent = None]
    IN  CASE w.on = "folder" ->
               /\ folder' = folder + 1 /\ call' = next
               /\ UNCHANGED <<journal, page>>
          [] w.on = "newJournal" ->
               /\ journal' = [journal EXCEPT ![FreshJournal] = NewJournal(c)]
               /\ call' = [next EXCEPT ![c].j = FreshJournal, ![c].view = NewJournal(c)]
               /\ UNCHANGED <<page, folder>>
          [] w.on = "newPage" ->
               /\ page' = [page EXCEPT ![FreshPage] =
                             [journal |-> call[c].j, key |-> KeyOf[c], initial |-> w.initial,
                              named |-> FALSE, at |-> w.time, rev |-> writes + 1]]
               /\ call' = [next EXCEPT ![c].page = FreshPage, ![c].hash = writes + 1]
               /\ UNCHANGED <<journal, folder>>
          [] w.on = "name" ->
               /\ page' = [page EXCEPT ![call[c].page].named = TRUE,
                                       ![call[c].page].rev = writes + 1]
               /\ call' = next
               /\ UNCHANGED <<journal, folder>>
          [] w.on = "journal" ->
               LET v == Merged(journal[call[c].j], w.fields)
               IN  /\ journal' = [journal EXCEPT ![call[c].j] = v]
                   /\ IF call[c].then = "ok" THEN AnswerOk(c, v)
                      ELSE call' = [next EXCEPT ![c].view = v]
                   /\ UNCHANGED <<page, folder>>

\* A history of what end and reopen have done.
Observe(c) ==
    IF Op[c] \in {"end", "reopen"} /\ call[c].then = "ok"
    THEN /\ applied' = [applied EXCEPT ![call[c].j][KeyOf[c]] = @ + 1]
         /\ verdict' = [verdict EXCEPT ![call[c].j] = call[c].sent.fields.status]
         /\ UNCHANGED overlap
    ELSE UNCHANGED history

Commit(c) ==
    /\ call[c].at = "sent"
    /\ call[c].sent.on = "newJournal" => Journals # Known
    /\ call[c].sent.on = "newPage" => \E p \in Pages : page[p] = None
    /\ writes' = writes + 1
    /\ Applied(c)
    /\ Observe(c)
    /\ UNCHANGED bounds

\* Any await of a call may end with an error: Foundry's, or the guard's.
Fail(c) ==
    /\ Running(c) /\ failures < MaxFailures
    /\ failures' = failures + 1
    /\ Refuse(c)
    /\ UNCHANGED <<flags, reloads, history>>

\* The page is reloaded: its calls and its locks are gone.
Reload ==
    /\ reloads < MaxReloads /\ \E c \in Calls : Running(c)
    /\ reloads' = reloads + 1
    /\ call' = [c \in Calls |-> IF Running(c) THEN [at |-> "failed"] ELSE call[c]]
    /\ UNCHANGED <<flags, failures, history>>

----------------------------------------------------------------------------
(* sessions.start.                                                         *)

Step(c, at) == call[c].at = at /\ UNCHANGED <<flags, bounds, history>>

FindByStartKey(c) == {j \in Known : journal[j].startKey = KeyOf[c]}

IsRepaired(v) == v.named

\* #repairJournalIdentity: a journal that was created and not named is named.
Repair(c, j, then) ==
    LET view == [call EXCEPT ![c].j = j, ![c].view = journal[j]]
    IN  IF IsRepaired(journal[j])
        THEN call' = [view EXCEPT ![c].at = then]
        ELSE call' = [view EXCEPT ![c].at = "sent", ![c].then = then,
                        ![c].sent = [on |-> "journal",
                                     fields |-> [Metadata(journal[j]) EXCEPT !.named = TRUE]]]

StartFind(c) ==
    /\ Op[c] = "start" /\ Step(c, "find")
    /\ IF FindByStartKey(c) # {} THEN Repair(c, Least(FindByStartKey(c)), "overview")
       ELSE Goto(c, "folder")

\* #ensureFolder, under a lock of its own.
EnsureFolder(c) ==
    /\ Step(c, "folder")
    /\ \A d \in Calls : Running(d) /\ call[d].at = "sent" => call[d].sent.on # "folder"
    /\ IF folder > 0 THEN Goto(c, "create") ELSE Send(c, [on |-> "folder"], "create")

CreateJournal(c) ==
    Step(c, "create") /\ Send(c, [on |-> "newJournal"], "adopt")

AdoptJournal(c) ==
    /\ Step(c, "adopt")
    /\ UpdateJournal(c, call[c].view.rev,
                     [Metadata(call[c].view) EXCEPT !.named = TRUE], "overview")

InitialPage(c) == {p \in PagesOf(call[c].j) : page[p].initial}

\* #ensureInitialPage, first part: the page is found, named or created.
EnsureInitialPage(c) ==
    /\ Step(c, "overview")
    /\ IF InitialPage(c) # {}
       THEN LET p == Least(InitialPage(c))
            IN  IF page[p].named
                THEN call' = [call EXCEPT ![c].at = "link", ![c].page = p]
                ELSE UpdatePage(c, p, page[p].rev, "link")
       ELSE Send(c, [on |-> "newPage", initial |-> TRUE, time |-> call[c].view.startedAt],
                 "nameOverview")

NameNewPage(c, at, then) ==
    Step(c, at) /\ UpdatePage(c, call[c].page, call[c].hash, then)

\* Second part, of a page that was there: with the hash in hand.
LinkInitialPage(c) ==
    /\ Step(c, "link")
    /\ IF call[c].view.initial = call[c].page THEN AnswerOk(c, call[c].view)
       ELSE UpdateJournal(c, call[c].view.rev,
                          [Metadata(call[c].view) EXCEPT !.initial = call[c].page], "ok")

\* Of a page that was just created: with the hash read now, and the metadata
\* read at the beginning.
LinkNewPage(c) ==
    /\ Step(c, "linkNew")
    /\ UpdateJournal(c, journal[call[c].j].rev,
                     [Metadata(call[c].view) EXCEPT !.initial = call[c].page], "ok")

----------------------------------------------------------------------------
(* sessions.append.                                                        *)

FindSession(c, then) ==
    /\ Step(c, "find")
    /\ IF Target[c] \in Known THEN Repair(c, Target[c], then) ELSE Refuse(c)

AppendFind(c) == Op[c] = "append" /\ FindSession(c, "append")

Duplicate(c) == {p \in PagesOf(call[c].j) : page[p].key = KeyOf[c]}

CreatePage(c) ==
    call' = [call EXCEPT ![c].at = "sent", ![c].then = "namePage",
                ![c].stamp = writes,
                ![c].sent = [on |-> "newPage", initial |-> FALSE, time |-> writes]]

\* The page of this key is there already and is completed, or it is created.
AppendPage(c) ==
    /\ Step(c, "append")
    /\ IF call[c].view.status # "open" THEN Refuse(c)
       ELSE IF Duplicate(c) = {} THEN CreatePage(c)
       ELSE LET p == Least(Duplicate(c))
            IN  IF page[p].named
                THEN call' = [call EXCEPT ![c].at = "complete", ![c].page = p]
                ELSE UpdatePage(c, p, page[p].rev, "complete")

Touch(c, time) ==
    UpdateJournal(c, journal[call[c].j].rev,
                  [Metadata(call[c].view) EXCEPT !.updatedAt = time], "ok")

CompleteExistingAppend(c) ==
    /\ Step(c, "complete")
    /\ IF call[c].view.updatedAt >= page[call[c].page].at THEN AnswerOk(c, call[c].view)
       ELSE Touch(c, page[call[c].page].at)

FinishAppend(c) == Step(c, "touch") /\ Touch(c, call[c].stamp)

----------------------------------------------------------------------------
(* sessions.end and sessions.reopen.                                       *)

StatusFind(c) == Op[c] \in {"end", "reopen"} /\ FindSession(c, "status")

PriorKeys(c) == call[c].view.statusKeys
NextKeys(c) == PriorKeys(c) \cup {KeyOf[c]}

SetStatus(c) ==
    /\ Step(c, "status")
    /\ IF KeyOf[c] \in PriorKeys(c) THEN AnswerOk(c, call[c].view)
       ELSE UpdateJournal(c, call[c].view.rev,
                [named |-> call[c].view.named, initial |-> call[c].view.initial,
                 status |-> IF Op[c] = "end" THEN "ended" ELSE "open",
                 updatedAt |-> writes, statusKeys |-> NextKeys(c)], "ok")

----------------------------------------------------------------------------
\* A session that was started before, complete, with page j as its overview.
Before(j, existing, key) ==
    IF j \in existing
    THEN [named |-> TRUE, status |-> "open", startedAt |-> 0, updatedAt |-> 0, initial |-> j,
          startKey |-> key, statusKeys |-> {}, rev |-> 0]
    ELSE None

SessionsInit(s) ==
    /\ journal = [j \in Journals |-> Before(j, s.existing, s.key)]
    /\ page = [p \in Pages |->
                 IF p \in s.existing
                 THEN [journal |-> p, key |-> s.key, initial |-> TRUE, named |-> TRUE,
                       at |-> 0, rev |-> 0]
                 ELSE None]
    /\ folder = IF s.existing = {} THEN 0 ELSE 1
    /\ writes = 0 /\ failures = 0 /\ reloads = 0
    /\ call = [c \in Calls |-> IF c \in s.calls THEN [at |-> "called"] ELSE Idle]
    /\ applied = [j \in Journals |-> [k \in Keys |-> 0]]
    /\ verdict = [j \in Journals |-> None]
    /\ overlap = FALSE

CallStep(c) ==
    \/ Begin(c) \/ Retry(c) \/ Commit(c) \/ Fail(c)
    \/ StartFind(c) \/ EnsureFolder(c) \/ CreateJournal(c) \/ AdoptJournal(c)
    \/ EnsureInitialPage(c) \/ LinkInitialPage(c) \/ LinkNewPage(c)
    \/ NameNewPage(c, "nameOverview", "linkNew") \/ NameNewPage(c, "namePage", "touch")
    \/ AppendFind(c) \/ AppendPage(c) \/ CompleteExistingAppend(c) \/ FinishAppend(c)
    \/ StatusFind(c) \/ SetStatus(c)

----------------------------------------------------------------------------
\* One key starts one session, however often start is called, fails in the
\* middle or is cut off by a reload; and one folder holds them all.
OneSessionPerKey ==
    /\ \A k \in Keys : Cardinality({j \in Known : journal[j].startKey = k}) <= 1
    /\ folder <= 1

\* A session has one overview, and one page for every key that was appended.
\* (An append may use the key of a start that was cut off before its overview.)
PagesOnce ==
    \A p, q \in Pages :
        /\ p # q /\ page[p] # None /\ page[q] # None /\ page[p].journal = page[q].journal
        /\ page[p].initial = page[q].initial
        => ~page[p].initial /\ page[p].key # page[q].key

\* Whoever was answered "ok" finds what was answered: a journal and a page
\* that know their own ids, and the overview the journal points to.
AnsweredIsWhole ==
    \A c \in Calls : call[c].at = "ok" =>
        /\ journal[call[c].j].named
        /\ call[c].page # None => page[call[c].page].named
        /\ Op[c] = "start" => journal[call[c].j].initial = call[c].page

\* A key of end or reopen changes the status once: a repetition that comes
\* after somebody reopened the session does not end it again.
StatusAppliedOnce == \A j \in Journals, k \in Keys : applied[j][k] <= 1

\* As long as no start ran beside an end or a reopen, the last status that was
\* acknowledged is the status of the session, whatever is appended, retried or
\* cut off.
StatusStands ==
    ~overlap => \A j \in Known : verdict[j] # None => journal[j].status = verdict[j]

\* The same without the condition, which a retried start refutes.
StatusAlwaysStands ==
    \A j \in Known : verdict[j] # None => journal[j].status = verdict[j]
=============================================================================
