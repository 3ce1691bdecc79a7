--------------------------- MODULE SessionReaders ---------------------------
(***************************************************************************)
(* sessions.list and sessions.get beside the calls that change sessions:   *)
(* both are read page by page, with cursors that the page of Foundry keeps *)
(* and forgets, the oldest first.                                          *)
(***************************************************************************)
EXTENDS Sessions

CONSTANTS
    Readers,     \* clients that follow the cursors to the end
    Kind,        \* per reader: the session whose timeline it reads, None for the list
    PageSize,    \* items per page
    MaxCursors   \* MAX_ACTIVE_SESSION_CURSORS

ASSUME ReadersAssumption ==
    /\ Kind \in [Readers -> Journals \cup {None}]
    /\ PageSize \in Nat \ {0} /\ MaxCursors \in Nat /\ None \notin Nat

VARIABLES
    cursors,   \* the cursors the page still knows, the oldest first
    issued,    \* cursors issued so far
    reader,    \* per reader: the cursor in hand and what was listed
    steady     \* history, per reader: the entries that stayed what they were

vars == <<flags, bounds, call, history, cursors, issued, reader, steady>>

ListedAll == {"done", "refused", "idle"}

Entries(r) == IF Kind[r] = None THEN Known ELSE PagesOf(Kind[r])

\* compareSessionOrder: the latest update first; compareTimelineOrder: the
\* oldest page first; among equals by id.
Key(r, e) == IF Kind[r] = None THEN <<-journal[e].updatedAt, e>> ELSE <<page[e].at, e>>
Less(k, l) == k[1] < l[1] \/ (k[1] = l[1] /\ k[2] < l[2])

\* Mutated forms.
DecodeOrStart(r) ==
    LET found == {i \in DOMAIN cursors : cursors[i].id = reader[r].cursor}
    IN  IF found = {} THEN <<"start">> ELSE <<"after", cursors[CHOOSE i \in found : TRUE].key>>
RememberedAll(known, key) == Append(known, [id |-> issued + 1, key |-> key])

\* cursorDecode: a cursor that is not known any more is refused.
Decode(r) ==
    LET found == {i \in DOMAIN cursors : cursors[i].id = reader[r].cursor}
    IN  CASE reader[r].cursor = None -> <<"start">>
          [] reader[r].cursor # None /\ found = {} -> <<"unknown">>
          [] OTHER -> <<"after", cursors[CHOOSE i \in found : TRUE].key>>

Remaining(r) ==
    {e \in Entries(r) : Decode(r)[1] = "start" \/ Less(Decode(r)[2], Key(r, e))}

ReadPage(r) ==
    {e \in Remaining(r) :
        Cardinality({f \in Remaining(r) : Less(Key(r, f), Key(r, e))}) < PageSize}

\* cursorEncode: the oldest cursor makes room.
Remembered(known, key) ==
    LET all == Append(known, [id |-> issued + 1, key |-> key])
    IN  IF Len(all) > MaxCursors THEN Tail(all) ELSE all

LastOf(r) == CHOOSE e \in ReadPage(r) : \A f \in ReadPage(r) \ {e} : Less(Key(r, f), Key(r, e))

Read(r) ==
    /\ reader[r].status = "reading" /\ Decode(r)[1] # "unknown"
    /\ LET listed == [e \in Pages |-> reader[r].listed[e] + IF e \in ReadPage(r) THEN 1 ELSE 0]
           more == ReadPage(r) # Remaining(r)
       IN  /\ issued' = IF more THEN issued + 1 ELSE issued
           /\ cursors' = IF more THEN Remembered(cursors, Key(r, LastOf(r))) ELSE cursors
           /\ reader' = [reader EXCEPT ![r] =
                 [status |-> IF more THEN "reading" ELSE "done",
                  cursor |-> IF more THEN issued + 1 ELSE None, listed |-> listed]]
    /\ UNCHANGED <<flags, bounds, call, history, steady>>

ReadRefused(r) ==
    /\ reader[r].status = "reading"
    /\ Decode(r)[1] = "unknown" \/ (Kind[r] # None /\ Kind[r] \notin Known)
    /\ reader' = [reader EXCEPT ![r].status = "refused"]
    /\ UNCHANGED <<flags, bounds, call, history, cursors, issued, steady>>

Init ==
    \E s \in Scenarios :
        /\ SessionsInit(s)
        /\ cursors = <<>> /\ issued = 0
        /\ reader = [r \in Readers |->
                       [status |-> IF r \in s.readers THEN "reading" ELSE "idle",
                        cursor |-> None, listed |-> [e \in Pages |-> 0]]]
        /\ steady = [r \in Readers |-> Entries(r)]

\* Whatever changes a session: entries that move in the order are not steady.
Keep(r) ==
    {e \in steady[r] :
        IF Kind[r] = None THEN journal'[e].updatedAt = journal[e].updatedAt
        ELSE page'[e].at = page[e].at}

Next ==
    \/ \E c \in Calls :
          /\ CallStep(c)
          /\ steady' = [r \in Readers |-> Keep(r)]
          /\ UNCHANGED <<cursors, issued, reader>>
    \/ Reload /\ cursors' = <<>> /\ UNCHANGED <<issued, reader, steady>>
    \/ \E r \in Readers : Read(r) \/ ReadRefused(r)
    \/ /\ \A c \in Calls : call[c].at \in {"idle"} \cup Over
       /\ \A r \in Readers : reader[r].status \in ListedAll
       /\ UNCHANGED vars

Spec == Init /\ [][Next]_vars

----------------------------------------------------------------------------
TypeOK ==
    /\ \A j \in Known :
          /\ journal[j].status \in {"open", "ended"} /\ journal[j].named \in BOOLEAN
          /\ journal[j].updatedAt \in 0 .. writes /\ journal[j].rev \in 0 .. writes
          /\ journal[j].initial # None => page[journal[j].initial] # None
    /\ \A p \in Pages : page[p] # None =>
          page[p].journal \in Known /\ page[p].at \in 0 .. writes
    /\ \A c \in Calls : Running(c) /\ call[c].at # "find" /\ call[c].j # None =>
          call[c].j \in Known /\ call[c].view.rev <= journal[call[c].j].rev
    /\ Len(cursors) <= MaxCursors /\ \A r \in Readers : steady[r] \subseteq Entries(r)

\* The journals are consistent: their types, one session for a key of start, one page
\* for a key of append, one change for a key of end or reopen.
SessionsInv == TypeOK /\ OneSessionPerKey /\ PagesOnce /\ StatusAppliedOnce

\* Whoever follows the cursors to the end has seen every session, or page, that
\* stayed where it was exactly once, although the page forgets cursors when
\* there are too many and when it is reloaded; nobody is sent back to the start.
SteadyReadOnce ==
    \A r \in Readers : reader[r].status = "done" =>
        \A e \in steady[r] : reader[r].listed[e] = 1
=============================================================================
