------------------------------- MODULE Inbox --------------------------------
(***************************************************************************)
(* The inbox of one user: handlers add notifications with their            *)
(* transactions, the user marks them read and pages through them, newest   *)
(* first, with the id of the last one shown as the cursor.                 *)
(*                                                                         *)
(* A notification is created some time before it is committed, so the      *)
(* order of creation, which the pages follow, is not the order in which    *)
(* notifications appear.  Ids are numbers, ordered as the database orders  *)
(* uuids; nothing relates that order to time.                              *)
(***************************************************************************)
EXTENDS RowStore, Sequences, FiniteSets

CONSTANTS
  Foreign,                \* keys of another user's notifications
  NotRead, NoCursor,      \* NULL in read_at; no cursor
  Limits,                 \* page sizes a client asks for
  MaxLimit,               \* _MAX_LIMIT
  Kinds,                  \* commands that a run offers
  MaxCommands, MaxTime    \* bounds on the commands taken up and on the clock

VARIABLES
  clock, commands,
  pass        \* the client's way through the inbox, page by page

vars == <<storeVars, clock, commands, pass>>

Times == 0..MaxTime
Row == [created : Times, read : Times \cup {NotRead}]

\* open: there is a next page.  start: what had to be shown when the pass began.
Passes ==
  [open : BOOLEAN, unread : BOOLEAN, limit : Limits, cursor : Ids \cup Foreign \cup {NoCursor},
   shown : Seq(Ids), start : SUBSET Ids]

ASSUME InboxAssumption ==
  /\ Ids \subseteq Nat /\ Foreign \cap Ids = {}
  /\ NoRow \notin Row /\ Gone \notin Row /\ NoRow # Gone
  /\ NotRead \notin Nat /\ NoCursor \notin Ids \cup Foreign
  /\ Limits \subseteq Nat /\ MaxLimit \in Nat \ {0}
  /\ {MaxCommands, MaxTime} \subseteq Nat

Init ==
  /\ rows = Nothing
  /\ StoreInit
  /\ clock = 0 /\ commands = 0
  /\ pass \in [open : {FALSE}, unread : {FALSE}, limit : Limits, cursor : {NoCursor},
               shown : {<<>>}, start : {{}}]

TakeUp(s, kind) ==
  /\ pc[s] = "idle" /\ kind \in Kinds
  /\ commands < MaxCommands
  /\ commands' = commands + 1

(***************************************************************************)
(* Writing.                                                                *)
(***************************************************************************)
\* PersistentNotificationService.notify, in the middle of some handler.
Notify(s, i) ==
  /\ TakeUp(s, "notify") /\ Fresh(i)
  /\ Stage(s, Only(i, [created |-> clock, read |-> NotRead]), "insert")
  /\ UNCHANGED <<clock, pass>>

\* Faulty: read_at is toggled.
ToggleRead(s, i) ==
  /\ TakeUp(s, "read")
  /\ rows[i] # NoRow
  /\ Stage(s, Only(i, [rows[i] EXCEPT !.read = IF @ = NotRead THEN clock ELSE NotRead]), "save")
  /\ UNCHANGED <<clock, pass>>

\* One that is read already is left alone.
MarkRead(s, i) ==
  /\ TakeUp(s, "read")
  /\ rows[i] # NoRow /\ rows[i].read = NotRead
  /\ Stage(s, Only(i, [rows[i] EXCEPT !.read = clock]), "save")
  /\ UNCHANGED <<clock, pass>>

Insert(s) == InsertRows(s) /\ UNCHANGED <<clock, commands, pass>>

Save(s, i) == (SelectRow(s, i) \/ WriteRow(s, i)) /\ UNCHANGED <<clock, commands, pass>>

Commit(s) == CommitRows(s) /\ UNCHANGED <<clock, commands, pass>>

Fail(s) == Abort(s) /\ UNCHANGED <<clock, commands, pass>>

(***************************************************************************)
(* Reading.                                                                *)
(***************************************************************************)
\* ORDER BY created_at DESC, id DESC.
Newer(i, j) ==
  \/ rows[i].created > rows[j].created
  \/ rows[i].created = rows[j].created /\ i > j

NewestFirst(S) ==
  CHOOSE list \in [1..Cardinality(S) -> S] :
    \A m, n \in DOMAIN list : m < n => Newer(list[m], list[n])

Listed(unread) == {i \in Ids : rows[i] # NoRow /\ (unread => rows[i].read = NotRead)}

\* Faulty: the cursor is looked for among the rows that the filter leaves, and
\* is no cursor once it has been read.
AfterListed(unread, cursor) ==
  {i \in Listed(unread) : cursor \in Listed(unread) => Newer(cursor, i)}

\* A cursor that is not one of the user's notifications counts as none.
After(unread, cursor) ==
  {i \in Listed(unread) : cursor \in Listed(FALSE) => Newer(cursor, i)}

Clamp(limit) == IF limit < 1 THEN 1 ELSE IF limit > MaxLimit THEN MaxLimit ELSE limit

\* One notification more than the limit is fetched to see if there is a next page.
ReadPage(unread, limit, cursor, shown, start) ==
  LET found == NewestFirst(After(unread, cursor))
      more == Len(found) > Clamp(limit)
      page == IF more THEN SubSeq(found, 1, Clamp(limit)) ELSE found IN
  pass' = [open |-> more, unread |-> unread, limit |-> limit,
           cursor |-> IF more THEN page[Len(page)] ELSE NoCursor,
           shown |-> shown \o page, start |-> start]

StartPass ==
  /\ ~pass.open
  /\ \E unread \in BOOLEAN, cursor \in Foreign \cup {NoCursor} :
       ReadPage(unread, pass.limit, cursor, <<>>, Listed(unread))
  /\ UNCHANGED <<storeVars, clock, commands>>

NextPage ==
  /\ pass.open
  /\ ReadPage(pass.unread, pass.limit, pass.cursor, pass.shown, pass.start)
  /\ UNCHANGED <<storeVars, clock, commands>>

Tick == clock < MaxTime /\ clock' = clock + 1 /\ UNCHANGED <<storeVars, commands, pass>>

Next ==
  \/ \E s \in Sessions : \/ \E i \in Ids : Notify(s, i) \/ MarkRead(s, i) \/ Save(s, i)
                         \/ Insert(s) \/ Commit(s) \/ Fail(s)
  \/ StartPass \/ NextPage \/ Tick

Spec == Init /\ [][Next]_vars

(***************************************************************************)
(* Properties.                                                             *)
(***************************************************************************)
TypeOK ==
  /\ \A i \in Ids : rows[i] \in Row \cup {NoRow}
  /\ pc \in [Sessions -> {"idle", "insert", "save"}]
  /\ \A s \in Sessions, i \in Ids :
       /\ staged[s][i] \in Row \cup {NoRow}
       /\ seen[s][i] \in Row \cup {NoRow}
       /\ draft[s][i] \in Row \cup {NoRow}
  /\ mixed \in [Sessions -> SUBSET Ids] /\ outdated \in [Sessions -> SUBSET Ids]
  /\ torn \subseteq Ids /\ lost \subseteq Ids
  /\ clock \in Times /\ commands \in 0..MaxCommands
  /\ pass \in Passes

Shown == {pass.shown[n] : n \in DOMAIN pass.shown}

\* notification_repository.py:67-100: page after page shows everything that was
\* there when the client began, and nothing twice, while notifications arrive
\* between the pages, some of them older than the cursor, and others are read.
PassShowsEachOnce ==
  /\ \A m, n \in DOMAIN pass.shown : pass.shown[m] = pass.shown[n] => m = n
  /\ \A i \in pass.start :
       \/ i \in Shown
       \/ pass.open /\ Newer(pass.cursor, i)
       \/ pass.unread /\ rows[i].read # NotRead

\* notification.py:37-41: the time at which a notification was read does not move.
\* Two requests that both find it unread move it nevertheless.
ReadIsFinal ==
  [][\A i \in Ids : rows[i] # NoRow /\ rows[i].read # NotRead =>
       rows'[i] = rows[i] \/ i \in lost']_vars
=============================================================================
