------------------------------ MODULE RowStore ------------------------------
(***************************************************************************)
(* How a request of venue-backend reads and writes rows outside the        *)
(* booking tables: one SQLAlchemy session per request, one PostgreSQL      *)
(* transaction per session, READ COMMITTED.                                *)
(*                                                                         *)
(* A handler loads entities, changes them in memory and saves them.  A     *)
(* repository's update() selects the row again, assigns every column, and  *)
(* the flush sends the columns that differ from what that SELECT found.  A *)
(* written row is locked until the transaction ends.  A row is a function  *)
(* from its columns; Ids are the primary keys of all tables together.      *)
(***************************************************************************)
EXTENDS Naturals

CONSTANTS
  Sessions,   \* requests (and jobs) that may be open at the same time
  Ids,        \* primary keys
  NoRow,      \* no row, no entity
  Gone        \* the version of a row that a DELETE writes

VARIABLES
  rows,       \* Ids -> committed row or NoRow
  pc,         \* where a session's handler stands
  staged,     \* Sessions -> Ids -> entity in memory that is still to be saved
  seen,       \* Sessions -> Ids -> row as the SELECT inside update() found it
  draft,      \* Sessions -> Ids -> version written by the open transaction
  mixed,      \* auxiliary: rows a session wrote that differ from its entity
  outdated,   \* auxiliary: rows that changed after a session had loaded them
  torn,       \* auxiliary: committed rows that were no handler's entity
  lost        \* auxiliary: committed rows that replaced one their writer never read

storeVars == <<rows, pc, staged, seen, draft, mixed, outdated, torn, lost>>

Nothing == [i \in Ids |-> NoRow]

StoreInit ==
  /\ pc = [s \in Sessions |-> "idle"]
  /\ staged = [s \in Sessions |-> Nothing]
  /\ seen = [s \in Sessions |-> Nothing]
  /\ draft = [s \in Sessions |-> Nothing]
  /\ mixed = [s \in Sessions |-> {}] /\ outdated = [s \in Sessions |-> {}]
  /\ torn = {} /\ lost = {}

\* A SELECT finds the session's own version of a row, else the committed one.
View(s, i) ==
  CASE draft[s][i] = NoRow -> rows[i]
    [] draft[s][i] = Gone  -> NoRow
    [] OTHER               -> draft[s][i]

\* uuid4: a new key is no row's key and nobody else has drawn it.
Fresh(i) ==
  /\ rows[i] = NoRow
  /\ \A s \in Sessions : staged[s][i] = NoRow /\ draft[s][i] = NoRow

LockedAgainst(s, i) == \E u \in Sessions \ {s} : draft[u][i] # NoRow

\* The UPDATE names the columns in which the entity differs from the row that
\* update() selected, and applies them to the newest version of the row.
Written(entity, old, cur) ==
  [c \in DOMAIN entity |-> IF entity[c] # old[c] THEN entity[c] ELSE cur[c]]

Saved(s) == pc[s] = "save" /\ staged[s] = Nothing

\* A handler has loaded or built the entities it will save.
Stage(s, entities, next) ==
  /\ staged' = [staged EXCEPT ![s] = entities]
  /\ pc' = [pc EXCEPT ![s] = next]
  /\ UNCHANGED <<rows, seen, draft, mixed, outdated, torn, lost>>

Only(i, entity) == [Nothing EXCEPT ![i] = entity]

\* The transaction ends and the session forgets everything.
Close(s) ==
  /\ pc' = [pc EXCEPT ![s] = "idle"]
  /\ staged' = [staged EXCEPT ![s] = Nothing]
  /\ seen' = [seen EXCEPT ![s] = Nothing]
  /\ draft' = [draft EXCEPT ![s] = Nothing]
  /\ mixed' = [mixed EXCEPT ![s] = {}]

Rollback(s) ==
  /\ Close(s)
  /\ outdated' = [outdated EXCEPT ![s] = {}]
  /\ UNCHANGED <<rows, torn, lost>>

Unsaved(s, i) == pc[s] = "save" /\ staged[s][i] # NoRow

SelectRow(s, i) ==
  /\ Unsaved(s, i) /\ seen[s][i] = NoRow
  /\ View(s, i) # NoRow
  /\ seen' = [seen EXCEPT ![s][i] = View(s, i)]
  /\ UNCHANGED <<rows, pc, staged, draft, mixed, outdated, torn, lost>>

WriteRow(s, i) ==
  LET version == Written(staged[s][i], seen[s][i], View(s, i)) IN
  /\ Unsaved(s, i) /\ seen[s][i] # NoRow
  /\ View(s, i) # NoRow
  /\ ~LockedAgainst(s, i)
  /\ draft' = [draft EXCEPT ![s][i] = version]
  /\ mixed' = [mixed EXCEPT ![s] = IF version = staged[s][i] THEN @ ELSE @ \cup {i}]
  /\ staged' = [staged EXCEPT ![s][i] = NoRow]
  /\ seen' = [seen EXCEPT ![s][i] = NoRow]
  /\ UNCHANGED <<rows, pc, outdated, torn, lost>>

\* The row was deleted meanwhile: update() answers 404, or the UPDATE matches
\* no row and SQLAlchemy raises.
RowVanished(s, i) ==
  /\ Unsaved(s, i)
  /\ View(s, i) = NoRow
  /\ Rollback(s)

\* What a unique index knows: the committed rows, ...
Stored == {rows[i] : i \in Ids} \ {NoRow}

\* ... and those for which an INSERT of the same key has to wait: rows that another
\* transaction is changing or deleting, and the versions it has written.
InFlight(s) ==
  ({rows[i] : i \in {j \in Ids : LockedAgainst(s, j)}}
    \cup {draft[u][i] : u \in Sessions \ {s}, i \in Ids}) \ {NoRow, Gone}

\* One flush inserts all new rows of the session, or none.  The modules that
\* extend this one say which keys are unique.
InsertRows(s) ==
  /\ pc[s] = "insert"
  /\ draft' = [draft EXCEPT ![s] = staged[s]]
  /\ staged' = [staged EXCEPT ![s] = Nothing]
  /\ pc' = [pc EXCEPT ![s] = "save"]
  /\ UNCHANGED <<rows, seen, mixed, outdated, torn, lost>>

\* IntegrityError: the repository rolls back and answers 409.
InsertRefused(s) == pc[s] = "insert" /\ Rollback(s)

\* session.commit() at the end of get_session().
CommitRows(s) ==
  /\ Saved(s)
  /\ rows' = [i \in Ids |-> View(s, i)]
  /\ torn' = torn \cup mixed[s]
  /\ lost' = lost \cup {i \in outdated[s] : draft[s][i] # NoRow}
  /\ outdated' = [u \in Sessions |->
                    IF u = s THEN {}
                    ELSE outdated[u] \cup {i \in Ids : /\ staged[u][i] # NoRow
                                                      /\ draft[s][i] # NoRow}]
  /\ Close(s)

\* A failed statement, a lost connection, a crash of the process.
Abort(s) == pc[s] # "idle" /\ Rollback(s)
=============================================================================
