------------------------------ MODULE Bookings ------------------------------
(***************************************************************************)
(* The booking life cycle of venue-backend: the six handlers that create   *)
(* or change a booking, the two resource commands that race with them and  *)
(* the expiry job, each run inside one PostgreSQL READ COMMITTED           *)
(* transaction.                                                            *)
(*                                                                         *)
(* A session is one pooled database connection; it serves one request at a *)
(* time.  Every SELECT of a handler whose position matters is a step that  *)
(* sees the rows committed at that moment, every repository update() is    *)
(* two steps: a SELECT of the row as it is now, and an UPDATE that takes   *)
(* the row lock and writes the columns in which the entity differs from    *)
(* that SELECT.  COMMIT publishes all the rows and notifications of the    *)
(* transaction at once.  The entity a handler holds between its first      *)
(* SELECT and its UPDATE is kept in "staged", however old it becomes.      *)
(***************************************************************************)
EXTENDS Integers, Sequences, FiniteSets

CONSTANTS
  Users,                \* accounts; owners and customers alike
  Resources,
  OwnerOf,              \* Resource.owner_id, which no command changes
  BookingIds,           \* the uuid4 values that bookings may receive
  Slots,                \* the slot ranges the resources' grids offer
  Sessions,             \* pooled database sessions
  Cutoff,               \* customer_cancellation_cutoff_hours
  MaxTime,              \* bound on the clock
  Kinds,                \* the requests a model explores
  Failures,             \* requests may fail for reasons of their own
  ExclusionConstraint,  \* bookings_no_approved_overlap exists (PostgreSQL)
  NoRow                 \* no such row, nothing held, no value

Statuses == {"PENDING", "APPROVED", "REJECTED", "CANCELLED", "EXPIRED"}
Roles    == {"OWNER", "CUSTOMER"}
Reasons  == {"given", "auto_rejected", "resource_deleted", "slot_passed"}
AllKinds == {"request", "approve", "reject", "cancel", "delete", "publish",
             "expire"}
Steps    == {"idle", "dedup", "lock", "refetch", "competitors", "pendings",
             "write", "resource", "commit", "return"}

StatusChange == [from: Statuses, to: Statuses, role: Roles, reason: Reasons]

BookingRow == [resource: Resources, customer: Users, slot: Slots,
               status: Statuses, history: Seq(StatusChange)]
ResourceRow == [deleted: BOOLEAN, published: BOOLEAN]

NotifKinds == {"REQUESTED", "APPROVED", "REJECTED", "CANCELLED"}
Notice == [to: Users, kind: NotifKinds, booking: BookingIds]

Op == [kind: AllKinds, actor: Users \cup {NoRow},
       booking: BookingIds \cup {NoRow}, resource: Resources \cup {NoRow},
       slot: Slots \cup {NoRow}]

ASSUME OwnerAssumption  == OwnerOf \in [Resources -> Users]
ASSUME SlotAssumption   ==
  /\ Slots \subseteq [start: Nat, end: Nat]
  /\ \A x \in Slots : x.start < x.end
ASSUME TimeAssumption   == Cutoff \in Nat /\ MaxTime \in Nat
ASSUME KindAssumption   == Kinds \subseteq AllKinds
ASSUME SwitchAssumption == {Failures, ExclusionConstraint} \subseteq BOOLEAN
ASSUME NoRowAssumption  ==
  /\ NoRow \notin Users \cup Resources \cup BookingIds \cup Slots \cup Sessions
  /\ NoRow \notin BookingRow \cup [resource : Resources, slot : Slots]

VARIABLES
  clock,        \* datetime.now(UTC), in units of the slot grid
  bookings,     \* committed rows of table bookings
  resources,    \* committed rows of table resources
  operational,  \* is_operational() of each owner's committed subscription
  inbox,        \* committed rows of table notifications, counted
  pc,           \* where each session's handler stands
  op,           \* the command each session serves
  staged,       \* booking entities in memory, changed and not yet written
  draft,        \* booking rows written by the open transaction (and locked)
  seen,         \* the status that update()'s own SELECT found
  resStaged,    \* the resource entity in memory
  resSeen,      \* the resource row that update()'s own SELECT found
  resDraft,     \* the resource row written by the open transaction
  outbox,       \* notification rows added by the open transaction
  advisory      \* the session that holds each resource's advisory lock

tables  == <<bookings, resources, inbox>>
updating == <<seen, resSeen>>
session == <<pc, op, staged, draft, updating, resStaged, resDraft, outbox,
             advisory>>
vars == <<clock, tables, operational, session>>

NothingHeld == [b \in BookingIds |-> NoRow]
Command(kind, actor, b, r, x) ==
  [kind |-> kind, actor |-> actor, booking |-> b, resource |-> r, slot |-> x]
NoOp == Command("request", NoRow, NoRow, NoRow, NoRow)

-----------------------------------------------------------------------------
(* Value objects and entities. *)

\* DateTimeRange.overlaps and the repository's _overlaps_clause: half-open.
Overlaps(x, y) == x.start < y.end /\ y.start < x.end

\* Faulty: repeating a decision is taken for a success.
IsValidTransitionRepeated(from, to) ==
  \/ from = "PENDING" /\ to \in Statuses \ {"PENDING"}
  \/ from = "APPROVED" /\ to = "CANCELLED"
  \/ from = to

\* Faulty: anything can be cancelled.
IsValidTransitionAnyCancel(from, to) ==
  \/ from = "PENDING" /\ to \in Statuses \ {"PENDING"}
  \/ to = "CANCELLED"

\* _VALID_TRANSITIONS of status_change.py.
IsValidTransition(from, to) ==
  \/ from = "PENDING" /\ to \in Statuses \ {"PENDING"}
  \/ from = "APPROVED" /\ to = "CANCELLED"

IsActive(status) == status \in {"PENDING", "APPROVED"}

\* Faulty: the two ids of create_pending are swapped.
PendingRowSwapped(r, c, x) ==
  [resource |-> c, customer |-> r, slot |-> x, status |-> "PENDING",
   history |-> <<>>]

\* Booking.create_pending.
PendingRow(r, c, x) ==
  [resource |-> r, customer |-> c, slot |-> x, status |-> "PENDING",
   history |-> <<>>]

Change(from, to, role, reason) ==
  [from |-> from, to |-> to, role |-> role, reason |-> reason]

Rewritten(row, status, history) ==
  [resource |-> row.resource, customer |-> row.customer, slot |-> row.slot,
   status |-> status, history |-> history]

\* Faulty: the audit record takes every change to start from PENDING.
TransitionFromPending(row, to, role, reason) ==
  Rewritten(row, to, Append(row.history, Change("PENDING", to, role, reason)))

\* Faulty: the audit trail keeps the last change only.
TransitionLastOnly(row, to, role, reason) ==
  Rewritten(row, to, <<Change(row.status, to, role, reason)>>)

\* Booking._transition: status and history change together.
Transition(row, to, role, reason) ==
  Rewritten(row, to, Append(row.history, Change(row.status, to, role, reason)))

Tell(user, kind, b) == [to |-> user, kind |-> kind, booking |-> b]

-----------------------------------------------------------------------------
(* Queries of the booking repository, over the committed rows. *)

\* Faulty: dedup looks for pending requests only.
ActiveByCustomerPending(c, r, x) ==
  {b \in BookingIds :
     /\ bookings[b] # NoRow
     /\ bookings[b].customer = c
     /\ bookings[b].resource = r
     /\ bookings[b].status = "PENDING"
     /\ Overlaps(bookings[b].slot, x)}

ActiveByCustomer(c, r, x) ==
  {b \in BookingIds :
     /\ bookings[b] # NoRow
     /\ bookings[b].customer = c
     /\ bookings[b].resource = r
     /\ IsActive(bookings[b].status)
     /\ Overlaps(bookings[b].slot, x)}

PendingFor(r) ==
  {b \in BookingIds : /\ bookings[b] # NoRow
                      /\ bookings[b].resource = r
                      /\ bookings[b].status = "PENDING"}

\* Faulty: every other request on the resource competes.
PendingOverlappingAnySlot(r, x, exclude) == PendingFor(r) \ {exclude}

PendingOverlapping(r, x, exclude) ==
  {b \in PendingFor(r) \ {exclude} : Overlaps(bookings[b].slot, x)}

PendingStartedBefore(now) ==
  {b \in BookingIds : /\ bookings[b] # NoRow
                      /\ bookings[b].status = "PENDING"
                      /\ bookings[b].slot.start < now}

\* Faulty: a booking that starts now does not count.
ApprovedStartingAfter(r, now) ==
  {b \in BookingIds : /\ bookings[b] # NoRow
                      /\ bookings[b].resource = r
                      /\ bookings[b].status = "APPROVED"
                      /\ bookings[b].slot.start > now}

ApprovedStartingFrom(r, now) ==
  {b \in BookingIds : /\ bookings[b] # NoRow
                      /\ bookings[b].resource = r
                      /\ bookings[b].status = "APPROVED"
                      /\ bookings[b].slot.start >= now}

\* The entities of B after a transition, ready for update().
Moved(B, to, role, reason) ==
  [b \in BookingIds |-> IF b \in B
                        THEN Transition(bookings[b], to, role, reason)
                        ELSE NoRow]

-----------------------------------------------------------------------------
(* Locks and the exclusion constraint. *)

ResourceLockedByOther(s, r) ==
  \E u \in Sessions \ {s} : resDraft[u] # NoRow /\ op[u].resource = r

\* Two row versions the exclusion constraint does not admit together.
Clash(x, y) ==
  /\ y # NoRow
  /\ x.status = "APPROVED" /\ y.status = "APPROVED"
  /\ x.resource = y.resource
  /\ Overlaps(x.slot, y.slot)

\* A clash that depends on how transaction u ends: s waits for u.
ClashInFlight(s, u, b, row) ==
  \E c \in BookingIds \ {b} :
     /\ draft[u][c] # NoRow
     /\ Clash(row, draft[u][c]) \/ Clash(row, bookings[c])

\* Faulty: the constraint does not see committed rows.
ClashKnownUnseen(s, b, row) == FALSE

\* A clash with a version of a row that no other transaction is changing.
ClashKnown(s, b, row) ==
  \E c \in BookingIds \ {b} :
     /\ \A u \in Sessions \ {s} : draft[u][c] = NoRow
     /\ Clash(row, IF draft[s][c] # NoRow THEN draft[s][c] ELSE bookings[c])

\* The row that the UPDATE of booking b produces.  The history always differs
\* from what SELECT found, as the entity ends with a change of its own; status
\* is not in the SET list if SELECT found it already there.
Written(s, b) ==
  LET entity == staged[s][b]
  IN  IF entity.status = seen[s][b]
      THEN Rewritten(entity, bookings[b].status, entity.history)
      ELSE entity

\* What the UPDATE of booking b by session s waits for.
WaitsForRow(s, u, b) ==
  \/ draft[u][b] # NoRow
  \/ ExclusionConstraint /\ ClashInFlight(s, u, b, Written(s, b))

\* approve_booking.py writes the approved target before the competitors; the
\* other loops follow a query without ORDER BY.
NextWrites(s) ==
  LET pending == {b \in BookingIds : staged[s][b] # NoRow}
  IN  IF op[s].kind = "approve" /\ op[s].booking \in pending
      THEN {op[s].booking}
      ELSE pending

-----------------------------------------------------------------------------
Init ==
  /\ clock = 0
  /\ bookings = NothingHeld
  /\ resources = [r \in Resources |-> [deleted |-> FALSE, published |-> TRUE]]
  /\ operational = [u \in Users |-> TRUE]
  /\ inbox = [n \in Notice |-> 0]
  /\ pc = [s \in Sessions |-> "idle"]
  /\ op = [s \in Sessions |-> NoOp]
  /\ staged = [s \in Sessions |-> NothingHeld]
  /\ draft = [s \in Sessions |-> NothingHeld]
  /\ seen = [s \in Sessions |-> NothingHeld]
  /\ resStaged = [s \in Sessions |-> NoRow]
  /\ resSeen = [s \in Sessions |-> NoRow]
  /\ resDraft = [s \in Sessions |-> NoRow]
  /\ outbox = [s \in Sessions |-> {}]
  /\ advisory = [r \in Resources |-> NoRow]

\* Session s takes up a command and moves to step "next".
Serve(s, command, next) ==
  /\ pc[s] = "idle"
  /\ command.kind \in Kinds
  /\ op' = [op EXCEPT ![s] = command]
  /\ pc' = [pc EXCEPT ![s] = next]

\* Faulty: a session-level advisory lock outlives the transaction.
ReleaseKeepsLock(s) ==
  /\ pc' = [pc EXCEPT ![s] = "idle"]
  /\ op' = [op EXCEPT ![s] = NoOp]
  /\ staged' = [staged EXCEPT ![s] = NothingHeld]
  /\ draft' = [draft EXCEPT ![s] = NothingHeld]
  /\ seen' = [seen EXCEPT ![s] = NothingHeld]
  /\ resStaged' = [resStaged EXCEPT ![s] = NoRow]
  /\ resSeen' = [resSeen EXCEPT ![s] = NoRow]
  /\ resDraft' = [resDraft EXCEPT ![s] = NoRow]
  /\ outbox' = [outbox EXCEPT ![s] = {}]
  /\ UNCHANGED advisory

\* The transaction of s is over, committed or rolled back: its row locks and
\* its advisory lock (an xact lock) are gone and the session is returned.
Release(s) ==
  /\ pc' = [pc EXCEPT ![s] = "idle"]
  /\ op' = [op EXCEPT ![s] = NoOp]
  /\ staged' = [staged EXCEPT ![s] = NothingHeld]
  /\ draft' = [draft EXCEPT ![s] = NothingHeld]
  /\ seen' = [seen EXCEPT ![s] = NothingHeld]
  /\ resStaged' = [resStaged EXCEPT ![s] = NoRow]
  /\ resSeen' = [resSeen EXCEPT ![s] = NoRow]
  /\ resDraft' = [resDraft EXCEPT ![s] = NoRow]
  /\ outbox' = [outbox EXCEPT ![s] = {}]
  /\ advisory' = [r \in Resources |-> IF advisory[r] = s THEN NoRow
                                                       ELSE advisory[r]]

Rollback(s) == Release(s) /\ UNCHANGED <<tables, clock, operational>>

-----------------------------------------------------------------------------
(* RequestBookingHandler. *)

IsFresh(b) == bookings[b] = NoRow /\ \A u \in Sessions : op[u].booking # b

\* Steps 2-5: the gates on the resource, the subscription and the slot.  The
\* uuid4 of the booking to come is drawn here.
LoadForRequest(s, c, r, x, b) ==
  /\ ~resources[r].deleted
  /\ resources[r].published
  /\ operational[OwnerOf[r]]
  /\ x.start > clock
  /\ IsFresh(b)
  /\ Serve(s, Command("request", c, b, r, x), "dedup")
  /\ UNCHANGED <<tables, clock, operational, updating, staged, draft,
                 resStaged, resDraft, outbox, advisory>>

\* Step 6: BookingAlreadyExists.
RefuseDuplicate(s) ==
  /\ pc[s] = "dedup"
  /\ ActiveByCustomer(op[s].actor, op[s].resource, op[s].slot) # {}
  /\ Rollback(s)

\* Steps 6-8: no duplicate seen; INSERT the booking and the owner's notice.
AddBooking(s) ==
  /\ pc[s] = "dedup"
  /\ ActiveByCustomer(op[s].actor, op[s].resource, op[s].slot) = {}
  /\ draft' = [draft EXCEPT ![s][op[s].booking] =
                 PendingRow(op[s].resource, op[s].actor, op[s].slot)]
  /\ outbox' = [outbox EXCEPT ![s] =
                  {Tell(OwnerOf[op[s].resource], "REQUESTED", op[s].booking)}]
  /\ pc' = [pc EXCEPT ![s] = "commit"]
  /\ UNCHANGED <<tables, clock, operational, updating, op, staged, resStaged,
                 resDraft, advisory>>

-----------------------------------------------------------------------------
(* ApproveBookingHandler. *)

\* Steps 1-3: existence, ownership and subscription; the status is not read.
LoadForApprove(s, b) ==
  /\ bookings[b] # NoRow
  /\ ~resources[bookings[b].resource].deleted
  /\ operational[OwnerOf[bookings[b].resource]]
  /\ Serve(s, Command("approve", NoRow, b, bookings[b].resource, NoRow), "lock")
  /\ UNCHANGED <<tables, clock, operational, updating, staged, draft,
                 resStaged, resDraft, outbox, advisory>>

\* Faulty: the lock service of the unit tests, which locks nothing.
AcquireLockNoOp(s) ==
  /\ pc[s] = "lock"
  /\ pc' = [pc EXCEPT ![s] = "refetch"]
  /\ UNCHANGED <<tables, clock, operational, updating, op, staged, draft,
                 resStaged, resDraft, outbox, advisory>>

\* acquire_for_resource: pg_advisory_xact_lock.
AcquireLock(s) ==
  /\ pc[s] = "lock"
  /\ advisory[op[s].resource] = NoRow
  /\ advisory' = [advisory EXCEPT ![op[s].resource] = s]
  /\ pc' = [pc EXCEPT ![s] = "refetch"]
  /\ UNCHANGED <<tables, clock, operational, updating, op, staged, draft,
                 resStaged, resDraft, outbox>>

\* The re-fetch under the lock finds the booking decided: 409.
RefuseDecided(s) ==
  /\ pc[s] = "refetch"
  /\ bookings[op[s].booking].status # "PENDING"
  /\ Rollback(s)

\* Faulty: the status is not looked at again under the lock.
RefetchUnchecked(s) ==
  /\ pc[s] = "refetch"
  /\ staged' = [staged EXCEPT ![s] =
                  Moved({op[s].booking}, "APPROVED", "OWNER", "given")]
  /\ pc' = [pc EXCEPT ![s] = "competitors"]
  /\ UNCHANGED <<tables, clock, operational, updating, op, draft, resStaged,
                 resDraft, outbox, advisory>>

\* The re-fetch under the lock finds it PENDING; the entity read here is the
\* one approved and written.
Refetch(s) ==
  /\ pc[s] = "refetch"
  /\ bookings[op[s].booking].status = "PENDING"
  /\ staged' = [staged EXCEPT ![s] =
                  Moved({op[s].booking}, "APPROVED", "OWNER", "given")]
  /\ pc' = [pc EXCEPT ![s] = "competitors"]
  /\ UNCHANGED <<tables, clock, operational, updating, op, draft, resStaged,
                 resDraft, outbox, advisory>>

\* list_pending_overlapping, then the transitions of target and competitors.
ListCompetitors(s) ==
  /\ pc[s] = "competitors"
  /\ LET b == op[s].booking
         target == staged[s][b]
         losers == PendingOverlapping(target.resource, target.slot, b)
     IN  /\ staged' = [staged EXCEPT ![s] =
                         [Moved(losers, "REJECTED", "OWNER", "auto_rejected")
                          EXCEPT ![b] = target]]
         /\ outbox' = [outbox EXCEPT ![s] =
                         {Tell(target.customer, "APPROVED", b)} \cup
                         {Tell(bookings[c].customer, "REJECTED", c) :
                            c \in losers}]
  /\ pc' = [pc EXCEPT ![s] = "write"]
  /\ UNCHANGED <<tables, clock, operational, updating, op, draft, resStaged,
                 resDraft, advisory>>

\* The exclusion constraint refuses the approval: IntegrityError, 500.
ExclusionViolation(s, b) ==
  /\ ExclusionConstraint
  /\ seen[s][b] # NoRow
  /\ \A u \in Sessions \ {s} : draft[u][b] = NoRow
  /\ ClashKnown(s, b, Written(s, b))
  /\ Rollback(s)

-----------------------------------------------------------------------------
(* RejectBookingHandler and CancelBookingHandler: no lock is taken between   *)
(* the SELECT of the entity and its update().                                *)

\* A deleted resource is no obstacle; the actor is the owner.
LoadForReject(s, b) ==
  /\ bookings[b] # NoRow
  /\ IsValidTransition(bookings[b].status, "REJECTED")
  /\ Serve(s, Command("reject", NoRow, b, NoRow, NoRow), "write")
  /\ staged' = [staged EXCEPT ![s] =
                  Moved({b}, "REJECTED", "OWNER", "given")]
  /\ outbox' = [outbox EXCEPT ![s] =
                  {Tell(bookings[b].customer, "REJECTED", b)}]
  /\ UNCHANGED <<tables, clock, operational, updating, draft, resStaged,
                 resDraft, advisory>>

\* The owner, or the customer before the cutoff; the counterpart is told.
LoadForCancel(s, b, actor) ==
  /\ bookings[b] # NoRow
  /\ LET customer == bookings[b].customer
         owner == OwnerOf[bookings[b].resource]
     IN  /\ actor \in {customer, owner}
         /\ actor # owner => clock < bookings[b].slot.start - Cutoff
         /\ staged' = [staged EXCEPT ![s] =
                         Moved({b}, "CANCELLED",
                               IF actor = owner THEN "OWNER" ELSE "CUSTOMER",
                               "given")]
         /\ outbox' = [outbox EXCEPT ![s] =
                         {Tell(IF actor = customer THEN owner ELSE customer,
                               "CANCELLED", b)}]
  /\ IsValidTransition(bookings[b].status, "CANCELLED")
  /\ Serve(s, Command("cancel", actor, b, NoRow, NoRow), "write")
  /\ UNCHANGED <<tables, clock, operational, updating, draft, resStaged,
                 resDraft, advisory>>

-----------------------------------------------------------------------------
(* SoftDeleteResourceHandler, PublishResourceHandler and                     *)
(* UnpublishResourceHandler.                                                 *)

\* load_owned_resource, then ResourceHasFutureApprovedBookings.
LoadForDelete(s, r) ==
  /\ ~resources[r].deleted
  /\ ApprovedStartingFrom(r, clock) = {}
  /\ Serve(s, Command("delete", NoRow, NoRow, r, NoRow), "pendings")
  /\ resStaged' = [resStaged EXCEPT ![s] =
                     [resources[r] EXCEPT !.deleted = TRUE]]
  /\ UNCHANGED <<tables, clock, operational, updating, staged, draft, resDraft,
                 outbox, advisory>>

\* list_pending_for_resource and the cancellation of what it returns.
ListPendings(s) ==
  /\ pc[s] = "pendings"
  /\ LET found == PendingFor(op[s].resource)
     IN  /\ staged' = [staged EXCEPT ![s] =
                         Moved(found, "CANCELLED", "OWNER",
                               "resource_deleted")]
         /\ outbox' = [outbox EXCEPT ![s] =
                         {Tell(bookings[b].customer, "CANCELLED", b) :
                            b \in found}]
         /\ pc' = [pc EXCEPT ![s] = IF found = {} THEN "resource" ELSE "write"]
  /\ UNCHANGED <<tables, clock, operational, updating, op, draft, resStaged,
                 resDraft, advisory>>

LoadForPublish(s, r, published) ==
  /\ ~resources[r].deleted
  /\ Serve(s, Command("publish", NoRow, NoRow, r, NoRow), "resource")
  /\ resStaged' = [resStaged EXCEPT ![s] =
                     [resources[r] EXCEPT !.published = published]]
  /\ UNCHANGED <<tables, clock, operational, updating, staged, draft, resDraft,
                 outbox, advisory>>

\* SQLAlchemyResourceRepository.update: SELECT the row.
SelectResource(s) ==
  /\ pc[s] = "resource"
  /\ resSeen[s] = NoRow
  /\ resSeen' = [resSeen EXCEPT ![s] = resources[op[s].resource]]
  /\ UNCHANGED <<tables, clock, operational, pc, op, staged, draft, seen,
                 resStaged, resDraft, outbox, advisory>>

\* UPDATE the columns in which the entity differs from it.  A deletion always
\* differs: deleted_at is a time of its own.
WriteResource(s) ==
  /\ pc[s] = "resource"
  /\ resSeen[s] # NoRow
  /\ ~ResourceLockedByOther(s, op[s].resource)
  /\ LET entity == resStaged[s]
         row == resources[op[s].resource]
     IN  resDraft' = [resDraft EXCEPT ![s] =
           [deleted |-> IF ~entity.deleted /\ ~resSeen[s].deleted
                        THEN row.deleted ELSE entity.deleted,
            published |-> IF entity.published = resSeen[s].published
                          THEN row.published ELSE entity.published]]
  /\ resSeen' = [resSeen EXCEPT ![s] = NoRow]
  /\ pc' = [pc EXCEPT ![s] = "commit"]
  /\ UNCHANGED <<tables, clock, operational, op, staged, draft, seen,
                 resStaged, outbox, advisory>>

-----------------------------------------------------------------------------
(* The expiry job. *)

ListOverdue(s) ==
  /\ PendingStartedBefore(clock) # {}
  /\ Serve(s, Command("expire", NoRow, NoRow, NoRow, NoRow), "write")
  /\ LET found == PendingStartedBefore(clock)
     IN  /\ staged' = [staged EXCEPT ![s] =
                         Moved(found, "EXPIRED", "CUSTOMER", "slot_passed")]
         /\ outbox' = [outbox EXCEPT ![s] =
                         {Tell(bookings[b].customer, "REJECTED", b) :
                            b \in found}]
  /\ UNCHANGED <<tables, clock, operational, updating, draft, resStaged,
                 resDraft, advisory>>

\* main() returns from inside "async for session in get_session()": the
\* generator is closed at its yield, so session.commit() is never reached and
\* closing the session rolls the transaction back.
JobReturns(s) == pc[s] = "return" /\ Rollback(s)

-----------------------------------------------------------------------------
(* The end of every request. *)

\* The step that follows the last update() of a booking.
AfterWrites(kind) ==
  CASE kind = "delete" -> "resource"
    [] kind = "expire" -> "return"
    [] OTHER -> "commit"

\* SQLAlchemyBookingRepository.update: SELECT the row, locked or not.
SelectRow(s, b) ==
  /\ pc[s] = "write"
  /\ seen[s] = NothingHeld
  /\ b \in NextWrites(s)
  /\ seen' = [seen EXCEPT ![s][b] = bookings[b].status]
  /\ UNCHANGED <<tables, clock, operational, pc, op, staged, draft, resStaged,
                 resSeen, resDraft, outbox, advisory>>

\* The UPDATE, once the row lock is free and the exclusion constraint satisfied.
Write(s, b) ==
  /\ seen[s][b] # NoRow
  /\ \A u \in Sessions \ {s} : ~WaitsForRow(s, u, b)
  /\ ExclusionConstraint => ~ClashKnown(s, b, Written(s, b))
  /\ draft' = [draft EXCEPT ![s][b] = Written(s, b)]
  /\ staged' = [staged EXCEPT ![s][b] = NoRow]
  /\ seen' = [seen EXCEPT ![s] = NothingHeld]
  /\ pc' = [pc EXCEPT ![s] = IF \A c \in BookingIds \ {b} : staged[s][c] = NoRow
                             THEN AfterWrites(op[s].kind)
                             ELSE "write"]
  /\ UNCHANGED <<tables, clock, operational, op, resStaged, resSeen, resDraft,
                 outbox, advisory>>

\* Faulty: notices are sent outside the transaction, and lost with the process.
CommitWithoutNotices(s) ==
  /\ pc[s] = "commit"
  /\ bookings' = [b \in BookingIds |-> IF draft[s][b] = NoRow
                                       THEN bookings[b] ELSE draft[s][b]]
  /\ resources' = [r \in Resources |->
                     IF r = op[s].resource /\ resDraft[s] # NoRow
                     THEN resDraft[s] ELSE resources[r]]
  /\ Release(s)
  /\ UNCHANGED <<clock, operational, inbox>>

\* get_session after a successful handler: rows and notices appear together.
Commit(s) ==
  /\ pc[s] = "commit"
  /\ bookings' = [b \in BookingIds |-> IF draft[s][b] = NoRow
                                       THEN bookings[b] ELSE draft[s][b]]
  /\ resources' = [r \in Resources |->
                     IF r = op[s].resource /\ resDraft[s] # NoRow
                     THEN resDraft[s] ELSE resources[r]]
  /\ inbox' = [n \in Notice |-> IF n \in outbox[s] THEN inbox[n] + 1
                                                   ELSE inbox[n]]
  /\ Release(s)
  /\ UNCHANGED <<clock, operational>>

\* Any failure on the way: a statement error, a lost connection, a crash.
Abort(s) == Failures /\ pc[s] # "idle" /\ Rollback(s)

\* s cannot take its next step before u ends.
WaitsFor(s, u) ==
  /\ u # s
  /\ \/ pc[s] = "lock" /\ advisory[op[s].resource] = u
     \/ \E b \in BookingIds : seen[s][b] # NoRow /\ WaitsForRow(s, u, b)
     \/ /\ resSeen[s] # NoRow
        /\ resDraft[u] # NoRow
        /\ op[u].resource = op[s].resource

\* PostgreSQL's deadlock detector aborts a member of a cycle of waiters.
DeadlockAbort(s) ==
  /\ \E S \in SUBSET Sessions :
       /\ s \in S
       /\ \A u \in S : /\ \E v \in S : WaitsFor(u, v)
                       /\ \E v \in S : WaitsFor(v, u)
  /\ Rollback(s)

-----------------------------------------------------------------------------
(* The environment. *)

Tick ==
  /\ clock < MaxTime
  /\ clock' = clock + 1
  /\ UNCHANGED <<tables, operational, session>>

\* SetOwnerSubscriptionStatusHandler, one row: only is_operational() matters.
SetSubscription(u) ==
  /\ operational' = [operational EXCEPT ![u] = ~operational[u]]
  /\ UNCHANGED <<clock, tables, session>>

Begin(s) ==
  \/ \E c \in Users, r \in Resources, x \in Slots, b \in BookingIds :
       LoadForRequest(s, c, r, x, b)
  \/ \E b \in BookingIds : LoadForApprove(s, b)
  \/ \E b \in BookingIds : LoadForReject(s, b)
  \/ \E b \in BookingIds, u \in Users : LoadForCancel(s, b, u)
  \/ \E r \in Resources : LoadForDelete(s, r)
  \/ \E r \in Resources, p \in BOOLEAN : LoadForPublish(s, r, p)
  \/ ListOverdue(s)

Proceed(s) ==
  \/ RefuseDuplicate(s)
  \/ AddBooking(s)
  \/ AcquireLock(s)
  \/ RefuseDecided(s)
  \/ Refetch(s)
  \/ ListCompetitors(s)
  \/ ListPendings(s)
  \/ \E b \in BookingIds : ExclusionViolation(s, b)
  \/ \E b \in BookingIds : SelectRow(s, b)
  \/ \E b \in BookingIds : Write(s, b)
  \/ SelectResource(s)
  \/ WriteResource(s)
  \/ Commit(s)
  \/ JobReturns(s)
  \/ DeadlockAbort(s)

Owners == {OwnerOf[r] : r \in Resources}

Next ==
  \/ \E s \in Sessions : Begin(s) \/ Proceed(s) \/ Abort(s)
  \/ Tick
  \/ \E u \in Owners : SetSubscription(u)

Spec == Init /\ [][Next]_vars

\* A session's next step is taken once it can be: handlers do not pause, and
\* PostgreSQL serves the waiters of a lock in the order they came, so a step
\* that is enabled again and again is eventually taken.
FairSpec == Spec /\ \A s \in Sessions : SF_vars(Proceed(s))

\* The same, with cron starting the expiry job again and again and a clock
\* that does not stop before MaxTime.
CronSpec ==
  /\ FairSpec
  /\ WF_vars(Tick)
  /\ SF_vars(\E s \in Sessions : ListOverdue(s))

-----------------------------------------------------------------------------
(* Properties. *)

\* Every variable ranges over the values the tables and handlers admit.
TypeOK ==
  /\ clock \in 0..MaxTime
  /\ bookings \in [BookingIds -> BookingRow \cup {NoRow}]
  /\ resources \in [Resources -> ResourceRow]
  /\ operational \in [Users -> BOOLEAN]
  /\ inbox \in [Notice -> Nat]
  /\ pc \in [Sessions -> Steps]
  /\ op \in [Sessions -> Op]
  /\ staged \in [Sessions -> [BookingIds -> BookingRow \cup {NoRow}]]
  /\ draft \in [Sessions -> [BookingIds -> BookingRow \cup {NoRow}]]
  /\ seen \in [Sessions -> [BookingIds -> Statuses \cup {NoRow}]]
  /\ resStaged \in [Sessions -> ResourceRow \cup {NoRow}]
  /\ resSeen \in [Sessions -> ResourceRow \cup {NoRow}]
  /\ resDraft \in [Sessions -> ResourceRow \cup {NoRow}]
  /\ outbox \in [Sessions -> SUBSET Notice]
  /\ advisory \in [Resources -> Sessions \cup {NoRow}]

\* The grid units two slots have in common.
SharedTime(x, y) == (x.start .. x.end - 1) \cap (y.start .. y.end - 1)

\* No two approved bookings of a resource share any time: the promise of the
\* exclusion constraint bookings_no_approved_overlap.
NoApprovedOverlap ==
  \A b, c \in BookingIds :
    /\ b # c /\ bookings[b] # NoRow /\ bookings[c] # NoRow
    /\ bookings[b].status = "APPROVED" /\ bookings[c].status = "APPROVED"
    /\ bookings[b].resource = bookings[c].resource
    => SharedTime(bookings[b].slot, bookings[c].slot) = {}

\* A double click on approve, or two owners' tabs, approve a booking once: the
\* customer is told at most once (approve_booking.py lines 67-73: re-fetch
\* under a lock that lasts until COMMIT).
ApprovedAtMostOnce ==
  \A n \in Notice : n.kind = "APPROVED" => inbox[n] <= 1

\* Rows and notices are committed together: the owner was told of every request
\* on file; of every change in its history the party that did not make it was
\* told, which is the owner when the customer cancels and the customer of every
\* other change; who reads APPROVED or REJECTED in the row was told so, even if
\* another transaction's UPDATE has cost the row that line of its history; and
\* no notice is about a booking that was rolled back.  EXPIRED, of which no
\* notice tells, is the status of no row, as the job does not commit.
OutcomeNotified ==
  \A b \in BookingIds :
    LET told(user, kind) == inbox[Tell(user, kind, b)] > 0
        customer == bookings[b].customer
        owner == OwnerOf[bookings[b].resource]
        status == bookings[b].status
        history == bookings[b].history
    IN  IF bookings[b] = NoRow
        THEN \A n \in Notice : n.booking = b => inbox[n] = 0
        ELSE /\ told(owner, "REQUESTED")
             /\ status \in {"APPROVED", "REJECTED"} => told(customer, status)
             /\ status = "CANCELLED" =>
                  told(customer, "CANCELLED") \/ told(owner, "CANCELLED")
             /\ status # "EXPIRED"
             /\ \A i \in 1..Len(history) :
                  LET kind == history[i].to
                      byCustomer == history[i].role = "CUSTOMER"
                  IN  /\ kind \in {"APPROVED", "REJECTED", "CANCELLED"}
                      /\ told(IF byCustomer THEN owner ELSE customer, kind)

\* A request is auto-rejected only in favour of another booking of the same
\* resource, on an overlapping slot, that really was approved.
AutoRejectedHasWinner ==
  \A c \in BookingIds :
    /\ bookings[c] # NoRow
    /\ \E i \in 1..Len(bookings[c].history) :
         bookings[c].history[i].reason = "auto_rejected"
    => \E b \in BookingIds \ {c} :
         /\ bookings[b] # NoRow
         /\ bookings[b].resource = bookings[c].resource
         /\ SharedTime(bookings[b].slot, bookings[c].slot) # {}
         /\ inbox[Tell(bookings[b].customer, "APPROVED", b)] > 0

\* Natural dedup under the per-resource lock (lock.py lines 8-9: "Per-resource
\* lock acquired during RequestBookingHandler natural-dedup"): a customer never
\* has two active bookings on overlapping slots of a resource.
NoDuplicateActive ==
  \A b, c \in BookingIds :
    /\ b # c /\ bookings[b] # NoRow /\ bookings[c] # NoRow
    /\ bookings[b].status \in {"PENDING", "APPROVED"}
    /\ bookings[c].status \in {"PENDING", "APPROVED"}
    /\ bookings[b].customer = bookings[c].customer
    /\ bookings[b].resource = bookings[c].resource
    => SharedTime(bookings[b].slot, bookings[c].slot) = {}

\* REJECTED, CANCELLED and EXPIRED are terminal (booking_status.py line 11).
TerminalIsFinal ==
  [][\A b \in BookingIds :
       bookings[b] # NoRow /\ bookings[b].status \notin {"PENDING", "APPROVED"}
         => bookings'[b].status = bookings[b].status]_vars

\* Every request comes to an end, however the sessions' locks interleave.
EveryRequestEnds ==
  \A s \in Sessions : (pc[s] # "idle") ~> (pc[s] = "idle")

\* The job moves every request whose slot has started out of PENDING.
OverdueExpires ==
  \A b \in BookingIds :
    b \in PendingStartedBefore(clock) ~> b \notin PendingStartedBefore(clock)

\* The calendar that bookings implement: APPROVED holds the slot; a booking
\* that is not APPROVED but whose customer was told it is has been released.
ClaimOf(b) == IF bookings[b] = NoRow THEN NoRow
              ELSE [resource |-> bookings[b].resource,
                    slot |-> bookings[b].slot]

PhaseOf(b) == IF bookings[b] = NoRow THEN "waiting"
              ELSE IF bookings[b].status = "APPROVED" THEN "held"
              ELSE IF inbox[Tell(bookings[b].customer, "APPROVED", b)] > 0
              THEN "released" ELSE "waiting"

SameTime(k, l) ==
  k.resource = l.resource /\ SharedTime(k.slot, l.slot) # {}

Cal == INSTANCE Calendar WITH
         Claims <- [resource : Resources, slot : Slots],
         Conflict <- SameTime,
         NoClaim <- NoRow,
         claim <- [b \in BookingIds |-> ClaimOf(b)],
         phase <- [b \in BookingIds |-> PhaseOf(b)]

ImplementsCalendar == Cal!Spec
=============================================================================
