--------------------------- MODULE BookingsProofs ---------------------------
(***************************************************************************)
(* What holds of module Bookings however its requests race, for every      *)
(* number of users, resources, bookings, slots and sessions:               *)
(*                                                                         *)
(*   1. every variable keeps its type;                                     *)
(*   2. no two approved bookings of a resource overlap, if the exclusion   *)
(*      constraint exists;                                                 *)
(*   3. a booking is approved at most once, with or without it;            *)
(*   4. what the rows say has been told, and a request that was rejected   *)
(*      automatically has a winner;                                        *)
(*   5. the booking flow implements the calendar;                          *)
(*   6. the audit trail, final decisions, the check for duplicates, what   *)
(*      is told of a rejection and the clearing of a deleted resource are  *)
(*      broken only by the steps that module BookingOverlaps records.      *)
(*                                                                         *)
(* Each part has an inductive invariant of its own, which rests on those   *)
(* of the parts before it.                                                 *)
(***************************************************************************)
EXTENDS BookingOverlaps, TLAPS

(***************************************************************************)
(* Entities.                                                               *)
(***************************************************************************)

\* A transition of a booking is a booking.
LEMMA TransitionType ==
  ASSUME NEW row \in BookingRow, NEW to \in Statuses, NEW role \in Roles,
         NEW reason \in Reasons
  PROVE  Transition(row, to, role, reason) \in BookingRow
<1>1. Change(row.status, to, role, reason) \in StatusChange
  BY DEF BookingRow, StatusChange, Change
<1>2. Append(row.history, Change(row.status, to, role, reason))
        \in Seq(StatusChange)
  BY <1>1 DEF BookingRow
<1>. QED
  BY <1>2 DEF Transition, Rewritten, BookingRow

\* The entities moved by a handler are bookings.
LEMMA MovedType ==
  ASSUME TypeOK, NEW B \in SUBSET BookingIds, \A b \in B : bookings[b] # NoRow,
         NEW to \in Statuses, NEW role \in Roles, NEW reason \in Reasons
  PROVE  /\ Moved(B, to, role, reason) \in [BookingIds -> BookingRow \cup {NoRow}]
         /\ \A b \in B : Moved(B, to, role, reason)[b] \in BookingRow
         /\ \A b \in BookingIds \ B : Moved(B, to, role, reason)[b] = NoRow
<1>1. \A b \in B : Transition(bookings[b], to, role, reason) \in BookingRow
  BY TransitionType DEF TypeOK
<1>. QED
  BY <1>1 DEF Moved

\* So is the row that an UPDATE makes of an entity and of the current row.
LEMMA WrittenType ==
  ASSUME TypeOK, NEW s \in Sessions, NEW b \in BookingIds,
         staged[s][b] # NoRow, bookings[b] # NoRow
  PROVE  Written(s, b) \in BookingRow
<1>1. staged[s][b] \in BookingRow /\ bookings[b].status \in Statuses
  BY DEF TypeOK, BookingRow
<1>. QED
  BY <1>1 DEF Written, Rewritten, BookingRow

(***************************************************************************)
(* The inductive invariant.                                                *)
(***************************************************************************)

\* What each step of a handler knows of its command.
StepInv ==
  \A s \in Sessions :
    /\ pc[s] = "idle" =>
         \A b \in BookingIds : draft[s][b] = NoRow
    /\ pc[s] = "dedup" =>
         /\ op[s].actor \in Users /\ op[s].resource \in Resources
         /\ op[s].slot \in Slots /\ op[s].booking \in BookingIds
    /\ pc[s] \in {"lock", "refetch", "competitors"} =>
         /\ op[s].resource \in Resources /\ op[s].booking \in BookingIds
         /\ bookings[op[s].booking] # NoRow
    /\ pc[s] = "competitors" => staged[s][op[s].booking] \in BookingRow
    /\ \A b \in BookingIds :
         seen[s][b] # NoRow => pc[s] = "write" /\ staged[s][b] # NoRow
    /\ pc[s] \in {"pendings", "resource"} \/ op[s].kind = "delete" =>
         op[s].resource \in Resources /\ resStaged[s] \in ResourceRow

\* Only existing bookings are staged; a draft is of an existing booking or of
\* the one its transaction creates; a booking to be created is new to all.
FreshInv ==
  /\ \A s \in Sessions, b \in BookingIds :
       /\ staged[s][b] # NoRow => bookings[b] # NoRow
       /\ draft[s][b] # NoRow => bookings[b] # NoRow \/ op[s].booking = b
  /\ \A s \in Sessions :
       pc[s] = "dedup" =>
         /\ bookings[op[s].booking] = NoRow
         /\ \A u \in Sessions \ {s} : op[u].booking # op[s].booking

TypeInv == TypeOK /\ StepInv /\ FreshInv

LEMMA InitTypeInv == Init => TypeInv
<1>. SUFFICES ASSUME Init PROVE TypeInv
  OBVIOUS
<1>1. TypeOK
  BY TimeAssumption DEF Init, TypeOK, NothingHeld, NoOp, Command, Op, AllKinds,
                        Steps, ResourceRow
<1>. QED
  BY <1>1 DEF Init, TypeInv, StepInv, FreshInv, NothingHeld, NoOp, Command

(***************************************************************************)
(* Every step preserves it.                                                *)
(***************************************************************************)

\* Taking up a command.
LEMMA ServeType ==
  ASSUME TypeOK, NEW s \in Sessions, NEW command \in Op, NEW next \in Steps,
         Serve(s, command, next)
  PROVE  /\ op' \in [Sessions -> Op] /\ pc' \in [Sessions -> Steps]
         /\ pc[s] = "idle" /\ pc'[s] = next /\ op'[s] = command
         /\ \A u \in Sessions \ {s} : pc'[u] = pc[u] /\ op'[u] = op[u]
  BY DEF Serve, TypeOK

\* A transaction that ends without writing anything.
LEMMA RollbackTypeInv ==
  ASSUME TypeInv, NEW s \in Sessions, Rollback(s)
  PROVE  TypeInv'
<1>. USE DEF TypeInv, Rollback, Release, tables, updating
<1>1. NoOp \in Op /\ NoOp.booking = NoRow /\ NoOp.kind # "delete"
  BY DEF NoOp, Command, Op, AllKinds
<1>2. TypeOK'
  BY <1>1 DEF TypeOK, NothingHeld, Steps
<1>3. StepInv'
  BY <1>1 DEF TypeOK, StepInv, NothingHeld
<1>4. FreshInv'
  BY <1>1, NoRowAssumption DEF TypeOK, StepInv, FreshInv, NothingHeld
<1>. QED
  BY <1>2, <1>3, <1>4

\* What taking up a command about an existing booking, or about none, stages.
Prepared(s, command, next) ==
  /\ command \in Op /\ next \in Steps \ {"idle", "dedup", "competitors"}
  /\ UNCHANGED <<tables, clock, operational, updating, draft, resDraft, advisory>>
  /\ staged' \in [Sessions -> [BookingIds -> BookingRow \cup {NoRow}]]
  /\ \A u \in Sessions \ {s} : staged'[u] = staged[u]
  /\ \A b \in BookingIds : staged'[s][b] # NoRow => bookings[b] # NoRow
  /\ outbox' \in [Sessions -> SUBSET Notice]
  /\ resStaged' \in [Sessions -> ResourceRow \cup {NoRow}]
  /\ \A u \in Sessions \ {s} : resStaged'[u] = resStaged[u]
  /\ \/ command.booking = NoRow
     \/ command.booking \in BookingIds /\ bookings[command.booking] # NoRow
  /\ next \in {"lock", "refetch"} =>
       command.resource \in Resources /\ command.booking \in BookingIds
  /\ next \in {"pendings", "resource"} \/ command.kind = "delete" =>
       command.resource \in Resources /\ resStaged'[s] \in ResourceRow

LEMMA ServeTypeInv ==
  ASSUME TypeInv, NEW s \in Sessions, NEW command, NEW next,
         Serve(s, command, next), Prepared(s, command, next)
  PROVE  TypeInv'
<1>. USE DEF TypeInv, Prepared, tables, updating
<1>1. /\ op' \in [Sessions -> Op] /\ pc' \in [Sessions -> Steps]
      /\ pc[s] = "idle" /\ pc'[s] = next /\ op'[s] = command
      /\ \A u \in Sessions \ {s} : pc'[u] = pc[u] /\ op'[u] = op[u]
  BY ServeType
<1>2. TypeOK'
  BY <1>1 DEF TypeOK
<1>3. StepInv'
  BY <1>1, NoRowAssumption DEF StepInv
<1>4. ASSUME NEW u \in Sessions, pc'[u] = "dedup"
      PROVE  /\ bookings'[op'[u].booking] = NoRow
             /\ \A v \in Sessions \ {u} : op'[v].booking # op'[u].booking
  <2>1. u # s /\ pc[u] = "dedup" /\ op'[u] = op[u]
    BY <1>1, <1>4
  <2>2. /\ op[u].booking \in BookingIds /\ bookings[op[u].booking] = NoRow
        /\ \A v \in Sessions \ {u} : op[v].booking # op[u].booking
    BY <2>1 DEF StepInv, FreshInv
  <2>3. command.booking # op[u].booking
    BY <2>2, NoRowAssumption
  <2>. QED
    BY <1>1, <2>1, <2>2, <2>3
<1>5. ASSUME NEW u \in Sessions, NEW b \in BookingIds
      PROVE  /\ staged'[u][b] # NoRow => bookings'[b] # NoRow
             /\ draft'[u][b] # NoRow => bookings'[b] # NoRow \/ op'[u].booking = b
  BY <1>1 DEF FreshInv, StepInv
<1>6. FreshInv'
  BY <1>4, <1>5 DEF FreshInv
<1>. QED
  BY <1>2, <1>3, <1>6

LEMMA RequestTypeInv ==
  ASSUME TypeInv, NEW s \in Sessions, NEW c \in Users, NEW r \in Resources,
         NEW x \in Slots, NEW b \in BookingIds, LoadForRequest(s, c, r, x, b)
  PROVE  TypeInv'
<1>. DEFINE cmd == Command("request", c, b, r, x)
<1>1. cmd \in Op /\ cmd.actor = c /\ cmd.resource = r /\ cmd.slot = x
        /\ cmd.booking = b /\ cmd.kind = "request"
  BY DEF Command, Op, AllKinds
<1>2. Serve(s, cmd, "dedup") /\ IsFresh(b)
  BY DEF LoadForRequest
<1>. HIDE DEF cmd
<1>3. TypeOK /\ StepInv /\ FreshInv
  BY DEF TypeInv
<1>4. /\ op' \in [Sessions -> Op] /\ pc' \in [Sessions -> Steps]
      /\ pc[s] = "idle" /\ pc'[s] = "dedup" /\ op'[s] = cmd
      /\ \A u \in Sessions \ {s} : pc'[u] = pc[u] /\ op'[u] = op[u]
  BY <1>1, <1>2, <1>3, ServeType DEF Steps
<1>5. UNCHANGED <<bookings, resources, inbox, clock, operational, seen,
                  resSeen, staged, draft, resStaged, resDraft, outbox, advisory>>
  BY DEF LoadForRequest, tables, updating
<1>6. TypeOK'
  BY <1>3, <1>4, <1>5 DEF TypeOK
<1>7. StepInv'
  BY <1>1, <1>3, <1>4, <1>5 DEF StepInv
<1>8. FreshInv'
  BY <1>1, <1>2, <1>3, <1>4, <1>5 DEF FreshInv, StepInv, IsFresh
<1>. QED
  BY <1>6, <1>7, <1>8 DEF TypeInv

LEMMA BeginTypeInv ==
  ASSUME TypeInv, NEW s \in Sessions, Begin(s)
  PROVE  TypeInv'
<1>. USE DEF Steps
<1>1. TypeOK /\ StepInv /\ FreshInv
  BY DEF TypeInv
<1>2. ASSUME NEW b \in BookingIds, LoadForApprove(s, b)
      PROVE  TypeInv'
  <2>. DEFINE cmd == Command("approve", NoRow, b, bookings[b].resource, NoRow)
  <2>1. cmd \in Op /\ cmd.resource \in Resources /\ cmd.booking = b
          /\ cmd.kind = "approve"
    BY <1>1, <1>2 DEF Command, Op, AllKinds, LoadForApprove, TypeOK, BookingRow
  <2>2. Serve(s, cmd, "lock") /\ bookings[b] # NoRow
    BY <1>2 DEF LoadForApprove
  <2>3. UNCHANGED <<tables, clock, operational, updating, staged, draft, resStaged,
                    resDraft, outbox, advisory>>
    BY <1>2 DEF LoadForApprove
  <2>. HIDE DEF cmd
  <2>4. Prepared(s, cmd, "lock")
    BY <1>1, <2>1, <2>2, <2>3 DEF TypeOK, FreshInv, Prepared
  <2>. QED
    BY <2>2, <2>4, ServeTypeInv
<1>3. ASSUME NEW b \in BookingIds, LoadForReject(s, b)
      PROVE  TypeInv'
  <2>. DEFINE cmd == Command("reject", NoRow, b, NoRow, NoRow)
              moved == Moved({b}, "REJECTED", "OWNER", "given")
              note == Tell(bookings[b].customer, "REJECTED", b)
  <2>1. cmd \in Op /\ cmd.booking = b /\ cmd.kind = "reject"
    BY DEF Command, Op, AllKinds
  <2>2. /\ Serve(s, cmd, "write") /\ bookings[b] # NoRow
        /\ UNCHANGED <<tables, clock, operational, updating, draft, resStaged, resDraft,
                       advisory>>
        /\ staged' = [staged EXCEPT ![s] = moved]
        /\ outbox' = [outbox EXCEPT ![s] = {note}]
    BY <1>3 DEF LoadForReject
  <2>3. moved \in [BookingIds -> BookingRow \cup {NoRow}]
          /\ \A c \in BookingIds \ {b} : moved[c] = NoRow
    BY <1>1, <2>2, MovedType DEF Statuses, Roles, Reasons
  <2>4. note \in Notice
    BY <1>1, <2>2 DEF Tell, Notice, NotifKinds, TypeOK, BookingRow
  <2>. HIDE DEF cmd, moved, note
  <2>5. Prepared(s, cmd, "write")
    BY <1>1, <2>1, <2>2, <2>3, <2>4 DEF TypeOK, Prepared
  <2>. QED
    BY <2>2, <2>5, ServeTypeInv
<1>4. ASSUME NEW b \in BookingIds, NEW actor \in Users,
             LoadForCancel(s, b, actor)
      PROVE  TypeInv'
  <2>. DEFINE cmd == Command("cancel", actor, b, NoRow, NoRow)
              customer == bookings[b].customer
              owner == OwnerOf[bookings[b].resource]
              role == IF actor = owner THEN "OWNER" ELSE "CUSTOMER"
              moved == Moved({b}, "CANCELLED", role, "given")
              note == Tell(IF actor = customer THEN owner ELSE customer,
                           "CANCELLED", b)
  <2>1. cmd \in Op /\ cmd.booking = b /\ cmd.kind = "cancel"
    BY DEF Command, Op, AllKinds
  <2>2. /\ Serve(s, cmd, "write") /\ bookings[b] # NoRow
        /\ UNCHANGED <<tables, clock, operational, updating, draft, resStaged, resDraft,
                       advisory>>
        /\ staged' = [staged EXCEPT ![s] = moved]
        /\ outbox' = [outbox EXCEPT ![s] = {note}]
    BY <1>4 DEF LoadForCancel
  <2>3. moved \in [BookingIds -> BookingRow \cup {NoRow}]
          /\ \A c \in BookingIds \ {b} : moved[c] = NoRow
    BY <1>1, <2>2, MovedType DEF Statuses, Roles, Reasons
  <2>4. note \in Notice
    BY <1>1, <2>2, OwnerAssumption DEF Tell, Notice, NotifKinds, TypeOK, BookingRow
  <2>. HIDE DEF cmd, moved, note
  <2>5. Prepared(s, cmd, "write")
    BY <1>1, <2>1, <2>2, <2>3, <2>4 DEF TypeOK, Prepared
  <2>. QED
    BY <2>2, <2>5, ServeTypeInv
<1>5. ASSUME NEW r \in Resources, LoadForDelete(s, r)
      PROVE  TypeInv'
  <2>. DEFINE cmd == Command("delete", NoRow, NoRow, r, NoRow)
              entity == [resources[r] EXCEPT !.deleted = TRUE]
  <2>1. cmd \in Op /\ cmd.booking = NoRow /\ cmd.resource = r
    BY DEF Command, Op, AllKinds
  <2>2. /\ Serve(s, cmd, "pendings")
        /\ UNCHANGED <<tables, clock, operational, updating, staged, draft, resDraft,
                       outbox, advisory>>
        /\ resStaged' = [resStaged EXCEPT ![s] = entity]
    BY <1>5 DEF LoadForDelete
  <2>3. entity \in ResourceRow
    <3>1. resources[r] \in ResourceRow
      BY <1>1 DEF TypeOK
    <3>. QED
      BY <3>1 DEF ResourceRow
  <2>. HIDE DEF cmd, entity
  <2>4. Prepared(s, cmd, "pendings")
    BY <1>1, <2>1, <2>2, <2>3 DEF TypeOK, FreshInv, Prepared
  <2>. QED
    BY <2>2, <2>4, ServeTypeInv
<1>6. ASSUME NEW r \in Resources, NEW p \in BOOLEAN, LoadForPublish(s, r, p)
      PROVE  TypeInv'
  <2>. DEFINE cmd == Command("publish", NoRow, NoRow, r, NoRow)
              entity == [resources[r] EXCEPT !.published = p]
  <2>1. cmd \in Op /\ cmd.booking = NoRow /\ cmd.resource = r
    BY DEF Command, Op, AllKinds
  <2>2. /\ Serve(s, cmd, "resource")
        /\ UNCHANGED <<tables, clock, operational, updating, staged, draft, resDraft,
                       outbox, advisory>>
        /\ resStaged' = [resStaged EXCEPT ![s] = entity]
    BY <1>6 DEF LoadForPublish
  <2>3. entity \in ResourceRow
    <3>1. resources[r] \in ResourceRow
      BY <1>1 DEF TypeOK
    <3>. QED
      BY <3>1 DEF ResourceRow
  <2>. HIDE DEF cmd, entity
  <2>4. Prepared(s, cmd, "resource")
    BY <1>1, <2>1, <2>2, <2>3 DEF TypeOK, FreshInv, Prepared
  <2>. QED
    BY <2>2, <2>4, ServeTypeInv
<1>7. ASSUME ListOverdue(s)
      PROVE  TypeInv'
  <2>. DEFINE cmd == Command("expire", NoRow, NoRow, NoRow, NoRow)
              found == PendingStartedBefore(clock)
              moved == Moved(found, "EXPIRED", "CUSTOMER", "slot_passed")
              notes == {Tell(bookings[b].customer, "REJECTED", b) : b \in found}
  <2>1. cmd \in Op /\ cmd.booking = NoRow /\ cmd.kind = "expire"
    BY DEF Command, Op, AllKinds
  <2>2. /\ Serve(s, cmd, "write")
        /\ UNCHANGED <<tables, clock, operational, updating, draft, resStaged, resDraft,
                       advisory>>
        /\ staged' = [staged EXCEPT ![s] = moved]
        /\ outbox' = [outbox EXCEPT ![s] = notes]
    BY <1>7 DEF ListOverdue
  <2>3. found \in SUBSET BookingIds /\ \A b \in found : bookings[b] # NoRow
    BY DEF PendingStartedBefore
  <2>4. moved \in [BookingIds -> BookingRow \cup {NoRow}]
          /\ \A c \in BookingIds \ found : moved[c] = NoRow
    <3>. HIDE DEF found
    <3>. QED
      BY <1>1, <2>3, MovedType DEF Statuses, Roles, Reasons
  <2>5. notes \in SUBSET Notice
    BY <1>1, <2>3 DEF Tell, Notice, NotifKinds, TypeOK, BookingRow
  <2>. HIDE DEF cmd, found, moved, notes
  <2>6. Prepared(s, cmd, "write")
    BY <1>1, <2>1, <2>2, <2>3, <2>4, <2>5 DEF TypeOK, Prepared
  <2>. QED
    BY <2>2, <2>6, ServeTypeInv
<1>. QED
  BY <1>2, <1>3, <1>4, <1>5, <1>6, <1>7, RequestTypeInv DEF Begin

\* A transaction that publishes what it wrote.
LEMMA CommitTypeInv ==
  ASSUME TypeInv, NEW s \in Sessions, Commit(s)
  PROVE  TypeInv'
<1>1. TypeOK /\ StepInv /\ FreshInv
  BY DEF TypeInv
<1>2. /\ pc[s] = "commit"
      /\ pc' = [pc EXCEPT ![s] = "idle"]
      /\ op' = [op EXCEPT ![s] = NoOp]
      /\ staged' = [staged EXCEPT ![s] = NothingHeld]
      /\ draft' = [draft EXCEPT ![s] = NothingHeld]
      /\ seen' = [seen EXCEPT ![s] = NothingHeld]
      /\ resStaged' = [resStaged EXCEPT ![s] = NoRow]
      /\ resSeen' = [resSeen EXCEPT ![s] = NoRow]
      /\ UNCHANGED <<clock, operational>>
  BY DEF Commit, Release
<1>3. \A b \in BookingIds :
        bookings'[b] = IF draft[s][b] = NoRow THEN bookings[b] ELSE draft[s][b]
  BY DEF Commit
<1>4. \A b \in BookingIds : bookings[b] # NoRow => bookings'[b] # NoRow
  BY <1>3
<1>5. NoOp \in Op /\ NoOp.booking = NoRow /\ NoOp.kind # "delete"
  BY DEF NoOp, Command, Op, AllKinds
<1>6. TypeOK'
  <2>1. bookings' \in [BookingIds -> BookingRow \cup {NoRow}]
    BY <1>1 DEF Commit, TypeOK
  <2>2. resources' \in [Resources -> ResourceRow]
    BY <1>1 DEF Commit, TypeOK
  <2>3. inbox' \in [Notice -> Nat]
    BY <1>1 DEF Commit, TypeOK
  <2>4. /\ resDraft' \in [Sessions -> ResourceRow \cup {NoRow}]
        /\ outbox' \in [Sessions -> SUBSET Notice]
        /\ advisory' \in [Resources -> Sessions \cup {NoRow}]
    BY <1>1 DEF Commit, Release, TypeOK
  <2>5. /\ staged' \in [Sessions -> [BookingIds -> BookingRow \cup {NoRow}]]
        /\ draft' \in [Sessions -> [BookingIds -> BookingRow \cup {NoRow}]]
        /\ seen' \in [Sessions -> [BookingIds -> Statuses \cup {NoRow}]]
        /\ resStaged' \in [Sessions -> ResourceRow \cup {NoRow}]
        /\ resSeen' \in [Sessions -> ResourceRow \cup {NoRow}]
    BY <1>1, <1>2 DEF TypeOK, NothingHeld
  <2>6. pc' \in [Sessions -> Steps] /\ op' \in [Sessions -> Op]
    BY <1>1, <1>2, <1>5 DEF TypeOK, Steps
  <2>. QED
    BY <1>1, <1>2, <2>1, <2>2, <2>3, <2>4, <2>5, <2>6 DEF TypeOK
<1>7. StepInv'
  BY <1>1, <1>2, <1>4, <1>5 DEF TypeOK, StepInv, NothingHeld
<1>8. ASSUME NEW u \in Sessions, NEW b \in BookingIds
      PROVE  /\ staged'[u][b] # NoRow => bookings'[b] # NoRow
             /\ draft'[u][b] # NoRow => bookings'[b] # NoRow \/ op'[u].booking = b
  BY <1>1, <1>2, <1>4 DEF TypeOK, FreshInv, NothingHeld
<1>9. ASSUME NEW u \in Sessions, pc'[u] = "dedup"
      PROVE  /\ bookings'[op'[u].booking] = NoRow
             /\ \A v \in Sessions \ {u} : op'[v].booking # op'[u].booking
  <2>1. u # s /\ pc[u] = "dedup" /\ op'[u] = op[u]
    BY <1>1, <1>2, <1>9 DEF TypeOK
  <2>2. /\ op[u].booking \in BookingIds /\ bookings[op[u].booking] = NoRow
        /\ \A v \in Sessions \ {u} : op[v].booking # op[u].booking
    BY <1>1, <2>1 DEF StepInv, FreshInv
  <2>3. draft[s][op[u].booking] = NoRow
    BY <1>1, <2>1, <2>2 DEF FreshInv
  <2>. QED
    BY <1>1, <1>2, <1>3, <1>5, <2>1, <2>2, <2>3, NoRowAssumption DEF TypeOK
<1>10. FreshInv'
  BY <1>8, <1>9 DEF FreshInv
<1>. QED
  BY <1>6, <1>7, <1>10 DEF TypeInv

LEMMA ProceedTypeInv ==
  ASSUME TypeInv, NEW s \in Sessions, Proceed(s)
  PROVE  TypeInv'
<1>. USE DEF Steps
<1>1. TypeOK /\ StepInv /\ FreshInv
  BY DEF TypeInv
<1>2. CASE RefuseDuplicate(s)
  BY <1>2, RollbackTypeInv DEF RefuseDuplicate
<1>3. CASE AddBooking(s)
  <2>. DEFINE b == op[s].booking
              row == PendingRow(op[s].resource, op[s].actor, op[s].slot)
              note == Tell(OwnerOf[op[s].resource], "REQUESTED", b)
  <2>1. /\ pc[s] = "dedup" /\ b \in BookingIds
        /\ op[s].actor \in Users /\ op[s].resource \in Resources
        /\ op[s].slot \in Slots
    BY <1>1, <1>3 DEF AddBooking, StepInv
  <2>2. row \in BookingRow
    BY <2>1 DEF PendingRow, BookingRow, Statuses
  <2>3. note \in Notice
    BY <2>1, OwnerAssumption DEF Tell, Notice, NotifKinds
  <2>4. /\ draft' = [draft EXCEPT ![s][b] = row]
        /\ outbox' = [outbox EXCEPT ![s] = {note}]
        /\ pc' = [pc EXCEPT ![s] = "commit"]
        /\ UNCHANGED <<tables, clock, operational, updating, op, staged, resStaged,
                       resDraft, advisory>>
    BY <1>3 DEF AddBooking
  <2>. HIDE DEF row, note
  <2>5. TypeOK'
    BY <1>1, <2>1, <2>2, <2>3, <2>4 DEF TypeOK, tables, updating
  <2>6. StepInv'
    BY <1>1, <2>1, <2>4 DEF TypeOK, StepInv, tables, updating
  <2>7. FreshInv'
    BY <1>1, <2>1, <2>4 DEF TypeOK, FreshInv, tables, updating
  <2>. QED
    BY <2>5, <2>6, <2>7 DEF TypeInv
<1>4. CASE AcquireLock(s)
  <2>1. TypeOK'
    BY <1>1, <1>4 DEF AcquireLock, TypeOK, StepInv, tables, updating
  <2>2. StepInv'
    BY <1>1, <1>4 DEF AcquireLock, TypeOK, StepInv, tables, updating
  <2>3. FreshInv'
    BY <1>1, <1>4 DEF AcquireLock, TypeOK, FreshInv, tables, updating
  <2>. QED
    BY <2>1, <2>2, <2>3 DEF TypeInv
<1>5. CASE RefuseDecided(s)
  BY <1>5, RollbackTypeInv DEF RefuseDecided
<1>6. CASE Refetch(s)
  <2>. DEFINE b == op[s].booking
              moved == Moved({b}, "APPROVED", "OWNER", "given")
  <2>1. /\ pc[s] = "refetch" /\ b \in BookingIds /\ bookings[b] # NoRow
        /\ op[s].resource \in Resources
    BY <1>1, <1>6 DEF Refetch, StepInv
  <2>2. moved \in [BookingIds -> BookingRow \cup {NoRow}]
          /\ moved[b] \in BookingRow
          /\ \A c \in BookingIds \ {b} : moved[c] = NoRow
    <3>. HIDE DEF b
    <3>1. {b} \in SUBSET BookingIds /\ \A c \in {b} : bookings[c] # NoRow
      BY <2>1
    <3>. QED
      BY <1>1, <3>1, MovedType DEF Statuses, Roles, Reasons
  <2>3. /\ staged' = [staged EXCEPT ![s] = moved]
        /\ pc' = [pc EXCEPT ![s] = "competitors"]
        /\ UNCHANGED <<tables, clock, operational, updating, op, draft, resStaged,
                       resDraft, outbox, advisory>>
    BY <1>6 DEF Refetch
  <2>. HIDE DEF moved
  <2>4. TypeOK'
    BY <1>1, <2>2, <2>3 DEF TypeOK, tables, updating
  <2>5. StepInv'
    BY <1>1, <2>1, <2>2, <2>3 DEF TypeOK, StepInv, tables, updating
  <2>6. FreshInv'
    BY <1>1, <2>1, <2>2, <2>3 DEF TypeOK, FreshInv, tables, updating
  <2>. QED
    BY <2>4, <2>5, <2>6 DEF TypeInv
<1>7. CASE ListCompetitors(s)
  <2>. DEFINE b == op[s].booking
              target == staged[s][b]
              losers == PendingOverlapping(target.resource, target.slot, b)
              moved == Moved(losers, "REJECTED", "OWNER", "auto_rejected")
              entities == [moved EXCEPT ![b] = target]
              notes == {Tell(target.customer, "APPROVED", b)} \cup
                       {Tell(bookings[c].customer, "REJECTED", c) : c \in losers}
  <2>1. /\ pc[s] = "competitors" /\ b \in BookingIds /\ target \in BookingRow
        /\ bookings[b] # NoRow
    BY <1>1, <1>7 DEF ListCompetitors, StepInv
  <2>2. losers \in SUBSET BookingIds /\ \A c \in losers : bookings[c] # NoRow
    BY DEF PendingOverlapping, PendingFor
  <2>3. moved \in [BookingIds -> BookingRow \cup {NoRow}]
          /\ \A c \in BookingIds \ losers : moved[c] = NoRow
    <3>. HIDE DEF losers
    <3>. QED
      BY <1>1, <2>2, MovedType DEF Statuses, Roles, Reasons
  <2>4. entities \in [BookingIds -> BookingRow \cup {NoRow}]
          /\ \A c \in BookingIds \ (losers \cup {b}) : entities[c] = NoRow
    <3>. HIDE DEF moved, losers, target
    <3>. QED
      BY <2>1, <2>3
  <2>5. notes \in SUBSET Notice
    BY <1>1, <2>1, <2>2 DEF Tell, Notice, NotifKinds, TypeOK, BookingRow
  <2>6. /\ staged' = [staged EXCEPT ![s] = entities]
        /\ outbox' = [outbox EXCEPT ![s] = notes]
        /\ pc' = [pc EXCEPT ![s] = "write"]
        /\ UNCHANGED <<tables, clock, operational, updating, op, draft, resStaged,
                       resDraft, advisory>>
    BY <1>7 DEF ListCompetitors
  <2>. HIDE DEF target, losers, moved, entities, notes
  <2>7. TypeOK'
    BY <1>1, <2>4, <2>5, <2>6 DEF TypeOK, tables, updating
  <2>8. StepInv'
    BY <1>1, <2>1, <2>6 DEF TypeOK, StepInv, tables, updating
  <2>9. FreshInv'
    BY <1>1, <2>1, <2>2, <2>4, <2>6 DEF TypeOK, FreshInv, tables, updating
  <2>. QED
    BY <2>7, <2>8, <2>9 DEF TypeInv
<1>8. CASE ListPendings(s)
  <2>. DEFINE found == PendingFor(op[s].resource)
              moved == Moved(found, "CANCELLED", "OWNER", "resource_deleted")
              notes == {Tell(bookings[c].customer, "CANCELLED", c) : c \in found}
              next == IF found = {} THEN "resource" ELSE "write"
  <2>1. /\ pc[s] = "pendings" /\ op[s].resource \in Resources
        /\ resStaged[s] \in ResourceRow
    BY <1>1, <1>8 DEF ListPendings, StepInv
  <2>2. found \in SUBSET BookingIds /\ \A c \in found : bookings[c] # NoRow
    BY DEF PendingFor
  <2>3. moved \in [BookingIds -> BookingRow \cup {NoRow}]
          /\ \A c \in BookingIds \ found : moved[c] = NoRow
    <3>. HIDE DEF found
    <3>. QED
      BY <1>1, <2>2, MovedType DEF Statuses, Roles, Reasons
  <2>4. notes \in SUBSET Notice
    BY <1>1, <2>2 DEF Tell, Notice, NotifKinds, TypeOK, BookingRow
  <2>5. /\ staged' = [staged EXCEPT ![s] = moved]
        /\ outbox' = [outbox EXCEPT ![s] = notes]
        /\ pc' = [pc EXCEPT ![s] = next]
        /\ UNCHANGED <<tables, clock, operational, updating, op, draft, resStaged,
                       resDraft, advisory>>
    BY <1>8 DEF ListPendings
  <2>6. next \in {"resource", "write"}
    OBVIOUS
  <2>. HIDE DEF found, moved, notes, next
  <2>7. TypeOK'
    BY <1>1, <2>3, <2>4, <2>5, <2>6 DEF TypeOK, tables, updating
  <2>8. StepInv'
    BY <1>1, <2>1, <2>5, <2>6 DEF TypeOK, StepInv, tables, updating
  <2>9. FreshInv'
    BY <1>1, <2>1, <2>2, <2>3, <2>5, <2>6 DEF TypeOK, FreshInv, tables, updating
  <2>. QED
    BY <2>7, <2>8, <2>9 DEF TypeInv
<1>9. ASSUME NEW b \in BookingIds, ExclusionViolation(s, b)
      PROVE  TypeInv'
  BY <1>9, RollbackTypeInv DEF ExclusionViolation
<1>10. ASSUME NEW b \in BookingIds, SelectRow(s, b)
       PROVE  TypeInv'
  <2>1. /\ pc[s] = "write" /\ staged[s][b] # NoRow
        /\ seen[s] = NothingHeld
        /\ seen' = [seen EXCEPT ![s][b] = bookings[b].status]
        /\ UNCHANGED <<bookings, resources, inbox, clock, operational, pc, op,
                       staged, draft, resStaged, resSeen, resDraft, outbox,
                       advisory>>
    BY <1>10 DEF SelectRow, NextWrites, tables
  <2>2. bookings[b].status \in Statuses
    BY <1>1, <2>1 DEF TypeOK, FreshInv, BookingRow
  <2>3. TypeOK'
    BY <1>1, <2>1, <2>2 DEF TypeOK
  <2>4. StepInv'
    BY <1>1, <2>1 DEF TypeOK, StepInv, NothingHeld
  <2>5. FreshInv'
    BY <1>1, <2>1 DEF FreshInv
  <2>. QED
    BY <2>3, <2>4, <2>5 DEF TypeInv
<1>11. ASSUME NEW b \in BookingIds, Write(s, b)
       PROVE  TypeInv'
  <2>. DEFINE row == Written(s, b)
              next == IF \A c \in BookingIds \ {b} : staged[s][c] = NoRow
                      THEN AfterWrites(op[s].kind) ELSE "write"
  <2>1. pc[s] = "write" /\ staged[s][b] # NoRow /\ bookings[b] # NoRow
    BY <1>1, <1>11 DEF Write, StepInv, FreshInv
  <2>2. row \in BookingRow
    BY <1>1, <2>1, WrittenType
  <2>3. /\ draft' = [draft EXCEPT ![s][b] = row]
        /\ staged' = [staged EXCEPT ![s][b] = NoRow]
        /\ seen' = [seen EXCEPT ![s] = NothingHeld]
        /\ pc' = [pc EXCEPT ![s] = next]
        /\ UNCHANGED <<bookings, resources, inbox, clock, operational, op,
                       resStaged, resSeen, resDraft, outbox, advisory>>
    BY <1>11 DEF Write, tables
  <2>4. /\ next \in {"resource", "return", "commit", "write"}
        /\ next = "resource" => op[s].kind = "delete"
    BY DEF AfterWrites
  <2>. HIDE DEF next, row
  <2>5. TypeOK'
    BY <1>1, <2>2, <2>3, <2>4 DEF TypeOK, NothingHeld
  <2>6. StepInv'
    BY <1>1, <2>1, <2>3, <2>4 DEF TypeOK, StepInv, NothingHeld
  <2>7. FreshInv'
    BY <1>1, <2>1, <2>3, <2>4 DEF TypeOK, FreshInv
  <2>. QED
    BY <2>5, <2>6, <2>7 DEF TypeInv
<1>12. CASE SelectResource(s)
  <2>1. /\ resources[op[s].resource] \in ResourceRow
        /\ resSeen' = [resSeen EXCEPT ![s] = resources[op[s].resource]]
        /\ UNCHANGED <<bookings, resources, inbox, clock, operational, pc, op,
                       staged, draft, seen, resStaged, resDraft, outbox,
                       advisory>>
    BY <1>1, <1>12 DEF SelectResource, StepInv, TypeOK, tables
  <2>2. TypeOK'
    BY <1>1, <2>1 DEF TypeOK
  <2>3. StepInv'
    BY <1>1, <2>1 DEF StepInv
  <2>4. FreshInv'
    BY <1>1, <2>1 DEF FreshInv
  <2>. QED
    BY <2>2, <2>3, <2>4 DEF TypeInv
<1>13. CASE WriteResource(s)
  <2>1. /\ pc[s] = "resource" /\ resStaged[s] \in ResourceRow
        /\ resources[op[s].resource] \in ResourceRow
    BY <1>1, <1>13 DEF WriteResource, StepInv, TypeOK
  <2>2. /\ \E x \in ResourceRow : resDraft' = [resDraft EXCEPT ![s] = x]
        /\ resSeen' = [resSeen EXCEPT ![s] = NoRow]
        /\ pc' = [pc EXCEPT ![s] = "commit"]
        /\ UNCHANGED <<bookings, resources, inbox, clock, operational, op,
                       staged, draft, seen, resStaged, outbox, advisory>>
    BY <1>13, <2>1 DEF WriteResource, ResourceRow, tables
  <2>3. TypeOK'
    BY <1>1, <2>2 DEF TypeOK
  <2>4. StepInv'
    BY <1>1, <2>1, <2>2 DEF TypeOK, StepInv
  <2>5. FreshInv'
    BY <1>1, <2>1, <2>2 DEF TypeOK, FreshInv
  <2>. QED
    BY <2>3, <2>4, <2>5 DEF TypeInv
<1>14. CASE Commit(s)
  BY <1>14, CommitTypeInv
<1>15. CASE JobReturns(s)
  BY <1>15, RollbackTypeInv DEF JobReturns
<1>16. CASE DeadlockAbort(s)
  BY <1>16, RollbackTypeInv DEF DeadlockAbort
<1>. QED
  BY <1>2, <1>3, <1>4, <1>5, <1>6, <1>7, <1>8, <1>9, <1>10, <1>11, <1>12,
     <1>13, <1>14, <1>15, <1>16 DEF Proceed

\* The inductive step.
LEMMA NextTypeInv ==
  ASSUME TypeInv, [Next]_vars
  PROVE  TypeInv'
<1>1. ASSUME NEW s \in Sessions, Begin(s) PROVE TypeInv'
  BY <1>1, BeginTypeInv
<1>2. ASSUME NEW s \in Sessions, Proceed(s) PROVE TypeInv'
  BY <1>2, ProceedTypeInv
<1>3. ASSUME NEW s \in Sessions, Abort(s) PROVE TypeInv'
  BY <1>3, RollbackTypeInv DEF Abort
<1>4. CASE Tick
  BY <1>4, TimeAssumption DEF Tick, TypeInv, TypeOK, StepInv, FreshInv, tables, updating, session
<1>5. ASSUME NEW u \in Owners, SetSubscription(u) PROVE TypeInv'
  BY <1>5 DEF SetSubscription, TypeInv, TypeOK, StepInv, FreshInv, tables, updating,
              session
<1>6. CASE UNCHANGED vars
  BY <1>6 DEF vars, TypeInv, TypeOK, StepInv, FreshInv, tables, updating, session
<1>. QED
  BY <1>1, <1>2, <1>3, <1>4, <1>5, <1>6 DEF Next

\* TypeOK holds in every state of every behaviour.
THEOREM TypeCorrect == Spec => []TypeOK
<1>1. Init => TypeInv
  BY InitTypeInv
<1>2. TypeInv /\ [Next]_vars => TypeInv'
  BY NextTypeInv
<1>3. TypeInv => TypeOK
  BY DEF TypeInv
<1>. QED
  BY <1>1, <1>2, <1>3, PTL DEF Spec

(***************************************************************************)
(* No double booking.  The exclusion constraint looks at one row at a      *)
(* time, while it is written; that its verdict still holds when the        *)
(* transaction commits, after others have committed, rests on              *)
(* DraftsAreSafe.                                                          *)
(***************************************************************************)

NoClash ==
  \A b, c \in BookingIds :
    b # c /\ bookings[b] # NoRow => ~Clash(bookings[b], bookings[c])

\* What open transactions have written can be committed in any order: a booking
\* has one uncommitted version, and an uncommitted approval clashes neither
\* with another one nor with a committed row its own transaction keeps.
DraftsAreSafe ==
  \A s, u \in Sessions, b, c \in BookingIds :
    draft[s][b] # NoRow =>
      /\ draft[u][b] # NoRow => s = u
      /\ b # c => ~Clash(draft[s][b], draft[u][c])
      /\ b # c /\ draft[s][c] = NoRow => ~Clash(draft[s][b], bookings[c])

SafeInv == NoClash /\ DraftsAreSafe

\* Slots that do not overlap have no unit of time in common.
LEMMA DisjointSlots ==
  ASSUME NEW x \in Slots, NEW y \in Slots, ~Overlaps(x, y)
  PROVE  SharedTime(x, y) = {}
<1>. x.start \in Nat /\ x.end \in Nat /\ y.start \in Nat /\ y.end \in Nat
  BY SlotAssumption
<1>. QED
  BY DEF Overlaps, SharedTime

LEMMA ClashSymmetric ==
  ASSUME NEW x, NEW y, x # NoRow, Clash(x, y)
  PROVE  Clash(y, x)
  BY DEF Clash, Overlaps

\* A step that writes no row.
LEMMA FrameSafe ==
  ASSUME SafeInv, UNCHANGED <<bookings, draft>>
  PROVE  SafeInv'
  BY DEF SafeInv, NoClash, DraftsAreSafe, Clash

LEMMA RollbackSafe ==
  ASSUME TypeInv, SafeInv, NEW s \in Sessions, Rollback(s)
  PROVE  SafeInv'
<1>. USE DEF TypeInv, TypeOK, SafeInv, Rollback, Release, tables, NothingHeld
<1>1. NoClash'
  BY DEF NoClash, Clash
<1>2. DraftsAreSafe'
  BY DEF DraftsAreSafe, Clash
<1>. QED
  BY <1>1, <1>2

\* The step that adds one row to an open transaction.
LEMMA DraftSafe ==
  ASSUME TypeInv, SafeInv, NEW s \in Sessions, NEW b \in BookingIds,
         NEW row \in BookingRow, row # NoRow,
         draft' = [draft EXCEPT ![s][b] = row], UNCHANGED bookings,
         \A u \in Sessions \ {s} : draft[u][b] = NoRow,
         \A u \in Sessions \ {s}, c \in BookingIds \ {b} :
           draft[u][c] # NoRow =>
             ~Clash(row, draft[u][c]) /\ ~Clash(row, bookings[c]),
         \A c \in BookingIds \ {b} :
           draft[s][c] # NoRow => ~Clash(row, draft[s][c]),
         \A c \in BookingIds \ {b} :
           (\A u \in Sessions : draft[u][c] = NoRow) => ~Clash(row, bookings[c])
  PROVE  SafeInv'
<1>1. NoClash'
  BY DEF SafeInv, NoClash, Clash
<1>2. draft'[s][b] = row
  BY DEF TypeInv, TypeOK
<1>3. \A u \in Sessions, c \in BookingIds :
        u # s \/ c # b => draft'[u][c] = draft[u][c]
  BY DEF TypeInv, TypeOK
<1>4. ASSUME NEW u \in Sessions, NEW v \in Sessions, NEW c \in BookingIds,
             NEW d \in BookingIds, draft'[u][c] # NoRow
      PROVE  /\ draft'[v][c] # NoRow => u = v
             /\ c # d => ~Clash(draft'[u][c], draft'[v][d])
             /\ c # d /\ draft'[u][d] = NoRow => ~Clash(draft'[u][c], bookings[d])
  <2>1. CASE u = s /\ c = b
    <3>1. c # d => ~Clash(row, draft'[v][d])
      BY <1>3, <2>1 DEF Clash
    <3>2. c # d /\ draft[s][d] = NoRow => ~Clash(row, bookings[d])
      BY <2>1
    <3>. QED
      BY <1>2, <1>3, <2>1, <3>1, <3>2
  <2>2. CASE (u # s \/ c # b) /\ v = s /\ d = b
    <3>1. draft'[u][c] = draft[u][c] /\ draft'[v][d] = row
      BY <1>2, <1>3, <2>2
    <3>2. c # d => ~Clash(draft[u][c], row)
      BY <1>4, <2>2, <3>1, ClashSymmetric
    <3>3. draft'[v][c] # NoRow => u = v
      BY <1>2, <1>3, <1>4, <2>2, <3>1 DEF SafeInv, DraftsAreSafe
    <3>4. c # d /\ draft'[u][d] = NoRow => ~Clash(draft[u][c], bookings[d])
      BY <1>2, <1>3, <1>4, <2>2, <3>1 DEF SafeInv, DraftsAreSafe
    <3>. QED
      BY <3>1, <3>2, <3>3, <3>4
  <2>3. CASE (u # s \/ c # b) /\ (v # s \/ d # b)
    <3>1. draft'[u][c] = draft[u][c] /\ draft'[v][d] = draft[v][d]
      BY <1>3, <2>3
    <3>2. draft'[v][c] # NoRow => u = v
      BY <1>2, <1>3, <1>4, <2>3, <3>1 DEF SafeInv, DraftsAreSafe
    <3>3. draft'[u][d] = NoRow => draft[u][d] = NoRow
      BY <1>2, <1>3
    <3>. QED
      BY <1>4, <3>1, <3>2, <3>3 DEF SafeInv, DraftsAreSafe
  <2>. QED
    BY <2>1, <2>2, <2>3
<1>5. DraftsAreSafe'
  BY <1>4 DEF DraftsAreSafe, Clash
<1>. QED
  BY <1>1, <1>5 DEF SafeInv

LEMMA CommitSafe ==
  ASSUME TypeInv, SafeInv, NEW s \in Sessions, Commit(s)
  PROVE  SafeInv'
<1>1. TypeOK /\ NoClash /\ DraftsAreSafe
  BY DEF TypeInv, SafeInv
<1>2. \A b \in BookingIds :
        bookings'[b] = IF draft[s][b] = NoRow THEN bookings[b] ELSE draft[s][b]
  BY DEF Commit
<1>3. /\ \A b \in BookingIds : draft'[s][b] = NoRow
      /\ \A u \in Sessions \ {s} : draft'[u] = draft[u]
  BY <1>1 DEF Commit, Release, TypeOK, NothingHeld
<1>4. NoClash'
  <2>. SUFFICES ASSUME NEW b \in BookingIds, NEW c \in BookingIds, b # c,
                       bookings'[b] # NoRow, Clash(bookings'[b], bookings'[c])
                PROVE  FALSE
    BY DEF NoClash, Clash
  <2>1. CASE draft[s][b] # NoRow
    BY <1>1, <1>2, <2>1 DEF DraftsAreSafe
  <2>2. CASE draft[s][b] = NoRow /\ draft[s][c] # NoRow
    <3>1. Clash(bookings'[c], bookings'[b])
      BY ClashSymmetric
    <3>. QED
      BY <1>1, <1>2, <2>2, <3>1 DEF DraftsAreSafe
  <2>3. CASE draft[s][b] = NoRow /\ draft[s][c] = NoRow
    BY <1>1, <1>2, <2>3 DEF NoClash
  <2>. QED
    BY <2>1, <2>2, <2>3
<1>5. DraftsAreSafe'
  <2>. SUFFICES ASSUME NEW u \in Sessions, NEW v \in Sessions,
                       NEW b \in BookingIds, NEW c \in BookingIds,
                       draft'[u][b] # NoRow
                PROVE  /\ draft'[v][b] # NoRow => u = v
                       /\ b # c => ~Clash(draft'[u][b], draft'[v][c])
                       /\ b # c /\ draft'[u][c] = NoRow
                            => ~Clash(draft'[u][b], bookings'[c])
    BY DEF DraftsAreSafe, Clash
  <2>1. u # s /\ draft'[u] = draft[u]
    BY <1>3
  <2>2. draft'[v][b] # NoRow => u = v
    BY <1>1, <1>3, <2>1 DEF DraftsAreSafe
  <2>3. b # c => ~Clash(draft'[u][b], draft'[v][c])
    BY <1>1, <1>3, <2>1 DEF DraftsAreSafe, Clash
  <2>4. b # c /\ draft'[u][c] = NoRow => ~Clash(draft'[u][b], bookings'[c])
    BY <1>1, <1>2, <2>1 DEF DraftsAreSafe
  <2>. QED
    BY <2>2, <2>3, <2>4
<1>. QED
  BY <1>4, <1>5 DEF SafeInv

LEMMA BeginSafe ==
  ASSUME SafeInv, NEW s \in Sessions, Begin(s)
  PROVE  SafeInv'
<1>1. UNCHANGED <<bookings, draft>>
  BY DEF Begin, LoadForRequest, LoadForApprove, LoadForReject, LoadForCancel,
         LoadForDelete, LoadForPublish, ListOverdue, tables
<1>. QED
  BY <1>1, FrameSafe

LEMMA ProceedSafe ==
  ASSUME ExclusionConstraint, TypeInv, SafeInv, NEW s \in Sessions, Proceed(s)
  PROVE  SafeInv'
<1>1. TypeOK /\ StepInv /\ FreshInv
  BY DEF TypeInv
<1>2. CASE AddBooking(s)
  <2>. DEFINE b == op[s].booking
              row == PendingRow(op[s].resource, op[s].actor, op[s].slot)
  <2>1. /\ pc[s] = "dedup" /\ b \in BookingIds
        /\ op[s].actor \in Users /\ op[s].resource \in Resources
        /\ op[s].slot \in Slots
    BY <1>1, <1>2 DEF AddBooking, StepInv
  <2>2. row \in BookingRow
    BY <2>1 DEF PendingRow, BookingRow, Statuses
  <2>3. row # NoRow
    BY <2>2, NoRowAssumption
  <2>4. \A y : ~Clash(row, y)
    BY DEF PendingRow, Clash
  <2>5. /\ draft' = [draft EXCEPT ![s][b] = row]
        /\ UNCHANGED bookings
    BY <1>2 DEF AddBooking, tables
  <2>6. \A u \in Sessions \ {s} : draft[u][b] = NoRow
    BY <1>1, <2>1 DEF FreshInv
  <2>. HIDE DEF row
  <2>. QED
    BY <2>1, <2>2, <2>3, <2>4, <2>5, <2>6, DraftSafe
<1>3. ASSUME NEW b \in BookingIds, Write(s, b)
      PROVE  SafeInv'
  <2>. DEFINE row == Written(s, b)
  <2>1. staged[s][b] # NoRow /\ bookings[b] # NoRow
    BY <1>1, <1>3 DEF Write, StepInv, FreshInv
  <2>2. row \in BookingRow
    BY <1>1, <2>1, WrittenType
  <2>3. row # NoRow
    BY <2>2, NoRowAssumption
  <2>4. draft' = [draft EXCEPT ![s][b] = row] /\ UNCHANGED bookings
    BY <1>3 DEF Write, tables
  <2>5. \A u \in Sessions \ {s} :
          draft[u][b] = NoRow /\ ~ClashInFlight(s, u, b, row)
    BY <1>3 DEF Write, WaitsForRow
  <2>6. ~ClashKnown(s, b, row)
    BY <1>3 DEF Write
  <2>. HIDE DEF row
  <2>7. \A u \in Sessions \ {s}, c \in BookingIds \ {b} :
          draft[u][c] # NoRow =>
            ~Clash(row, draft[u][c]) /\ ~Clash(row, bookings[c])
    BY <2>5 DEF ClashInFlight
  <2>8. \A c \in BookingIds \ {b} : draft[s][c] # NoRow => ~Clash(row, draft[s][c])
    <3>. SUFFICES ASSUME NEW c \in BookingIds \ {b}, draft[s][c] # NoRow
                  PROVE  ~Clash(row, draft[s][c])
      OBVIOUS
    <3>1. \A u \in Sessions \ {s} : draft[u][c] = NoRow
      BY DEF SafeInv, DraftsAreSafe
    <3>. QED
      BY <2>6, <3>1 DEF ClashKnown
  <2>9. \A c \in BookingIds \ {b} :
          (\A u \in Sessions : draft[u][c] = NoRow) => ~Clash(row, bookings[c])
    BY <2>6 DEF ClashKnown
  <2>10. \A u \in Sessions \ {s} : draft[u][b] = NoRow
    BY <2>5
  <2>. QED
    BY <2>2, <2>3, <2>4, <2>7, <2>8, <2>9, <2>10, DraftSafe
<1>4. CASE Commit(s)
  BY <1>4, CommitSafe
<1>5. CASE \/ RefuseDuplicate(s) \/ RefuseDecided(s) \/ JobReturns(s)
           \/ DeadlockAbort(s) \/ \E b \in BookingIds : ExclusionViolation(s, b)
  BY <1>5, RollbackSafe DEF RefuseDuplicate, RefuseDecided, JobReturns,
                            DeadlockAbort, ExclusionViolation
<1>6. CASE \/ AcquireLock(s) \/ Refetch(s) \/ ListCompetitors(s)
           \/ ListPendings(s) \/ SelectResource(s) \/ WriteResource(s)
           \/ \E b \in BookingIds : SelectRow(s, b)
  <2>1. UNCHANGED <<bookings, draft>>
    BY <1>6 DEF AcquireLock, Refetch, ListCompetitors, ListPendings,
                SelectResource, WriteResource, SelectRow, tables
  <2>. QED
    BY <2>1, FrameSafe
<1>. QED
  BY <1>2, <1>3, <1>4, <1>5, <1>6 DEF Proceed

LEMMA NextSafe ==
  ASSUME ExclusionConstraint, TypeInv, SafeInv, [Next]_vars
  PROVE  SafeInv'
<1>1. ASSUME NEW s \in Sessions, Begin(s) PROVE SafeInv'
  BY <1>1, BeginSafe
<1>2. ASSUME NEW s \in Sessions, Proceed(s) PROVE SafeInv'
  BY <1>2, ProceedSafe
<1>3. ASSUME NEW s \in Sessions, Abort(s) PROVE SafeInv'
  BY <1>3, RollbackSafe DEF Abort
<1>4. ASSUME UNCHANGED <<bookings, draft>> PROVE SafeInv'
  BY <1>4, FrameSafe
<1>. QED
  BY <1>1, <1>2, <1>3, <1>4 DEF Next, Tick, SetSubscription, vars, tables,
                                session

LEMMA SafeInvariant ==
  ASSUME ExclusionConstraint
  PROVE  Spec => [](TypeInv /\ SafeInv)
<1>1. Init => TypeInv /\ SafeInv
  BY InitTypeInv DEF Init, SafeInv, NoClash, DraftsAreSafe, NothingHeld
<1>2. TypeInv /\ SafeInv /\ [Next]_vars => TypeInv' /\ SafeInv'
  BY NextTypeInv, NextSafe
<1>. QED
  BY <1>1, <1>2, PTL DEF Spec

\* With the exclusion constraint no two approved bookings of a resource ever
\* share time, whatever the handlers interleave.
THEOREM NoDoubleBooking ==
  ASSUME ExclusionConstraint
  PROVE  Spec => []NoApprovedOverlap
<1>1. TypeInv /\ SafeInv => NoApprovedOverlap
  <2>. SUFFICES ASSUME TypeInv, SafeInv, NEW b \in BookingIds,
                       NEW c \in BookingIds, b # c,
                       bookings[b] # NoRow, bookings[c] # NoRow,
                       bookings[b].status = "APPROVED",
                       bookings[c].status = "APPROVED",
                       bookings[b].resource = bookings[c].resource
                PROVE  SharedTime(bookings[b].slot, bookings[c].slot) = {}
    BY DEF NoApprovedOverlap
  <2>1. bookings[b].slot \in Slots /\ bookings[c].slot \in Slots
    BY DEF TypeInv, TypeOK, BookingRow
  <2>2. ~Overlaps(bookings[b].slot, bookings[c].slot)
    BY DEF SafeInv, NoClash, Clash
  <2>. QED
    BY <2>1, <2>2, DisjointSlots
<1>. QED
  BY <1>1, SafeInvariant, PTL

-----------------------------------------------------------------------------
(***************************************************************************)
(* A booking is approved at most once.  The argument is the handler's own: *)
(* the session that re-fetches the booking under the resource's advisory   *)
(* lock keeps the lock until it has committed, and a booking that has left *)
(* PENDING never returns to it.                                            *)
(***************************************************************************)

(***************************************************************************)
(* The inductive invariant.                                                *)
(***************************************************************************)

\* Two versions of one booking: what no transition changes.
Kin(x, y) ==
  x.resource = y.resource /\ x.customer = y.customer /\ x.slot = y.slot

\* An id is drawn for one booking; every later version is its kin; and none of
\* them is PENDING, even when update() leaves the column status alone.
RowInv ==
  /\ \A s, u \in Sessions :
       s # u /\ op[s].booking = op[u].booking /\ op[s].booking # NoRow
         => bookings[op[s].booking] # NoRow
  /\ \A s \in Sessions, b \in BookingIds :
       /\ staged[s][b] # NoRow =>
            /\ staged[s][b].status # "PENDING"
            /\ Kin(staged[s][b], bookings[b])
       /\ draft[s][b] # NoRow /\ bookings[b] # NoRow =>
            /\ draft[s][b].status # "PENDING"
            /\ Kin(draft[s][b], bookings[b])
       /\ seen[s][b] \notin {NoRow, "PENDING"} =>
            bookings[b] # NoRow /\ bookings[b].status # "PENDING"

\* An approval from its re-fetch to its end.
Deciding(s) ==
  op[s].kind = "approve" /\ pc[s] \in {"competitors", "write", "commit"}

\* Past the lock, an approval holds the lock of its booking's resource; it does
\* not commit before it has written the booking; no other request tells a
\* customer of an approval.
LockOf(s) ==
  /\ pc[s] \in {"lock", "refetch", "competitors"} => op[s].kind = "approve"
  /\ op[s].kind = "approve" =>
       /\ pc[s] \in {"lock", "refetch", "competitors", "write", "commit"}
       /\ op[s].booking \in BookingIds /\ op[s].resource \in Resources
       /\ bookings[op[s].booking] # NoRow
       /\ bookings[op[s].booking].resource = op[s].resource
       /\ pc[s] # "lock" => advisory[op[s].resource] = s
       /\ pc[s] = "write" => \/ staged[s][op[s].booking] # NoRow
                             \/ draft[s][op[s].booking] # NoRow
       /\ pc[s] = "commit" => draft[s][op[s].booking] # NoRow
  /\ \A n \in outbox[s] :
       n.kind = "APPROVED" => Deciding(s) /\ n.booking = op[s].booking

LockInv == \A s \in Sessions : LockOf(s)

\* No customer has been told that b is approved.
Untold(b) ==
  \A n \in Notice : n.kind = "APPROVED" /\ n.booking = b => inbox[n] = 0

\* Nobody is told of an approval before it commits.
NoticeInv ==
  /\ \A s \in Sessions : Deciding(s) => Untold(op[s].booking)
  /\ \A b \in BookingIds :
       bookings[b] = NoRow \/ bookings[b].status = "PENDING" => Untold(b)
  /\ ApprovedAtMostOnce

ApprovalInv == RowInv /\ LockInv /\ NoticeInv

(***************************************************************************)
(* RowInv.                                                                 *)
(***************************************************************************)

\* A transition keeps the booking's kin.
LEMMA MovedKin ==
  ASSUME NEW B \in SUBSET BookingIds, NEW to, NEW role, NEW reason,
         NEW b \in BookingIds, Moved(B, to, role, reason)[b] # NoRow
  PROVE  /\ b \in B
         /\ Moved(B, to, role, reason)[b].status = to
         /\ Kin(Moved(B, to, role, reason)[b], bookings[b])
  BY DEF Moved, Transition, Rewritten, Kin

\* A session that takes up a command about an existing booking, about a new
\* one, or about none, and that stages kin.
LEMMA ServeRow ==
  ASSUME TypeInv, RowInv, NEW s \in Sessions, NEW command, NEW next,
         Serve(s, command, next), UNCHANGED <<bookings, draft, seen>>,
         \A u \in Sessions \ {s} : staged'[u] = staged[u],
         \A b \in BookingIds : staged'[s][b] # NoRow =>
           staged'[s][b].status # "PENDING" /\ Kin(staged'[s][b], bookings[b]),
         \/ command.booking = NoRow
         \/ bookings[command.booking] # NoRow
         \/ \A u \in Sessions : op[u].booking # command.booking
  PROVE  RowInv'
<1>1. /\ op'[s] = command
      /\ \A u \in Sessions \ {s} : op'[u] = op[u]
  BY DEF Serve, TypeInv, TypeOK
<1>2. ASSUME NEW t \in Sessions, NEW u \in Sessions, t # u,
             op'[t].booking = op'[u].booking, op'[t].booking # NoRow
      PROVE  bookings'[op'[t].booking] # NoRow
  BY <1>1, <1>2 DEF RowInv
<1>3. ASSUME NEW t \in Sessions, NEW b \in BookingIds, staged'[t][b] # NoRow
      PROVE  /\ staged'[t][b].status # "PENDING"
             /\ Kin(staged'[t][b], bookings'[b])
  BY <1>3 DEF RowInv
<1>4. ASSUME NEW t \in Sessions, NEW b \in BookingIds
      PROVE  /\ draft'[t][b] # NoRow /\ bookings'[b] # NoRow =>
                  /\ draft'[t][b].status # "PENDING"
                  /\ Kin(draft'[t][b], bookings'[b])
             /\ seen'[t][b] \notin {NoRow, "PENDING"} =>
                  bookings'[b] # NoRow /\ bookings'[b].status # "PENDING"
  BY DEF RowInv
<1>. QED
  BY <1>2, <1>3, <1>4 DEF RowInv

LEMMA BeginRow ==
  ASSUME TypeInv, RowInv, NEW s \in Sessions, Begin(s)
  PROVE  RowInv'
<1>. USE DEF tables, updating
<1>1. \A u \in Sessions, b \in BookingIds : staged[u][b] # NoRow =>
        staged[u][b].status # "PENDING" /\ Kin(staged[u][b], bookings[b])
  BY DEF RowInv
<1>2. ASSUME NEW c \in Users, NEW r \in Resources, NEW x \in Slots,
             NEW b \in BookingIds, LoadForRequest(s, c, r, x, b)
      PROVE  RowInv'
  <2>1. /\ Serve(s, Command("request", c, b, r, x), "dedup")
        /\ UNCHANGED <<bookings, draft, seen, staged>>
        /\ \A u \in Sessions : op[u].booking # b
    BY <1>2 DEF LoadForRequest, IsFresh
  <2>2. Command("request", c, b, r, x).booking = b
    BY DEF Command
  <2>. QED
    BY <1>1, <2>1, <2>2, ServeRow
<1>3. ASSUME NEW b \in BookingIds, LoadForApprove(s, b)
      PROVE  RowInv'
  <2>. DEFINE command == Command("approve", NoRow, b, bookings[b].resource, NoRow)
  <2>1. /\ Serve(s, command, "lock")
        /\ UNCHANGED <<bookings, draft, seen, staged>>
        /\ bookings[b] # NoRow
    BY <1>3 DEF LoadForApprove
  <2>2. command.booking = b
    BY DEF Command
  <2>. HIDE DEF command
  <2>. QED
    BY <1>1, <2>1, <2>2, ServeRow
<1>4. ASSUME NEW B \in SUBSET BookingIds, NEW to \in Statuses \ {"PENDING"},
             NEW role, NEW reason, NEW command, NEW next,
             Serve(s, command, next), command.booking \in B \cup {NoRow},
             \A b \in B : bookings[b] # NoRow,
             staged' = [staged EXCEPT ![s] = Moved(B, to, role, reason)],
             UNCHANGED <<bookings, draft, seen>>
      PROVE  RowInv'
  <2>1. /\ staged'[s] = Moved(B, to, role, reason)
        /\ \A u \in Sessions \ {s} : staged'[u] = staged[u]
    BY <1>4 DEF TypeInv, TypeOK
  <2>2. \A b \in BookingIds : staged'[s][b] # NoRow =>
          staged'[s][b].status # "PENDING" /\ Kin(staged'[s][b], bookings[b])
    BY <1>4, <2>1, MovedKin
  <2>. QED
    BY <1>4, <2>1, <2>2, ServeRow
<1>5. ASSUME NEW b \in BookingIds, LoadForReject(s, b)
      PROVE  RowInv'
  <2>1. /\ Serve(s, Command("reject", NoRow, b, NoRow, NoRow), "write")
        /\ staged' = [staged EXCEPT ![s] =
                        Moved({b}, "REJECTED", "OWNER", "given")]
        /\ bookings[b] # NoRow /\ UNCHANGED <<bookings, draft, seen>>
    BY <1>5 DEF LoadForReject
  <2>2. Command("reject", NoRow, b, NoRow, NoRow).booking = b
    BY DEF Command
  <2>3. {b} \in SUBSET BookingIds /\ "REJECTED" \in Statuses \ {"PENDING"}
    BY DEF Statuses
  <2>. QED
    BY <1>4, <2>1, <2>2, <2>3
<1>6. ASSUME NEW b \in BookingIds, NEW u \in Users, LoadForCancel(s, b, u)
      PROVE  RowInv'
  <2>1. PICK role \in Roles :
          /\ Serve(s, Command("cancel", u, b, NoRow, NoRow), "write")
          /\ staged' = [staged EXCEPT ![s] =
                          Moved({b}, "CANCELLED", role, "given")]
          /\ bookings[b] # NoRow /\ UNCHANGED <<bookings, draft, seen>>
    BY <1>6 DEF LoadForCancel, Roles
  <2>2. Command("cancel", u, b, NoRow, NoRow).booking = b
    BY DEF Command
  <2>3. {b} \in SUBSET BookingIds /\ "CANCELLED" \in Statuses \ {"PENDING"}
    BY DEF Statuses
  <2>. QED
    BY <1>4, <2>1, <2>2, <2>3
<1>7. CASE ListOverdue(s)
  <2>. DEFINE found == PendingStartedBefore(clock)
  <2>1. /\ Serve(s, Command("expire", NoRow, NoRow, NoRow, NoRow), "write")
        /\ staged' = [staged EXCEPT ![s] =
                        Moved(found, "EXPIRED", "CUSTOMER", "slot_passed")]
        /\ UNCHANGED <<bookings, draft, seen>>
    BY <1>7 DEF ListOverdue
  <2>2. Command("expire", NoRow, NoRow, NoRow, NoRow).booking = NoRow
    BY DEF Command
  <2>3. /\ found \in SUBSET BookingIds /\ \A b \in found : bookings[b] # NoRow
        /\ "EXPIRED" \in Statuses \ {"PENDING"}
    BY DEF PendingStartedBefore, Statuses
  <2>. HIDE DEF found
  <2>. QED
    BY <1>4, <2>1, <2>2, <2>3
<1>8. ASSUME NEW r \in Resources,
             \/ LoadForDelete(s, r)
             \/ \E p \in BOOLEAN : LoadForPublish(s, r, p)
      PROVE  RowInv'
  <2>1. PICK kind \in {"delete", "publish"}, next \in {"pendings", "resource"} :
          /\ Serve(s, Command(kind, NoRow, NoRow, r, NoRow), next)
          /\ UNCHANGED <<bookings, draft, seen, staged>>
    BY <1>8 DEF LoadForDelete, LoadForPublish
  <2>2. Command(kind, NoRow, NoRow, r, NoRow).booking = NoRow
    BY DEF Command
  <2>. QED
    BY <1>1, <2>1, <2>2, ServeRow
<1>. QED
  BY <1>2, <1>3, <1>5, <1>6, <1>7, <1>8 DEF Begin

\* A transaction that ends without writing anything.
LEMMA RollbackRow ==
  ASSUME TypeInv, RowInv, NEW s \in Sessions, Rollback(s)
  PROVE  RowInv'
<1>1. /\ op'[s].booking = NoRow
      /\ \A b \in BookingIds :
           staged'[s][b] = NoRow /\ draft'[s][b] = NoRow /\ seen'[s][b] = NoRow
      /\ \A u \in Sessions \ {s} :
           /\ op'[u] = op[u] /\ staged'[u] = staged[u]
           /\ draft'[u] = draft[u] /\ seen'[u] = seen[u]
      /\ UNCHANGED bookings
  BY DEF Rollback, Release, TypeInv, TypeOK, NoOp, Command, NothingHeld, tables
<1>. QED
  BY <1>1 DEF RowInv

LEMMA CommitRow ==
  ASSUME TypeInv, RowInv, NEW s \in Sessions, Commit(s)
  PROVE  RowInv'
<1>1. /\ op'[s].booking = NoRow
      /\ \A b \in BookingIds :
           staged'[s][b] = NoRow /\ draft'[s][b] = NoRow /\ seen'[s][b] = NoRow
      /\ \A u \in Sessions \ {s} :
           /\ op'[u] = op[u] /\ staged'[u] = staged[u]
           /\ draft'[u] = draft[u] /\ seen'[u] = seen[u]
  BY DEF Commit, Release, TypeInv, TypeOK, NoOp, Command, NothingHeld
<1>2. \A b \in BookingIds :
        bookings'[b] = IF draft[s][b] = NoRow THEN bookings[b] ELSE draft[s][b]
  BY DEF Commit
<1>3. \A b \in BookingIds : bookings[b] # NoRow =>
        /\ bookings'[b] # NoRow /\ Kin(bookings[b], bookings'[b])
        /\ bookings[b].status # "PENDING" => bookings'[b].status # "PENDING"
  BY <1>2 DEF RowInv, Kin
<1>4. ASSUME NEW t \in Sessions, NEW u \in Sessions, t # u,
             op'[t].booking = op'[u].booking, op'[t].booking # NoRow
      PROVE  bookings'[op'[t].booking] # NoRow
  <2>1. t # s /\ u # s /\ op[t].booking \in BookingIds
    BY <1>1, <1>4 DEF TypeInv, TypeOK, Op
  <2>. QED
    BY <1>1, <1>3, <1>4, <2>1 DEF RowInv
<1>5. ASSUME NEW t \in Sessions, NEW b \in BookingIds, staged'[t][b] # NoRow
      PROVE  /\ staged'[t][b].status # "PENDING"
             /\ Kin(staged'[t][b], bookings'[b])
  <2>1. t # s /\ bookings[b] # NoRow
    BY <1>1, <1>5 DEF TypeInv, FreshInv
  <2>. QED
    BY <1>1, <1>3, <1>5, <2>1 DEF RowInv, Kin
<1>6. ASSUME NEW t \in Sessions, NEW b \in BookingIds,
             draft'[t][b] # NoRow, bookings'[b] # NoRow
      PROVE  /\ draft'[t][b].status # "PENDING"
             /\ Kin(draft'[t][b], bookings'[b])
  <2>1. t # s /\ draft[t][b] # NoRow
    BY <1>1, <1>6
  <2>2. CASE bookings[b] # NoRow
    BY <1>1, <1>3, <2>1, <2>2 DEF RowInv, Kin
  <2>3. CASE bookings[b] = NoRow
    <3>1. draft[s][b] # NoRow
      BY <1>2, <1>6, <2>3
    <3>2. op[s].booking = b /\ op[t].booking = b
      BY <2>1, <2>3, <3>1 DEF TypeInv, FreshInv
    <3>. QED
      BY <2>1, <2>3, <3>2, NoRowAssumption DEF RowInv
  <2>. QED
    BY <2>2, <2>3
<1>7. ASSUME NEW t \in Sessions, NEW b \in BookingIds,
             seen'[t][b] \notin {NoRow, "PENDING"}
      PROVE  bookings'[b] # NoRow /\ bookings'[b].status # "PENDING"
  BY <1>1, <1>3, <1>7 DEF RowInv
<1>. QED
  BY <1>4, <1>5, <1>6, <1>7 DEF RowInv

LEMMA ProceedRow ==
  ASSUME TypeInv, RowInv, NEW s \in Sessions, Proceed(s)
  PROVE  RowInv'
<1>. USE DEF tables, updating
<1>1. CASE AddBooking(s)
  <2>. DEFINE b == op[s].booking
  <2>1. /\ UNCHANGED <<bookings, op, staged, seen>>
        /\ \A u \in Sessions, c \in BookingIds :
             draft'[u][c] # NoRow => draft'[u][c] = draft[u][c] \/ c = b
        /\ bookings[b] = NoRow
    BY <1>1 DEF AddBooking, TypeInv, TypeOK, FreshInv
  <2>. QED
    BY <2>1 DEF RowInv
<1>2. ASSUME NEW B \in SUBSET BookingIds, NEW to \in Statuses \ {"PENDING"},
             NEW role, NEW reason,
             \A u \in Sessions, b \in BookingIds :
               \/ staged'[u][b] = staged[u][b]
               \/ u = s /\ staged'[u][b] = Moved(B, to, role, reason)[b],
             UNCHANGED <<bookings, op, draft, seen>>
      PROVE  RowInv'
  <2>1. ASSUME NEW u \in Sessions, NEW b \in BookingIds, staged'[u][b] # NoRow
        PROVE  /\ staged'[u][b].status # "PENDING"
               /\ Kin(staged'[u][b], bookings[b])
    BY <1>2, <2>1, MovedKin DEF RowInv
  <2>. QED
    BY <1>2, <2>1 DEF RowInv
<1>3. CASE Refetch(s)
  <2>. DEFINE B == {op[s].booking}
  <2>1. B \in SUBSET BookingIds
    BY <1>3 DEF Refetch, TypeInv, StepInv
  <2>2. /\ \A u \in Sessions, b \in BookingIds :
             \/ staged'[u][b] = staged[u][b]
             \/ u = s /\ staged'[u][b] = Moved(B, "APPROVED", "OWNER", "given")[b]
        /\ UNCHANGED <<bookings, op, draft, seen>>
    BY <1>3 DEF Refetch, TypeInv, TypeOK
  <2>. HIDE DEF B
  <2>. QED
    BY <1>2, <2>1, <2>2 DEF Statuses
<1>4. CASE ListCompetitors(s)
  <2>. DEFINE target == staged[s][op[s].booking]
              B == PendingOverlapping(target.resource, target.slot, op[s].booking)
              moved == Moved(B, "REJECTED", "OWNER", "auto_rejected")
  <2>1. B \in SUBSET BookingIds
    BY DEF PendingOverlapping, PendingFor
  <2>2. /\ staged' = [staged EXCEPT ![s] =
                        [moved EXCEPT ![op[s].booking] = target]]
        /\ UNCHANGED <<bookings, op, draft, seen>>
    BY <1>4 DEF ListCompetitors
  <2>3. DOMAIN moved = BookingIds
    BY DEF Moved
  <2>. HIDE DEF B, moved
  <2>4. \A u \in Sessions, b \in BookingIds :
             \/ staged'[u][b] = staged[u][b]
             \/ u = s /\ staged'[u][b] = moved[b]
    BY <2>2, <2>3 DEF TypeInv, TypeOK
  <2>. QED
    BY <1>2, <2>1, <2>2, <2>4 DEF Statuses, moved
<1>5. CASE ListPendings(s)
  <2>. DEFINE B == PendingFor(op[s].resource)
  <2>1. B \in SUBSET BookingIds
    BY DEF PendingFor
  <2>2. /\ \A u \in Sessions, b \in BookingIds :
             \/ staged'[u][b] = staged[u][b]
             \/ u = s /\ staged'[u][b] =
                           Moved(B, "CANCELLED", "OWNER", "resource_deleted")[b]
        /\ UNCHANGED <<bookings, op, draft, seen>>
    BY <1>5 DEF ListPendings, TypeInv, TypeOK
  <2>. HIDE DEF B
  <2>. QED
    BY <1>2, <2>1, <2>2 DEF Statuses
<1>6. ASSUME NEW b \in BookingIds, SelectRow(s, b)
      PROVE  RowInv'
  <2>1. staged[s][b] # NoRow /\ bookings[b] # NoRow
    BY <1>6 DEF SelectRow, NextWrites, TypeInv, FreshInv
  <2>2. /\ \A u \in Sessions, c \in BookingIds :
             \/ seen'[u][c] = seen[u][c]
             \/ c = b /\ seen'[u][c] = bookings[b].status
        /\ UNCHANGED <<bookings, op, staged, draft>>
    BY <1>6 DEF SelectRow, TypeInv, TypeOK
  <2>. QED
    BY <2>1, <2>2 DEF RowInv
<1>7. ASSUME NEW b \in BookingIds, Write(s, b)
      PROVE  RowInv'
  <2>1. seen[s][b] # NoRow /\ staged[s][b] # NoRow /\ bookings[b] # NoRow
    BY <1>7 DEF Write, TypeInv, StepInv, FreshInv
  <2>. DEFINE row == Written(s, b)
  <2>2. row.status # "PENDING" /\ Kin(row, bookings[b])
    BY <2>1 DEF Written, Rewritten, RowInv, Kin
  <2>3. /\ draft' = [draft EXCEPT ![s][b] = row]
        /\ staged' = [staged EXCEPT ![s][b] = NoRow]
        /\ seen' = [seen EXCEPT ![s] = NothingHeld]
        /\ UNCHANGED <<bookings, op>>
    BY <1>7 DEF Write
  <2>. HIDE DEF row
  <2>4. \A u \in Sessions, c \in BookingIds :
          draft'[u][c] = IF u = s /\ c = b THEN row ELSE draft[u][c]
    BY <2>3 DEF TypeInv, TypeOK
  <2>5. \A u \in Sessions, c \in BookingIds :
          staged'[u][c] = staged[u][c] \/ staged'[u][c] = NoRow
    BY <2>3 DEF TypeInv, TypeOK
  <2>6. \A u \in Sessions, c \in BookingIds :
          seen'[u][c] = seen[u][c] \/ seen'[u][c] = NoRow
    BY <2>3 DEF TypeInv, TypeOK, NothingHeld
  <2>. QED
    BY <2>1, <2>2, <2>3, <2>4, <2>5, <2>6 DEF RowInv
<1>8. CASE Commit(s)
  BY <1>8, CommitRow
<1>9. CASE \/ RefuseDuplicate(s) \/ RefuseDecided(s) \/ JobReturns(s)
           \/ DeadlockAbort(s) \/ \E b \in BookingIds : ExclusionViolation(s, b)
  BY <1>9, RollbackRow DEF RefuseDuplicate, RefuseDecided, JobReturns,
                           DeadlockAbort, ExclusionViolation
<1>10. CASE AcquireLock(s) \/ SelectResource(s) \/ WriteResource(s)
  BY <1>10 DEF AcquireLock, SelectResource, WriteResource, RowInv
<1>. QED
  BY <1>1, <1>3, <1>4, <1>5, <1>6, <1>7, <1>8, <1>9, <1>10 DEF Proceed
(***************************************************************************)
(* LockInv.                                                                *)
(***************************************************************************)

\* What a step of session s leaves to the others.
Apart(s) ==
  /\ \A u \in Sessions \ {s} :
       /\ pc'[u] = pc[u] /\ op'[u] = op[u] /\ outbox'[u] = outbox[u]
       /\ staged'[u] = staged[u] /\ draft'[u] = draft[u]
  /\ \A r \in Resources, u \in Sessions \ {s} :
       advisory[r] = u => advisory'[r] = u
  /\ \A b \in BookingIds :
       bookings[b] # NoRow =>
         bookings'[b] # NoRow /\ bookings'[b].resource = bookings[b].resource

LEMMA OthersLock ==
  ASSUME LockInv, NEW s \in Sessions, Apart(s), LockOf(s)'
  PROVE  LockInv'
<1>1. ASSUME NEW u \in Sessions, u # s
      PROVE  LockOf(u)'
  BY <1>1 DEF LockInv, LockOf, Apart, Deciding
<1>. QED
  BY <1>1 DEF LockInv

\* After its step s serves another kind of command, or none.
LEMMA NoApproval ==
  ASSUME LockInv, NEW s \in Sessions, Apart(s),
         op'[s].kind # "approve",
         pc'[s] \notin {"lock", "refetch", "competitors"},
         \A n \in outbox'[s] : n.kind # "APPROVED"
  PROVE  LockInv'
<1>1. LockOf(s)'
  BY DEF LockOf
<1>. QED
  BY <1>1, OthersLock

LEMMA BeginLock ==
  ASSUME TypeInv, LockInv, NEW s \in Sessions, Begin(s)
  PROVE  LockInv'
<1>. USE DEF tables, updating
<1>1. TypeOK
  BY DEF TypeInv
<1>2. pc[s] = "idle"
  BY DEF Begin, LoadForRequest, LoadForApprove, LoadForReject, LoadForCancel,
         LoadForDelete, LoadForPublish, ListOverdue, Serve
<1>3. Apart(s)
  <2>1. UNCHANGED <<bookings, draft, advisory>>
    BY DEF Begin, LoadForRequest, LoadForApprove, LoadForReject, LoadForCancel,
           LoadForDelete, LoadForPublish, ListOverdue
  <2>2. \A u \in Sessions \ {s} : pc'[u] = pc[u] /\ op'[u] = op[u]
    <3>1. \E command, next : Serve(s, command, next)
      BY DEF Begin, LoadForRequest, LoadForApprove, LoadForReject,
             LoadForCancel, LoadForDelete, LoadForPublish, ListOverdue
    <3>. QED
      BY <1>1, <3>1 DEF Serve, TypeOK
  <2>3. \A u \in Sessions \ {s} : staged'[u] = staged[u]
    BY <1>1 DEF Begin, LoadForRequest, LoadForApprove, LoadForReject,
                LoadForCancel, LoadForDelete, LoadForPublish, ListOverdue, TypeOK
  <2>4. \A u \in Sessions \ {s} : outbox'[u] = outbox[u]
    BY <1>1 DEF Begin, LoadForRequest, LoadForApprove, LoadForReject,
                LoadForCancel, LoadForDelete, LoadForPublish, ListOverdue, TypeOK
  <2>. QED
    BY <2>1, <2>2, <2>3, <2>4 DEF Apart
<1>4. \A n \in outbox[s] : n.kind # "APPROVED"
  BY <1>2 DEF LockInv, LockOf, Deciding
<1>5. ASSUME NEW b \in BookingIds, LoadForApprove(s, b)
      PROVE  LockInv'
  <2>. DEFINE command == Command("approve", NoRow, b, bookings[b].resource, NoRow)
  <2>1. /\ bookings[b] # NoRow /\ UNCHANGED <<bookings, outbox>>
        /\ op' = [op EXCEPT ![s] = command] /\ pc' = [pc EXCEPT ![s] = "lock"]
    BY <1>5 DEF LoadForApprove, Serve
  <2>2. bookings[b].resource \in Resources
    BY <1>1, <2>1 DEF TypeOK, BookingRow
  <2>3. /\ command.kind = "approve" /\ command.booking = b
        /\ command.resource = bookings[b].resource
    BY DEF Command
  <2>. HIDE DEF command
  <2>4. op'[s] = command /\ pc'[s] = "lock"
    BY <1>1, <2>1 DEF TypeOK
  <2>5. LockOf(s)'
    BY <1>4, <2>1, <2>2, <2>3, <2>4 DEF LockOf
  <2>. QED
    BY <1>3, <2>5, OthersLock
<1>6. ASSUME NEW kind \in AllKinds \ {"approve"}, NEW actor, NEW b, NEW r, NEW x,
             NEW next \in {"dedup", "pendings", "resource", "write"},
             Serve(s, Command(kind, actor, b, r, x), next),
             \A n \in outbox'[s] : n.kind # "APPROVED"
      PROVE  LockInv'
  <2>1. op'[s].kind = kind /\ pc'[s] = next
    BY <1>1, <1>6 DEF Serve, Command, TypeOK
  <2>. QED
    BY <1>3, <1>6, <2>1, NoApproval
<1>7. ASSUME NEW c \in Users, NEW r \in Resources, NEW x \in Slots,
             NEW b \in BookingIds, LoadForRequest(s, c, r, x, b)
      PROVE  LockInv'
  BY <1>4, <1>6, <1>7 DEF LoadForRequest, AllKinds
<1>8. ASSUME NEW b \in BookingIds, LoadForReject(s, b)
      PROVE  LockInv'
  <2>1. \A n \in outbox'[s] : n.kind # "APPROVED"
    BY <1>1, <1>8 DEF LoadForReject, Tell, TypeOK
  <2>. QED
    BY <1>6, <1>8, <2>1 DEF LoadForReject, AllKinds
<1>9. ASSUME NEW b \in BookingIds, NEW u \in Users, LoadForCancel(s, b, u)
      PROVE  LockInv'
  <2>1. \A n \in outbox'[s] : n.kind # "APPROVED"
    BY <1>1, <1>9 DEF LoadForCancel, Tell, TypeOK
  <2>. QED
    BY <1>6, <1>9, <2>1 DEF LoadForCancel, AllKinds
<1>10. ASSUME NEW r \in Resources, LoadForDelete(s, r)
       PROVE  LockInv'
  BY <1>4, <1>6, <1>10 DEF LoadForDelete, AllKinds
<1>11. ASSUME NEW r \in Resources, NEW p \in BOOLEAN, LoadForPublish(s, r, p)
       PROVE  LockInv'
  BY <1>4, <1>6, <1>11 DEF LoadForPublish, AllKinds
<1>12. CASE ListOverdue(s)
  <2>1. \A n \in outbox'[s] : n.kind # "APPROVED"
    BY <1>1, <1>12 DEF ListOverdue, Tell, TypeOK
  <2>. QED
    BY <1>6, <1>12, <2>1 DEF ListOverdue, AllKinds
<1>. QED
  BY <1>5, <1>7, <1>8, <1>9, <1>10, <1>11, <1>12 DEF Begin

\* The transaction of s ends, committed or not.
LEMMA ReleaseLock ==
  ASSUME TypeInv, RowInv, LockInv, NEW s \in Sessions, Release(s),
         UNCHANGED bookings \/ Commit(s)
  PROVE  LockInv'
<1>1. TypeOK
  BY DEF TypeInv
<1>2. /\ op'[s].kind = "request" /\ pc'[s] = "idle" /\ outbox'[s] = {}
      /\ \A u \in Sessions \ {s} :
           /\ pc'[u] = pc[u] /\ op'[u] = op[u] /\ outbox'[u] = outbox[u]
           /\ staged'[u] = staged[u] /\ draft'[u] = draft[u]
      /\ \A r \in Resources, u \in Sessions \ {s} :
           advisory[r] = u => advisory'[r] = u
  BY <1>1 DEF Release, TypeOK, NoOp, Command
<1>3. \A b \in BookingIds : bookings[b] # NoRow =>
        bookings'[b] # NoRow /\ bookings'[b].resource = bookings[b].resource
  BY DEF Commit, RowInv, Kin
<1>4. Apart(s)
  BY <1>2, <1>3 DEF Apart
<1>. QED
  BY <1>2, <1>4, NoApproval

LEMMA ProceedLock ==
  ASSUME TypeInv, RowInv, LockInv, NEW s \in Sessions, Proceed(s)
  PROVE  LockInv'
<1>. USE DEF tables, updating
<1>1. TypeOK /\ StepInv /\ FreshInv
  BY DEF TypeInv
<1>2. CASE AddBooking(s)
  <2>1. pc[s] = "dedup" /\ op[s].kind # "approve"
    BY <1>2 DEF AddBooking, LockInv, LockOf
  <2>2. Apart(s)
    BY <1>1, <1>2 DEF AddBooking, TypeOK, Apart
  <2>3. \A n \in outbox'[s] : n.kind # "APPROVED"
    BY <1>1, <1>2 DEF AddBooking, Tell, TypeOK
  <2>4. op'[s].kind # "approve" /\ pc'[s] = "commit"
    BY <1>1, <1>2, <2>1 DEF AddBooking, TypeOK
  <2>. QED
    BY <2>2, <2>3, <2>4, NoApproval
<1>3. CASE AcquireLock(s)
  <2>1. Apart(s)
    BY <1>1, <1>3, NoRowAssumption DEF AcquireLock, TypeOK, Apart
  <2>2. /\ pc[s] = "lock" /\ pc'[s] = "refetch" /\ op[s].resource \in Resources
        /\ UNCHANGED <<op, outbox, bookings, staged, draft>>
        /\ advisory'[op[s].resource] = s
    BY <1>1, <1>3 DEF AcquireLock, TypeOK, StepInv
  <2>3. LockOf(s)'
    BY <2>2 DEF LockInv, LockOf, Deciding
  <2>. QED
    BY <2>1, <2>3, OthersLock
<1>4. CASE Refetch(s)
  <2>. DEFINE b == op[s].booking
              moved == Moved({b}, "APPROVED", "OWNER", "given")
  <2>1. /\ pc[s] = "refetch" /\ b \in BookingIds
        /\ UNCHANGED <<op, outbox, bookings, draft, advisory>>
        /\ pc' = [pc EXCEPT ![s] = "competitors"]
        /\ staged' = [staged EXCEPT ![s] = moved]
    BY <1>1, <1>4 DEF Refetch, StepInv
  <2>. HIDE DEF moved
  <2>2. Apart(s)
    BY <1>1, <2>1 DEF TypeOK, Apart
  <2>3. pc'[s] = "competitors"
    BY <1>1, <2>1 DEF TypeOK
  <2>4. LockOf(s)'
    BY <2>1, <2>3 DEF LockInv, LockOf, Deciding
  <2>. QED
    BY <2>2, <2>4, OthersLock
<1>5. CASE ListCompetitors(s)
  <2>. DEFINE b == op[s].booking
              target == staged[s][b]
              losers == PendingOverlapping(target.resource, target.slot, b)
              moved == Moved(losers, "REJECTED", "OWNER", "auto_rejected")
              entities == [moved EXCEPT ![b] = target]
              notes == {Tell(target.customer, "APPROVED", b)} \cup
                       {Tell(bookings[c].customer, "REJECTED", c) : c \in losers}
  <2>1. /\ pc[s] = "competitors" /\ b \in BookingIds /\ target # NoRow
        /\ UNCHANGED <<op, bookings, draft, advisory>>
        /\ pc' = [pc EXCEPT ![s] = "write"]
        /\ staged' = [staged EXCEPT ![s] = entities]
        /\ outbox' = [outbox EXCEPT ![s] = notes]
    BY <1>1, <1>5, NoRowAssumption DEF ListCompetitors, StepInv
  <2>2. entities[b] = target
    BY <2>1 DEF Moved
  <2>3. \A n \in notes : n.kind = "APPROVED" => n.booking = b
    BY DEF Tell
  <2>. HIDE DEF target, entities, notes
  <2>4. Apart(s)
    BY <1>1, <2>1 DEF TypeOK, Apart
  <2>5. pc'[s] = "write" /\ staged'[s] = entities /\ outbox'[s] = notes
    BY <1>1, <2>1 DEF TypeOK
  <2>6. LockOf(s)'
    BY <2>1, <2>2, <2>3, <2>5 DEF LockInv, LockOf, Deciding
  <2>. QED
    BY <2>4, <2>6, OthersLock
<1>6. CASE ListPendings(s)
  <2>1. pc[s] = "pendings" /\ op[s].kind # "approve"
    BY <1>6 DEF ListPendings, LockInv, LockOf
  <2>2. Apart(s)
    BY <1>1, <1>6 DEF ListPendings, TypeOK, Apart
  <2>3. \A n \in outbox'[s] : n.kind # "APPROVED"
    BY <1>1, <1>6 DEF ListPendings, Tell, TypeOK
  <2>4. op'[s].kind # "approve" /\ pc'[s] \in {"resource", "write"}
    BY <1>1, <1>6, <2>1 DEF ListPendings, TypeOK
  <2>. QED
    BY <2>2, <2>3, <2>4, NoApproval
<1>7. ASSUME NEW b \in BookingIds, SelectRow(s, b)
      PROVE  LockInv'
  BY <1>7 DEF SelectRow, LockInv, LockOf, Deciding
<1>8. ASSUME NEW b \in BookingIds, Write(s, b)
      PROVE  LockInv'
  <2>. DEFINE row == Written(s, b)
              next == IF \A c \in BookingIds \ {b} : staged[s][c] = NoRow
                      THEN AfterWrites(op[s].kind) ELSE "write"
  <2>1. pc[s] = "write" /\ staged[s][b] # NoRow /\ bookings[b] # NoRow
    BY <1>1, <1>8 DEF Write, StepInv, FreshInv
  <2>2. row # NoRow
    BY <1>1, <2>1, WrittenType, NoRowAssumption
  <2>3. /\ draft' = [draft EXCEPT ![s][b] = row]
        /\ staged' = [staged EXCEPT ![s][b] = NoRow]
        /\ pc' = [pc EXCEPT ![s] = next]
        /\ UNCHANGED <<bookings, op, outbox, advisory>>
    BY <1>8 DEF Write
  <2>4. next \in {"resource", "return", "commit", "write"}
    BY DEF AfterWrites
  <2>5. op[s].kind = "approve" => next \in {"commit", "write"}
    BY DEF AfterWrites
  <2>6. next # "write" => \A c \in BookingIds \ {b} : staged[s][c] = NoRow
    OBVIOUS
  <2>. HIDE DEF row, next
  <2>7. Apart(s)
    BY <1>1, <2>3 DEF TypeOK, Apart
  <2>8. pc'[s] = next
    BY <1>1, <2>3 DEF TypeOK
  <2>9. \A c \in BookingIds :
          /\ draft'[s][c] = IF c = b THEN row ELSE draft[s][c]
          /\ staged'[s][c] = IF c = b THEN NoRow ELSE staged[s][c]
    BY <1>1, <2>3 DEF TypeOK
  <2>10. CASE op[s].kind = "approve"
    <3>1. LockOf(s)
      BY DEF LockInv
    <3>2. op[s].booking \in BookingIds
      BY <2>10, <3>1 DEF LockOf
    <3>3. next = "commit" => draft'[s][op[s].booking] # NoRow
      BY <2>1, <2>2, <2>6, <2>9, <2>10, <3>1, <3>2 DEF LockOf
    <3>4. \/ staged'[s][op[s].booking] # NoRow
          \/ draft'[s][op[s].booking] # NoRow
      BY <2>1, <2>2, <2>9, <2>10, <3>1, <3>2 DEF LockOf
    <3>5. LockOf(s)'
      BY <2>1, <2>3, <2>5, <2>8, <2>10, <3>1, <3>3, <3>4 DEF LockOf, Deciding
    <3>. QED
      BY <2>7, <3>5, OthersLock
  <2>11. CASE op[s].kind # "approve"
    <3>1. \A n \in outbox'[s] : n.kind # "APPROVED"
      BY <2>3, <2>11 DEF LockInv, LockOf, Deciding
    <3>. QED
      BY <2>3, <2>4, <2>7, <2>8, <2>11, <3>1, NoApproval
  <2>. QED
    BY <2>10, <2>11
<1>9. CASE SelectResource(s)
  BY <1>9 DEF SelectResource, LockInv, LockOf, Deciding
<1>10. CASE WriteResource(s)
  <2>1. op[s].kind # "approve" /\ \A n \in outbox[s] : n.kind # "APPROVED"
    BY <1>10 DEF WriteResource, LockInv, LockOf, Deciding
  <2>2. Apart(s) /\ pc'[s] = "commit" /\ UNCHANGED <<op, outbox>>
    BY <1>1, <1>10 DEF WriteResource, TypeOK, Apart
  <2>. QED
    BY <2>1, <2>2, NoApproval
<1>11. CASE Commit(s)
  BY <1>11, ReleaseLock DEF Commit
<1>12. CASE \/ RefuseDuplicate(s) \/ RefuseDecided(s) \/ JobReturns(s)
            \/ DeadlockAbort(s) \/ \E b \in BookingIds : ExclusionViolation(s, b)
  BY <1>12, ReleaseLock DEF RefuseDuplicate, RefuseDecided, JobReturns,
                            DeadlockAbort, ExclusionViolation, Rollback
<1>. QED
  BY <1>2, <1>3, <1>4, <1>5, <1>6, <1>7, <1>8, <1>9, <1>10, <1>11, <1>12
     DEF Proceed
(***************************************************************************)
(* NoticeInv.                                                              *)
(***************************************************************************)

\* A step that tells nobody, changes no row, and has nobody decide anew but on
\* a PENDING booking.
LEMMA FrameNotice ==
  ASSUME LockInv, NoticeInv, NEW s \in Sessions, UNCHANGED <<bookings, inbox>>,
         \A u \in Sessions \ {s} : pc'[u] = pc[u] /\ op'[u] = op[u],
         Deciding(s)' =>
           /\ op'[s].booking \in BookingIds
           /\ \/ Deciding(s) /\ op'[s] = op[s]
              \/ bookings[op'[s].booking].status = "PENDING"
  PROVE  NoticeInv'
<1>1. \A b \in BookingIds : Untold(b) => Untold(b)'
  BY DEF Untold
<1>2. ASSUME NEW u \in Sessions, Deciding(u)'
      PROVE  Untold(op[u].booking)'
  <2>1. CASE u = s
    <3>1. Untold(op'[s].booking)
      BY <1>2, <2>1 DEF NoticeInv
    <3>. QED
      BY <1>2, <2>1, <3>1 DEF Untold
  <2>2. CASE u # s
    <3>1. Deciding(u) /\ op'[u] = op[u]
      BY <1>2, <2>2 DEF Deciding
    <3>2. op[u].booking \in BookingIds /\ Untold(op[u].booking)
      BY <3>1 DEF LockInv, LockOf, NoticeInv, Deciding
    <3>. QED
      BY <3>1, <3>2 DEF Untold
  <2>. QED
    BY <2>1, <2>2
<1>3. ASSUME NEW b \in BookingIds,
             bookings'[b] = NoRow \/ bookings'[b].status = "PENDING"
      PROVE  Untold(b)'
  BY <1>1, <1>3 DEF NoticeInv
<1>4. ApprovedAtMostOnce'
  BY DEF NoticeInv, ApprovedAtMostOnce
<1>. QED
  BY <1>2, <1>3, <1>4 DEF NoticeInv

LEMMA CommitNotice ==
  ASSUME TypeInv, RowInv, LockInv, NoticeInv, NEW s \in Sessions, Commit(s)
  PROVE  NoticeInv'
<1>1. TypeOK
  BY DEF TypeInv
<1>2. /\ pc'[s] = "idle"
      /\ \A u \in Sessions \ {s} : pc'[u] = pc[u] /\ op'[u] = op[u]
      /\ \A b \in BookingIds :
           bookings'[b] = IF draft[s][b] = NoRow THEN bookings[b]
                                                 ELSE draft[s][b]
      /\ inbox' = [n \in Notice |-> IF n \in outbox[s] THEN inbox[n] + 1
                                                       ELSE inbox[n]]
  BY <1>1 DEF Commit, Release, TypeOK
<1>3. \A n \in outbox[s] :
        n.kind = "APPROVED" => Deciding(s) /\ n.booking = op[s].booking
  BY DEF LockInv, LockOf
<1>4. ASSUME NEW b \in BookingIds, Untold(b),
             ~(Deciding(s) /\ op[s].booking = b)
      PROVE  Untold(b)'
  BY <1>2, <1>3, <1>4 DEF Untold
<1>5. ASSUME NEW u \in Sessions, Deciding(u)'
      PROVE  Untold(op[u].booking)'
  <2>1. u # s /\ Deciding(u) /\ op'[u] = op[u]
    BY <1>2, <1>5 DEF Deciding
  <2>2. op[u].booking \in BookingIds /\ Untold(op[u].booking)
    BY <2>1 DEF LockInv, LockOf, NoticeInv, Deciding
  <2>3. ~(Deciding(s) /\ op[s].booking = op[u].booking)
    BY <2>1 DEF LockInv, LockOf, Deciding
  <2>4. \A b \in BookingIds :
          Untold(b) /\ ~(Deciding(s) /\ op[s].booking = b) => Untold(b)'
    BY <1>4
  <2>. QED
    BY <2>1, <2>2, <2>3, <2>4 DEF Untold
<1>6. ASSUME NEW b \in BookingIds,
             bookings'[b] = NoRow \/ bookings'[b].status = "PENDING"
      PROVE  Untold(b)'
  <2>1. bookings[b] = NoRow \/ bookings[b].status = "PENDING"
    BY <1>2, <1>6 DEF RowInv
  <2>2. ~(Deciding(s) /\ op[s].booking = b)
    <3>. SUFFICES ASSUME Deciding(s), op[s].booking = b
                  PROVE  FALSE
      OBVIOUS
    <3>1. draft[s][b] # NoRow /\ bookings[b] # NoRow
      BY DEF LockInv, LockOf, Deciding, Commit
    <3>. QED
      BY <1>2, <1>6, <3>1 DEF RowInv
  <2>. QED
    BY <1>4, <2>1, <2>2 DEF NoticeInv
<1>7. ApprovedAtMostOnce'
  <2>. SUFFICES ASSUME NEW n \in Notice, n.kind = "APPROVED"
                PROVE  inbox'[n] <= 1
    BY DEF ApprovedAtMostOnce
  <2>1. CASE n \in outbox[s]
    <3>1. inbox[n] = 0
      BY <1>3, <2>1 DEF NoticeInv, Untold
    <3>. QED
      BY <1>2, <2>1, <3>1
  <2>2. CASE n \notin outbox[s]
    BY <1>2, <2>2 DEF NoticeInv, ApprovedAtMostOnce
  <2>. QED
    BY <2>1, <2>2
<1>. QED
  BY <1>5, <1>6, <1>7 DEF NoticeInv

LEMMA SessionNotice ==
  ASSUME TypeInv, RowInv, LockInv, NoticeInv, NEW s \in Sessions,
         Begin(s) \/ Proceed(s) \/ Abort(s)
  PROVE  NoticeInv'
<1>. USE DEF tables, updating
<1>1. TypeOK /\ StepInv
  BY DEF TypeInv
<1>2. ASSUME Rollback(s)
      PROVE  NoticeInv'
  <2>1. /\ UNCHANGED <<bookings, inbox>> /\ pc'[s] = "idle"
        /\ \A u \in Sessions \ {s} : pc'[u] = pc[u] /\ op'[u] = op[u]
    BY <1>1, <1>2 DEF Rollback, Release, TypeOK
  <2>. QED
    BY <2>1, FrameNotice DEF Deciding
<1>3. CASE Begin(s)
  <2>1. ASSUME NEW kind, NEW actor, NEW b, NEW r, NEW x, NEW next,
               Serve(s, Command(kind, actor, b, r, x), next),
               kind # "approve" \/ next = "lock"
        PROVE  op'[s].kind # "approve" \/ pc'[s] = "lock"
    BY <1>1, <2>1 DEF Serve, Command, TypeOK
  <2>2. ~Deciding(s)'
    <3>1. CASE \E b \in BookingIds : LoadForApprove(s, b)
      BY <2>1, <3>1 DEF LoadForApprove, Deciding
    <3>2. CASE \E c \in Users, r \in Resources, x \in Slots, b \in BookingIds :
                 LoadForRequest(s, c, r, x, b)
      BY <2>1, <3>2 DEF LoadForRequest, Deciding
    <3>3. CASE \E b \in BookingIds : LoadForReject(s, b)
      BY <2>1, <3>3 DEF LoadForReject, Deciding
    <3>4. CASE \E b \in BookingIds, u \in Users : LoadForCancel(s, b, u)
      BY <2>1, <3>4 DEF LoadForCancel, Deciding
    <3>5. CASE \E r \in Resources : LoadForDelete(s, r)
      BY <2>1, <3>5 DEF LoadForDelete, Deciding
    <3>6. CASE \E r \in Resources, p \in BOOLEAN : LoadForPublish(s, r, p)
      BY <2>1, <3>6 DEF LoadForPublish, Deciding
    <3>7. CASE ListOverdue(s)
      BY <2>1, <3>7 DEF ListOverdue, Deciding
    <3>. QED
      BY <1>3, <3>1, <3>2, <3>3, <3>4, <3>5, <3>6, <3>7 DEF Begin
  <2>3. UNCHANGED <<bookings, inbox>>
    BY <1>3 DEF Begin, LoadForRequest, LoadForApprove, LoadForReject,
                LoadForCancel, LoadForDelete, LoadForPublish, ListOverdue
  <2>4. \E command, next : Serve(s, command, next)
    BY <1>3 DEF Begin, LoadForRequest, LoadForApprove, LoadForReject,
                LoadForCancel, LoadForDelete, LoadForPublish, ListOverdue
  <2>5. \A u \in Sessions \ {s} : pc'[u] = pc[u] /\ op'[u] = op[u]
    BY <1>1, <2>4 DEF Serve, TypeOK
  <2>. QED
    BY <2>2, <2>3, <2>5, FrameNotice
<1>4. CASE Refetch(s)
  <2>1. /\ UNCHANGED <<bookings, inbox, op>> /\ op[s].booking \in BookingIds
        /\ bookings[op[s].booking].status = "PENDING"
        /\ \A u \in Sessions \ {s} : pc'[u] = pc[u]
    BY <1>1, <1>4 DEF Refetch, TypeOK, StepInv
  <2>. QED
    BY <2>1, FrameNotice
<1>5. ASSUME UNCHANGED <<bookings, inbox, op>>,
             \A u \in Sessions \ {s} : pc'[u] = pc[u],
             Deciding(s)' => Deciding(s)
      PROVE  NoticeInv'
  <2>1. Deciding(s) => op[s].booking \in BookingIds
    BY DEF LockInv, LockOf, Deciding
  <2>. QED
    BY <1>5, <2>1, FrameNotice
<1>6. CASE \/ AddBooking(s) \/ AcquireLock(s) \/ ListPendings(s)
           \/ SelectResource(s) \/ WriteResource(s)
  <2>1. UNCHANGED <<bookings, inbox, op>>
    BY <1>6 DEF AddBooking, AcquireLock, ListPendings, SelectResource,
                WriteResource
  <2>2. \A u \in Sessions \ {s} : pc'[u] = pc[u]
    BY <1>1, <1>6 DEF AddBooking, AcquireLock, ListPendings, SelectResource,
                      WriteResource, TypeOK
  <2>3. Deciding(s)' => Deciding(s)
    BY <1>1, <1>6, <2>1 DEF AddBooking, AcquireLock, ListPendings,
         SelectResource, WriteResource, TypeOK, Deciding, LockInv, LockOf
  <2>. QED
    BY <1>5, <2>1, <2>2, <2>3
<1>7. CASE ListCompetitors(s)
  <2>1. /\ UNCHANGED <<bookings, inbox, op>>
        /\ \A u \in Sessions \ {s} : pc'[u] = pc[u]
        /\ Deciding(s)' => Deciding(s)
    BY <1>1, <1>7 DEF ListCompetitors, TypeOK, Deciding
  <2>. QED
    BY <1>5, <2>1
<1>8. ASSUME NEW b \in BookingIds, SelectRow(s, b) \/ Write(s, b)
      PROVE  NoticeInv'
  <2>1. /\ UNCHANGED <<bookings, inbox, op>> /\ pc[s] = "write"
        /\ \A u \in Sessions \ {s} : pc'[u] = pc[u]
    BY <1>1, <1>8 DEF SelectRow, Write, StepInv, TypeOK
  <2>. QED
    BY <1>5, <2>1 DEF Deciding
<1>9. CASE Commit(s)
  BY <1>9, CommitNotice
<1>10. CASE \/ RefuseDuplicate(s) \/ RefuseDecided(s) \/ JobReturns(s)
            \/ DeadlockAbort(s) \/ \E b \in BookingIds : ExclusionViolation(s, b)
            \/ Abort(s)
  BY <1>2, <1>10 DEF RefuseDuplicate, RefuseDecided, JobReturns, DeadlockAbort,
                     ExclusionViolation, Abort
<1>. QED
  BY <1>3, <1>4, <1>6, <1>7, <1>8, <1>9, <1>10 DEF Proceed

(***************************************************************************)
(* The theorem.                                                            *)
(***************************************************************************)

LEMMA ApprovalInit == Init => ApprovalInv
<1>. SUFFICES ASSUME Init PROVE ApprovalInv
  OBVIOUS
<1>1. RowInv
  BY DEF Init, RowInv, NoOp, Command, NothingHeld
<1>2. LockInv
  BY DEF Init, LockInv, LockOf, NoOp, Command
<1>3. NoticeInv
  BY DEF Init, NoticeInv, Deciding, Untold, ApprovedAtMostOnce
<1>. QED
  BY <1>1, <1>2, <1>3 DEF ApprovalInv

LEMMA ApprovalNext ==
  ASSUME TypeInv, ApprovalInv, [Next]_vars
  PROVE  ApprovalInv'
<1>. USE DEF ApprovalInv
<1>1. ASSUME NEW s \in Sessions, Begin(s) \/ Proceed(s) \/ Abort(s)
      PROVE  ApprovalInv'
  <2>1. RowInv'
    BY <1>1, BeginRow, ProceedRow, RollbackRow DEF Abort
  <2>2. LockInv'
    BY <1>1, BeginLock, ProceedLock, ReleaseLock DEF Abort, Rollback, tables
  <2>3. NoticeInv'
    BY <1>1, SessionNotice
  <2>. QED
    BY <2>1, <2>2, <2>3
<1>2. ASSUME UNCHANGED <<tables, session>>
      PROVE  ApprovalInv'
  <2>. USE <1>2 DEF tables, session, updating
  <2>1. RowInv'
    BY DEF RowInv
  <2>2. LockInv'
    BY DEF LockInv, LockOf, Deciding
  <2>3. NoticeInv'
    BY DEF NoticeInv, Deciding, Untold, ApprovedAtMostOnce
  <2>. QED
    BY <2>1, <2>2, <2>3
<1>. QED
  BY <1>1, <1>2 DEF Next, Tick, SetSubscription, vars

\* A booking is approved at most once: its customer never gets a second notice,
\* whatever the sessions interleave and whether the constraint exists or not.
THEOREM ApprovedOnce == Spec => []ApprovedAtMostOnce
<1>1. Init => TypeInv /\ ApprovalInv
  BY InitTypeInv, ApprovalInit
<1>2. TypeInv /\ ApprovalInv /\ [Next]_vars => TypeInv' /\ ApprovalInv'
  BY NextTypeInv, ApprovalNext
<1>3. ApprovalInv => ApprovedAtMostOnce
  BY DEF ApprovalInv, NoticeInv
<1>. QED
  BY <1>1, <1>2, <1>3, PTL DEF Spec

-----------------------------------------------------------------------------
(***************************************************************************)
(* What the parties of a booking learn, and what their bookings add up to. *)
(***************************************************************************)

(***************************************************************************)
(* The inductive invariant of the outcomes.                                *)
(***************************************************************************)

\* The steps of a handler that has not told anybody and not written anything.
Early == {"idle", "dedup", "lock", "refetch", "competitors", "pendings"}

\* The notices that are in the table, and those that will be once s commits.
Posted == {n \in Notice : inbox[n] > 0}
Known(s) == outbox[s] \cup Posted

\* The notice that the status of a version of booking b calls for is in T.
Announced(T, b, row) ==
  /\ row.status = "APPROVED" => Tell(row.customer, "APPROVED", b) \in T
  /\ row.status = "REJECTED" => Tell(row.customer, "REJECTED", b) \in T
  /\ row.status = "CANCELLED" =>
       \/ Tell(row.customer, "CANCELLED", b) \in T
       \/ Tell(OwnerOf[row.resource], "CANCELLED", b) \in T

AutoRejected(row) ==
  \E i \in 1..Len(row.history) : row.history[i].reason = "auto_rejected"

\* A version of booking c that was rejected in favour of another booking names
\* one among rows that overlaps it and whose approval T announces.
HasWinner(rows, T, c, row) ==
  AutoRejected(row) =>
    \E b \in BookingIds \ {c} :
      /\ rows[b] # NoRow
      /\ rows[b].resource = row.resource
      /\ SharedTime(rows[b].slot, row.slot) # {}
      /\ Tell(rows[b].customer, "APPROVED", b) \in T

\* What an open transaction has told and is about to commit.
Owes(s) ==
  /\ pc[s] \in Early =>
       outbox[s] = {} /\ \A b \in BookingIds : draft[s][b] = NoRow
  /\ \A n \in outbox[s] :
       bookings[n.booking] # NoRow \/ draft[s][n.booking] # NoRow
  /\ \A b \in BookingIds :
       staged[s][b] # NoRow =>
         /\ HasWinner(bookings, Known(s), b, staged[s][b])
         /\ IF pc[s] = "competitors" THEN staged[s][b].status = "APPROVED"
            ELSE Announced(Known(s), b, staged[s][b])
  /\ \A b \in BookingIds :
       draft[s][b] # NoRow =>
         /\ HasWinner(bookings, Known(s), b, draft[s][b])
         /\ Announced(Known(s), b, draft[s][b])
         /\ bookings[b] = NoRow =>
              Tell(OwnerOf[draft[s][b].resource], "REQUESTED", b) \in outbox[s]

\* What the tables say of booking b.
Settled(b) ==
  /\ bookings[b] # NoRow =>
       /\ HasWinner(bookings, Posted, b, bookings[b])
       /\ Announced(Posted, b, bookings[b])
       /\ Tell(OwnerOf[bookings[b].resource], "REQUESTED", b) \in Posted
  /\ bookings[b] = NoRow => \A n \in Posted : n.booking # b

OutcomeInv ==
  (\A s \in Sessions : Owes(s)) /\ (\A b \in BookingIds : Settled(b))

(***************************************************************************)
(* Lemmas about versions of bookings.                                      *)
(***************************************************************************)

\* Slots that overlap have a unit of time in common.
LEMMA OverlappingSlots ==
  ASSUME NEW x \in Slots, NEW y \in Slots, Overlaps(x, y)
  PROVE  SharedTime(x, y) # {}
<1>1. /\ x.start \in Nat /\ x.end \in Nat /\ x.start < x.end
      /\ y.start \in Nat /\ y.end \in Nat /\ y.start < y.end
  BY SlotAssumption
<1>2. CASE x.start <= y.start
  <2>1. y.start \in SharedTime(x, y)
    BY <1>1, <1>2 DEF Overlaps, SharedTime
  <2>. QED
    BY <2>1
<1>3. CASE y.start < x.start
  <2>1. x.start \in SharedTime(x, y)
    BY <1>1, <1>3 DEF Overlaps, SharedTime
  <2>. QED
    BY <2>1
<1>. QED
  BY <1>1, <1>2, <1>3

\* A transition that rejects nobody adds no automatic rejection to the trail.
LEMMA TransitionTrail ==
  ASSUME NEW row \in BookingRow, NEW to, NEW role, NEW reason,
         AutoRejected(Transition(row, to, role, reason)),
         reason # "auto_rejected"
  PROVE  AutoRejected(row)
<1>. DEFINE h == row.history
            e == Change(row.status, to, role, reason)
<1>1. h \in Seq(StatusChange) /\ e.reason = reason
  BY DEF BookingRow, Change
<1>2. Transition(row, to, role, reason).history = Append(h, e)
  BY DEF Transition, Rewritten
<1>. HIDE DEF h, e
<1>3. PICK i \in 1..Len(Append(h, e)) : Append(h, e)[i].reason = "auto_rejected"
  BY <1>2 DEF AutoRejected
<1>4. i \in 1..Len(h) /\ Append(h, e)[i] = h[i]
  BY <1>1, <1>3
<1>. QED
  BY <1>3, <1>4 DEF AutoRejected, h

\* More rows and more notices keep what was announced and who won.
LEMMA MoreKnown ==
  ASSUME NEW rows, NEW more, NEW T, NEW U, T \subseteq U,
         \A b \in BookingIds :
           rows[b] # NoRow => more[b] # NoRow /\ Kin(more[b], rows[b]),
         NEW b \in BookingIds, NEW row
  PROVE  /\ Announced(T, b, row) => Announced(U, b, row)
         /\ HasWinner(rows, T, b, row) => HasWinner(more, U, b, row)
<1>1. Announced(T, b, row) => Announced(U, b, row)
  BY DEF Announced
<1>2. ASSUME HasWinner(rows, T, b, row), AutoRejected(row)
      PROVE  HasWinner(more, U, b, row)
  <2>1. PICK c \in BookingIds \ {b} :
          /\ rows[c] # NoRow
          /\ rows[c].resource = row.resource
          /\ SharedTime(rows[c].slot, row.slot) # {}
          /\ Tell(rows[c].customer, "APPROVED", c) \in T
    BY <1>2 DEF HasWinner
  <2>2. /\ more[c] # NoRow
        /\ more[c].resource = row.resource
        /\ SharedTime(more[c].slot, row.slot) # {}
        /\ Tell(more[c].customer, "APPROVED", c) \in U
    BY <2>1 DEF Kin
  <2>. QED
    BY <2>2 DEF HasWinner
<1>. QED
  BY <1>1, <1>2 DEF HasWinner

\* The entities that a handler moves for a reason of its own owe no winner but
\* those of the rows they were read from.
LEMMA MovedWinner ==
  ASSUME TypeOK, OutcomeInv, NEW s \in Sessions,
         NEW B \in SUBSET BookingIds, \A b \in B : bookings[b] # NoRow,
         NEW to, NEW role, NEW reason, reason # "auto_rejected",
         NEW T, Posted \subseteq T, NEW b \in BookingIds,
         Moved(B, to, role, reason)[b] # NoRow
  PROVE  HasWinner(bookings, T, b, Moved(B, to, role, reason)[b])
<1>. DEFINE row == Transition(bookings[b], to, role, reason)
<1>1. b \in B /\ Moved(B, to, role, reason)[b] = row
  BY DEF Moved
<1>2. bookings[b] \in BookingRow
  BY <1>1 DEF TypeOK
<1>3. HasWinner(bookings, Posted, b, bookings[b])
  BY <1>1 DEF OutcomeInv, Settled
<1>4. HasWinner(bookings, T, b, bookings[b])
  BY <1>3, MoreKnown DEF Kin
<1>5. row.resource = bookings[b].resource /\ row.slot = bookings[b].slot
  BY DEF Transition, Rewritten
<1>6. AutoRejected(row) => AutoRejected(bookings[b])
  BY <1>2, TransitionTrail
<1>. HIDE DEF row
<1>7. HasWinner(bookings, T, b, row)
  BY <1>4, <1>5, <1>6 DEF HasWinner
<1>. QED
  BY <1>1, <1>7

(***************************************************************************)
(* OutcomeInv.                                                             *)
(***************************************************************************)

\* What a step of session s leaves to the others' outcomes.
Beside(s) ==
  /\ \A u \in Sessions \ {s} :
       /\ pc'[u] = pc[u] /\ outbox'[u] = outbox[u]
       /\ staged'[u] = staged[u] /\ draft'[u] = draft[u]
  /\ \A b \in BookingIds :
       bookings[b] # NoRow => bookings'[b] # NoRow /\ Kin(bookings'[b], bookings[b])
  /\ Posted \subseteq Posted'

LEMMA OthersOwe ==
  ASSUME TypeOK, OutcomeInv, NEW s \in Sessions, Beside(s), Owes(s)',
         \A b \in BookingIds : Settled(b)'
  PROVE  OutcomeInv'
<1>1. ASSUME NEW u \in Sessions, u # s
      PROVE  Owes(u)'
  <2>1. /\ pc'[u] = pc[u] /\ outbox'[u] = outbox[u]
        /\ staged'[u] = staged[u] /\ draft'[u] = draft[u]
        /\ \A b \in BookingIds :
             bookings[b] # NoRow =>
               bookings'[b] # NoRow /\ Kin(bookings'[b], bookings[b])
    BY <1>1 DEF Beside
  <2>2. Known(u) \subseteq Known(u)'
    BY <2>1 DEF Beside, Known
  <2>3. Owes(u)
    BY DEF OutcomeInv
  <2>4. \A b \in BookingIds : \A row :
          /\ Announced(Known(u), b, row) => Announced(Known(u)', b, row)
          /\ HasWinner(bookings, Known(u), b, row)
               => HasWinner(bookings', Known(u)', b, row)
    BY <2>1, <2>2, MoreKnown
  <2>5. pc[u] \in Early =>
          outbox[u] = {} /\ \A b \in BookingIds : draft[u][b] = NoRow
    BY <2>3 DEF Owes
  <2>6. \A n \in outbox[u] :
          bookings'[n.booking] # NoRow \/ draft[u][n.booking] # NoRow
    BY <2>1, <2>3 DEF Owes, TypeOK, Notice
  <2>7. \A b \in BookingIds :
          staged[u][b] # NoRow =>
            /\ HasWinner(bookings', Known(u)', b, staged[u][b])
            /\ IF pc[u] = "competitors" THEN staged[u][b].status = "APPROVED"
               ELSE Announced(Known(u)', b, staged[u][b])
    BY <2>3, <2>4 DEF Owes
  <2>8. \A b \in BookingIds :
          draft[u][b] # NoRow =>
            /\ HasWinner(bookings', Known(u)', b, draft[u][b])
            /\ Announced(Known(u)', b, draft[u][b])
            /\ bookings'[b] = NoRow =>
                 Tell(OwnerOf[draft[u][b].resource], "REQUESTED", b) \in outbox[u]
    BY <2>1, <2>3, <2>4 DEF Owes
  <2>. QED
    BY <2>1, <2>5, <2>6, <2>7, <2>8 DEF Owes
<1>. QED
  BY <1>1 DEF OutcomeInv

\* A step that commits nothing.
LEMMA NothingPosted ==
  ASSUME TypeOK, OutcomeInv, NEW s \in Sessions, UNCHANGED <<bookings, inbox>>,
         \A u \in Sessions \ {s} :
           /\ pc'[u] = pc[u] /\ outbox'[u] = outbox[u]
           /\ staged'[u] = staged[u] /\ draft'[u] = draft[u],
         Owes(s)'
  PROVE  OutcomeInv'
<1>1. Posted' = Posted
  BY DEF Posted
<1>2. Beside(s)
  BY <1>1 DEF Beside, Kin
<1>3. \A b \in BookingIds : Settled(b)'
  BY <1>1 DEF OutcomeInv, Settled
<1>. QED
  BY <1>2, <1>3, OthersOwe

\* A transaction that is over owes nothing.
LEMMA ReleaseOwes ==
  ASSUME TypeOK, NEW s \in Sessions, Release(s)
  PROVE  /\ Owes(s)'
         /\ \A u \in Sessions \ {s} :
              /\ pc'[u] = pc[u] /\ outbox'[u] = outbox[u]
              /\ staged'[u] = staged[u] /\ draft'[u] = draft[u]
<1>1. /\ pc'[s] = "idle" /\ outbox'[s] = {}
      /\ \A b \in BookingIds : staged'[s][b] = NoRow /\ draft'[s][b] = NoRow
      /\ \A u \in Sessions \ {s} :
           /\ pc'[u] = pc[u] /\ outbox'[u] = outbox[u]
           /\ staged'[u] = staged[u] /\ draft'[u] = draft[u]
  BY DEF Release, TypeOK, NothingHeld
<1>. QED
  BY <1>1 DEF Owes

\* Commit posts what s has told, and settles what it has written.
LEMMA CommitOutcome ==
  ASSUME TypeInv, RowInv, OutcomeInv, NEW s \in Sessions, Commit(s)
  PROVE  OutcomeInv'
<1>1. TypeOK /\ Owes(s)
  BY DEF TypeInv, OutcomeInv
<1>2. /\ \A b \in BookingIds :
           bookings'[b] = IF draft[s][b] = NoRow THEN bookings[b] ELSE draft[s][b]
      /\ inbox' = [n \in Notice |-> IF n \in outbox[s] THEN inbox[n] + 1
                                                       ELSE inbox[n]]
      /\ Release(s)
  BY DEF Commit
<1>3. Posted' = Known(s)
  BY <1>1, <1>2 DEF Posted, Known, TypeOK
<1>4. \A b \in BookingIds : bookings[b] # NoRow =>
        bookings'[b] # NoRow /\ Kin(bookings'[b], bookings[b])
  BY <1>2 DEF RowInv, Kin
<1>5. Posted \subseteq Posted'
  BY <1>3 DEF Known
<1>6. Beside(s)
  BY <1>1, <1>2, <1>4, <1>5, ReleaseOwes DEF Beside
<1>7. ASSUME NEW b \in BookingIds
      PROVE  Settled(b)'
  <2>1. \A row :
          /\ Announced(Posted, b, row) => Announced(Posted', b, row)
          /\ HasWinner(bookings, Posted, b, row)
               => HasWinner(bookings', Posted', b, row)
          /\ HasWinner(bookings, Known(s), b, row)
               => HasWinner(bookings', Posted', b, row)
    BY <1>3, <1>4, <1>5, MoreKnown
  <2>2. Settled(b)
    BY DEF OutcomeInv
  <2>3. CASE draft[s][b] = NoRow /\ bookings[b] # NoRow
    BY <1>2, <1>5, <2>1, <2>2, <2>3 DEF Settled
  <2>4. CASE draft[s][b] = NoRow /\ bookings[b] = NoRow
    <3>1. \A n \in outbox[s] : n.booking # b
      BY <1>1, <2>4 DEF Owes
    <3>. QED
      BY <1>2, <1>3, <2>2, <2>4, <3>1 DEF Settled, Known
  <2>5. CASE draft[s][b] # NoRow
    <3>1. /\ HasWinner(bookings', Posted', b, bookings'[b])
          /\ Announced(Posted', b, bookings'[b])
      BY <1>1, <1>2, <1>3, <2>1, <2>5 DEF Owes
    <3>2. Tell(OwnerOf[bookings'[b].resource], "REQUESTED", b) \in Posted'
      <4>1. CASE bookings[b] = NoRow
        BY <1>1, <1>2, <1>3, <2>5, <4>1 DEF Owes, Known
      <4>2. CASE bookings[b] # NoRow
        BY <1>4, <1>5, <2>2, <4>2 DEF Settled, Kin
      <4>. QED
        BY <4>1, <4>2
    <3>. QED
      BY <1>2, <2>5, <3>1, <3>2 DEF Settled
  <2>. QED
    BY <2>3, <2>4, <2>5
<1>8. Owes(s)'
  BY <1>1, <1>2, ReleaseOwes
<1>. QED
  BY <1>1, <1>6, <1>7, <1>8, OthersOwe

\* A session that takes up a command and stages bookings for it owes them and
\* their notices.
LEMMA BeginOutcome ==
  ASSUME TypeInv, OutcomeInv, NEW s \in Sessions, Begin(s)
  PROVE  OutcomeInv'
<1>. USE DEF tables, updating
<1>1. TypeOK /\ Owes(s)
  BY DEF TypeInv, OutcomeInv
<1>2. PICK command, next : Serve(s, command, next) /\ next # "competitors"
  <2>1. ASSUME \E command : \/ Serve(s, command, "dedup")
                            \/ Serve(s, command, "lock")
                            \/ Serve(s, command, "write")
                            \/ Serve(s, command, "pendings")
                            \/ Serve(s, command, "resource")
        PROVE  \E command, next : Serve(s, command, next) /\ next # "competitors"
    <3>1. \A next : next \in {"dedup", "lock", "write", "pendings", "resource"}
                      => next # "competitors"
      OBVIOUS
    <3>. QED
      BY <2>1, <3>1
  <2>. QED
    BY <2>1 DEF Begin, LoadForRequest, LoadForApprove, LoadForReject,
                LoadForCancel, LoadForDelete, LoadForPublish, ListOverdue
<1>3. /\ pc[s] = "idle" /\ pc' = [pc EXCEPT ![s] = next]
      /\ \A u \in Sessions \ {s} : pc'[u] = pc[u]
  BY <1>1, <1>2 DEF Serve, TypeOK
<1>4. /\ outbox[s] = {} /\ \A b \in BookingIds : draft[s][b] = NoRow
  BY <1>1, <1>3 DEF Owes, Early
<1>5. UNCHANGED <<bookings, inbox, draft>>
  BY DEF Begin, LoadForRequest, LoadForApprove, LoadForReject, LoadForCancel,
         LoadForDelete, LoadForPublish, ListOverdue
<1>6. ASSUME UNCHANGED <<staged, outbox>>
      PROVE  OutcomeInv'
  <2>1. \A b \in BookingIds : staged[s][b] # NoRow =>
          /\ HasWinner(bookings, Known(s), b, staged[s][b])
          /\ Announced(Known(s), b, staged[s][b])
    BY <1>1, <1>3 DEF Owes
  <2>2. Known(s)' = Known(s)
    BY <1>5, <1>6 DEF Known, Posted
  <2>3. Owes(s)'
    BY <1>1, <1>2, <1>3, <1>4, <1>5, <1>6, <2>1, <2>2 DEF Owes, TypeOK
  <2>. QED
    BY <1>1, <1>3, <1>5, <1>6, <2>3, NothingPosted
<1>7. ASSUME NEW B \in SUBSET BookingIds, \A b \in B : bookings[b] # NoRow,
             NEW to, NEW role, NEW reason, reason # "auto_rejected",
             NEW notes, \A n \in notes : n.booking \in B,
             staged' = [staged EXCEPT ![s] = Moved(B, to, role, reason)],
             outbox' = [outbox EXCEPT ![s] = notes],
             next \notin Early,
             \A T, b : b \in B /\ notes \subseteq T =>
               Announced(T, b, Moved(B, to, role, reason)[b])
      PROVE  OutcomeInv'
  <2>. DEFINE moved == Moved(B, to, role, reason)
  <2>1. /\ pc'[s] = next /\ staged'[s] = moved /\ outbox'[s] = notes
        /\ \A u \in Sessions \ {s} :
             staged'[u] = staged[u] /\ outbox'[u] = outbox[u]
    BY <1>1, <1>3, <1>7 DEF TypeOK
  <2>2. Known(s)' = notes \cup Posted
    BY <1>5, <2>1 DEF Known, Posted
  <2>3. \A b \in BookingIds :
          moved[b] # NoRow => HasWinner(bookings, notes \cup Posted, b, moved[b])
    BY <1>1, <1>7, MovedWinner
  <2>4. \A b \in BookingIds :
          moved[b] # NoRow => Announced(notes \cup Posted, b, moved[b])
    BY <1>7 DEF Moved
  <2>. HIDE DEF moved
  <2>5. Owes(s)'
    BY <1>4, <1>5, <1>7, <2>1, <2>2, <2>3, <2>4 DEF Owes, Early
  <2>. QED
    BY <1>1, <1>3, <1>5, <2>1, <2>5, NothingPosted
<1>8. ASSUME NEW b \in BookingIds, LoadForReject(s, b)
      PROVE  OutcomeInv'
  <2>. DEFINE notes == {Tell(bookings[b].customer, "REJECTED", b)}
              moved == Moved({b}, "REJECTED", "OWNER", "given")
  <2>1. /\ bookings[b] # NoRow /\ pc' = [pc EXCEPT ![s] = "write"]
        /\ staged' = [staged EXCEPT ![s] = moved]
        /\ outbox' = [outbox EXCEPT ![s] = notes]
    BY <1>8 DEF LoadForReject, Serve
  <2>2. \A n \in notes : n.booking \in {b}
    BY DEF Tell
  <2>3. \A T : notes \subseteq T => Announced(T, b, moved[b])
    BY DEF Moved, Transition, Rewritten, Announced
  <2>4. next = "write"
    BY <1>1, <1>3, <2>1 DEF TypeOK
  <2>. HIDE DEF notes
  <2>5. /\ {b} \in SUBSET BookingIds /\ \A c \in {b} : bookings[c] # NoRow
        /\ \A T, c : c \in {b} /\ notes \subseteq T => Announced(T, c, moved[c])
    BY <2>1, <2>3
  <2>. QED
    BY <1>7, <2>1, <2>2, <2>4, <2>5 DEF Early
<1>9. ASSUME NEW b \in BookingIds, NEW u \in Users, LoadForCancel(s, b, u)
      PROVE  OutcomeInv'
  <2>. DEFINE customer == bookings[b].customer
              owner == OwnerOf[bookings[b].resource]
              role == IF u = owner THEN "OWNER" ELSE "CUSTOMER"
              notes == {Tell(IF u = customer THEN owner ELSE customer,
                             "CANCELLED", b)}
              moved == Moved({b}, "CANCELLED", role, "given")
  <2>1. /\ bookings[b] # NoRow /\ pc' = [pc EXCEPT ![s] = "write"]
        /\ staged' = [staged EXCEPT ![s] = moved]
        /\ outbox' = [outbox EXCEPT ![s] = notes]
    BY <1>9 DEF LoadForCancel, Serve
  <2>2. \A n \in notes : n.booking \in {b}
    BY DEF Tell
  <2>3. \A T : notes \subseteq T => Announced(T, b, moved[b])
    BY DEF Moved, Transition, Rewritten, Announced
  <2>4. next = "write"
    BY <1>1, <1>3, <2>1 DEF TypeOK
  <2>. HIDE DEF notes, role
  <2>5. /\ {b} \in SUBSET BookingIds /\ \A c \in {b} : bookings[c] # NoRow
        /\ \A T, c : c \in {b} /\ notes \subseteq T => Announced(T, c, moved[c])
    BY <2>1, <2>3
  <2>. QED
    BY <1>7, <2>1, <2>2, <2>4, <2>5 DEF Early
<1>10. CASE ListOverdue(s)
  <2>. DEFINE found == PendingStartedBefore(clock)
              notes == {Tell(bookings[b].customer, "REJECTED", b) : b \in found}
              moved == Moved(found, "EXPIRED", "CUSTOMER", "slot_passed")
  <2>1. /\ found \in SUBSET BookingIds /\ \A b \in found : bookings[b] # NoRow
        /\ pc' = [pc EXCEPT ![s] = "write"]
        /\ staged' = [staged EXCEPT ![s] = moved]
        /\ outbox' = [outbox EXCEPT ![s] = notes]
    BY <1>10 DEF ListOverdue, Serve, PendingStartedBefore
  <2>2. \A n \in notes : n.booking \in found
    BY DEF Tell
  <2>. HIDE DEF found
  <2>3. \A T, b : b \in found => Announced(T, b, moved[b])
    BY <2>1 DEF Moved, Transition, Rewritten, Announced
  <2>4. next = "write"
    BY <1>1, <1>3, <2>1 DEF TypeOK
  <2>. HIDE DEF notes
  <2>. QED
    BY <1>7, <2>1, <2>2, <2>3, <2>4 DEF Early
<1>11. CASE \/ \E c \in Users, r \in Resources, x \in Slots, b \in BookingIds :
                 LoadForRequest(s, c, r, x, b)
            \/ \E b \in BookingIds : LoadForApprove(s, b)
            \/ \E r \in Resources : LoadForDelete(s, r)
            \/ \E r \in Resources, p \in BOOLEAN : LoadForPublish(s, r, p)
  BY <1>6, <1>11 DEF LoadForRequest, LoadForApprove, LoadForDelete,
                     LoadForPublish
<1>. QED
  BY <1>8, <1>9, <1>10, <1>11 DEF Begin

\* A step of s that leaves its entities, rows and notices as they are.
LEMMA QuietOutcome ==
  ASSUME TypeOK, OutcomeInv, NEW s \in Sessions,
         UNCHANGED <<bookings, inbox, staged, draft, outbox>>,
         \A u \in Sessions \ {s} : pc'[u] = pc[u],
         pc'[s] \in Early => pc[s] \in Early,
         "competitors" \notin {pc[s], pc'[s]}
  PROVE  OutcomeInv'
<1>1. Known(s)' = Known(s) /\ Owes(s)
  BY DEF Known, Posted, OutcomeInv
<1>2. Owes(s)'
  BY <1>1 DEF Owes
<1>. QED
  BY <1>2, NothingPosted

\* The target and the requests that lose to it.
LEMMA CompetitorsOutcome ==
  ASSUME TypeInv, RowInv, OutcomeInv, NEW s \in Sessions, ListCompetitors(s)
  PROVE  OutcomeInv'
<1>1. TypeOK /\ Owes(s)
  BY DEF TypeInv, OutcomeInv
<1>. DEFINE b == op[s].booking
            target == staged[s][b]
            losers == PendingOverlapping(target.resource, target.slot, b)
            moved == Moved(losers, "REJECTED", "OWNER", "auto_rejected")
            entities == [moved EXCEPT ![b] = target]
            notes == {Tell(target.customer, "APPROVED", b)} \cup
                     {Tell(bookings[c].customer, "REJECTED", c) : c \in losers}
<1>2. /\ pc[s] = "competitors" /\ pc' = [pc EXCEPT ![s] = "write"]
      /\ staged' = [staged EXCEPT ![s] = entities]
      /\ outbox' = [outbox EXCEPT ![s] = notes]
      /\ UNCHANGED <<bookings, inbox, draft, op>>
  BY DEF ListCompetitors, tables
<1>3. /\ b \in BookingIds /\ bookings[b] # NoRow /\ target \in BookingRow
      /\ target # NoRow
  BY <1>2, NoRowAssumption DEF TypeInv, StepInv
<1>4. Kin(target, bookings[b])
  BY <1>3 DEF RowInv
<1>5. \A c \in losers :
        /\ c \in BookingIds \ {b} /\ bookings[c] # NoRow
        /\ bookings[c].resource = target.resource
        /\ Overlaps(bookings[c].slot, target.slot)
  BY DEF PendingOverlapping, PendingFor
<1>6. /\ entities[b] = target
      /\ \A c \in BookingIds \ {b} : entities[c] = moved[c]
  BY <1>3 DEF Moved
<1>7. \A c \in BookingIds \ {b} : moved[c] # NoRow =>
        /\ c \in losers
        /\ moved[c].status = "REJECTED" /\ Kin(moved[c], bookings[c])
  BY DEF Moved, Transition, Rewritten, Kin
<1>8. \A c \in losers :
        /\ Tell(bookings[c].customer, "REJECTED", c) \in notes
        /\ Tell(target.customer, "APPROVED", b) \in notes
  OBVIOUS
<1>9. Tell(target.customer, "APPROVED", b) \in notes
  OBVIOUS
<1>10. \A n \in notes : bookings[n.booking] # NoRow
  BY <1>3, <1>5 DEF Tell
<1>11. \A c \in losers : SharedTime(bookings[b].slot, bookings[c].slot) # {}
  <2>. SUFFICES ASSUME NEW c \in losers
                PROVE  SharedTime(bookings[b].slot, bookings[c].slot) # {}
    OBVIOUS
  <2>1. bookings[b].slot \in Slots /\ bookings[c].slot \in Slots
    BY <1>1, <1>3, <1>5 DEF TypeOK, BookingRow
  <2>2. Overlaps(bookings[b].slot, bookings[c].slot)
    BY <1>4, <1>5 DEF Overlaps, Kin
  <2>. QED
    BY <2>1, <2>2, OverlappingSlots
<1>12. target.status = "APPROVED" => Announced(notes \cup Posted, b, target)
  BY <1>9 DEF Announced
<1>14. HasWinner(bookings, Posted, b, target)
  <2>1. outbox[s] = {}
    BY <1>1, <1>2 DEF Owes, Early
  <2>2. Known(s) = Posted
    BY <2>1 DEF Known
  <2>. QED
    BY <1>1, <1>3, <2>2 DEF Owes
<1>15. HasWinner(bookings, notes \cup Posted, b, target)
  BY <1>3, <1>14, MoreKnown DEF Kin
<1>16. ASSUME NEW c \in BookingIds \ {b}, moved[c] # NoRow
       PROVE  /\ HasWinner(bookings, notes \cup Posted, c, moved[c])
              /\ Announced(notes \cup Posted, c, moved[c])
  <2>1. /\ c \in losers /\ moved[c].status = "REJECTED"
        /\ Kin(moved[c], bookings[c])
    BY <1>7, <1>16
  <2>2. Announced(notes \cup Posted, c, moved[c])
    BY <1>8, <2>1 DEF Announced, Kin
  <2>3. /\ b \in BookingIds \ {c} /\ bookings[b] # NoRow
        /\ bookings[b].resource = moved[c].resource
        /\ SharedTime(bookings[b].slot, moved[c].slot) # {}
        /\ Tell(bookings[b].customer, "APPROVED", b) \in notes \cup Posted
    BY <1>3, <1>4, <1>5, <1>9, <1>11, <2>1 DEF Kin
  <2>. QED
    BY <2>2, <2>3 DEF HasWinner
<1>17. /\ pc'[s] = "write" /\ staged'[s] = entities /\ outbox'[s] = notes
       /\ \A u \in Sessions \ {s} :
            /\ pc'[u] = pc[u] /\ outbox'[u] = outbox[u]
            /\ staged'[u] = staged[u] /\ draft'[u] = draft[u]
  BY <1>1, <1>2 DEF TypeOK
<1>18. target.status = "APPROVED"
  BY <1>1, <1>2, <1>3 DEF Owes
<1>19. \A c \in BookingIds : draft[s][c] = NoRow
  BY <1>1, <1>2 DEF Owes, Early
<1>. HIDE DEF b, target, losers, moved, entities, notes
<1>20. Known(s)' = notes \cup Posted
  BY <1>2, <1>17 DEF Known, Posted
<1>21. \A c \in BookingIds : staged'[s][c] # NoRow =>
         /\ HasWinner(bookings', Known(s)', c, staged'[s][c])
         /\ Announced(Known(s)', c, staged'[s][c])
  BY <1>2, <1>6, <1>12, <1>15, <1>16, <1>17, <1>18, <1>20
<1>22. Owes(s)'
  BY <1>2, <1>10, <1>17, <1>19, <1>21 DEF Owes, Early
<1>. QED
  BY <1>1, <1>2, <1>17, <1>22, NothingPosted

\* The row that an UPDATE makes owes no more than the entity it was made of and
\* the row it was made from.
LEMMA WrittenOutcome ==
  ASSUME TypeInv, RowInv, OutcomeInv, NEW s \in Sessions, NEW b \in BookingIds,
         staged[s][b] # NoRow, bookings[b] # NoRow, pc[s] # "competitors"
  PROVE  /\ HasWinner(bookings, Known(s), b, Written(s, b))
         /\ Announced(Known(s), b, Written(s, b))
<1>. DEFINE entity == staged[s][b]
            row == Written(s, b)
<1>1. /\ row.history = entity.history /\ Kin(row, entity)
      /\ row.status \in {entity.status, bookings[b].status}
  BY DEF Written, Rewritten, Kin
<1>2. /\ HasWinner(bookings, Known(s), b, entity)
      /\ Announced(Known(s), b, entity)
      /\ Kin(entity, bookings[b])
  BY DEF OutcomeInv, Owes, RowInv
<1>3. Announced(Known(s), b, bookings[b])
  <2>1. Announced(Posted, b, bookings[b])
    BY DEF OutcomeInv, Settled
  <2>. QED
    BY <2>1 DEF Announced, Known
<1>. HIDE DEF entity, row
<1>4. HasWinner(bookings, Known(s), b, row)
  BY <1>1, <1>2 DEF HasWinner, AutoRejected, Kin
<1>5. Announced(Known(s), b, row)
  BY <1>1, <1>2, <1>3 DEF Announced, Kin
<1>. QED
  BY <1>4, <1>5 DEF row

LEMMA WriteOutcome ==
  ASSUME TypeInv, RowInv, OutcomeInv, NEW s \in Sessions, NEW b \in BookingIds,
         Write(s, b)
  PROVE  OutcomeInv'
<1>1. TypeOK /\ Owes(s)
  BY DEF TypeInv, OutcomeInv
<1>. DEFINE row == Written(s, b)
            next == IF \A c \in BookingIds \ {b} : staged[s][c] = NoRow
                    THEN AfterWrites(op[s].kind) ELSE "write"
<1>2. pc[s] = "write" /\ staged[s][b] # NoRow /\ bookings[b] # NoRow
  BY DEF Write, TypeInv, StepInv, FreshInv
<1>3. /\ draft' = [draft EXCEPT ![s][b] = row]
      /\ staged' = [staged EXCEPT ![s][b] = NoRow]
      /\ pc' = [pc EXCEPT ![s] = next]
      /\ UNCHANGED <<bookings, inbox, outbox>>
  BY DEF Write, tables
<1>4. next \notin Early
  BY DEF AfterWrites, Early
<1>5. HasWinner(bookings, Known(s), b, row) /\ Announced(Known(s), b, row)
  BY <1>2, WrittenOutcome
<1>6. row # NoRow
  BY <1>1, <1>2, WrittenType, NoRowAssumption
<1>. HIDE DEF row, next
<1>7. /\ pc'[s] = next
      /\ \A c \in BookingIds :
           /\ draft'[s][c] = IF c = b THEN row ELSE draft[s][c]
           /\ staged'[s][c] = IF c = b THEN NoRow ELSE staged[s][c]
      /\ \A u \in Sessions \ {s} :
           /\ pc'[u] = pc[u] /\ outbox'[u] = outbox[u]
           /\ staged'[u] = staged[u] /\ draft'[u] = draft[u]
  BY <1>1, <1>3 DEF TypeOK
<1>8. Known(s)' = Known(s)
  BY <1>3 DEF Known, Posted
<1>9. \A n \in outbox'[s] :
        bookings'[n.booking] # NoRow \/ draft'[s][n.booking] # NoRow
  BY <1>1, <1>2, <1>3, <1>6, <1>7 DEF Owes, TypeOK, Notice
<1>10. \A c \in BookingIds : staged'[s][c] # NoRow =>
         /\ HasWinner(bookings', Known(s)', c, staged'[s][c])
         /\ Announced(Known(s)', c, staged'[s][c])
  BY <1>1, <1>2, <1>3, <1>7, <1>8 DEF Owes
<1>11. \A c \in BookingIds : draft'[s][c] # NoRow =>
         /\ HasWinner(bookings', Known(s)', c, draft'[s][c])
         /\ Announced(Known(s)', c, draft'[s][c])
         /\ bookings'[c] = NoRow =>
              Tell(OwnerOf[draft'[s][c].resource], "REQUESTED", c) \in outbox'[s]
  BY <1>1, <1>2, <1>3, <1>5, <1>7, <1>8 DEF Owes
<1>12. Owes(s)'
  BY <1>4, <1>7, <1>9, <1>10, <1>11 DEF Owes, Early
<1>. QED
  BY <1>1, <1>3, <1>7, <1>12, NothingPosted

LEMMA ProceedOutcome ==
  ASSUME TypeInv, RowInv, OutcomeInv, NEW s \in Sessions, Proceed(s)
  PROVE  OutcomeInv'
<1>. USE DEF tables, updating
<1>1. TypeOK /\ Owes(s)
  BY DEF TypeInv, OutcomeInv
<1>2. CASE AddBooking(s)
  <2>. DEFINE b == op[s].booking
              row == PendingRow(op[s].resource, op[s].actor, op[s].slot)
              note == Tell(OwnerOf[op[s].resource], "REQUESTED", b)
  <2>1. /\ pc[s] = "dedup" /\ pc' = [pc EXCEPT ![s] = "commit"]
        /\ draft' = [draft EXCEPT ![s][b] = row]
        /\ outbox' = [outbox EXCEPT ![s] = {note}]
        /\ UNCHANGED <<bookings, inbox, staged>>
    BY <1>2 DEF AddBooking
  <2>2. /\ b \in BookingIds /\ \A c \in BookingIds : draft[s][c] = NoRow
        /\ outbox[s] = {}
    BY <1>1, <2>1 DEF TypeInv, StepInv, Owes, Early
  <2>3. row \in BookingRow
    BY <2>1 DEF TypeInv, StepInv, PendingRow, BookingRow, Statuses
  <2>4. /\ row.status = "PENDING" /\ row.resource = op[s].resource
        /\ ~AutoRejected(row) /\ row # NoRow
    BY <2>3, NoRowAssumption DEF PendingRow, AutoRejected
  <2>. HIDE DEF row
  <2>5. /\ pc'[s] = "commit" /\ outbox'[s] = {note}
        /\ draft'[s][b] = row
        /\ \A c \in BookingIds \ {b} : draft'[s][c] = NoRow
        /\ \A u \in Sessions \ {s} :
             /\ pc'[u] = pc[u] /\ outbox'[u] = outbox[u]
             /\ staged'[u] = staged[u] /\ draft'[u] = draft[u]
    BY <1>1, <2>1, <2>2 DEF TypeOK
  <2>6. note.booking = b
    BY DEF Tell
  <2>7. \A T : HasWinner(bookings', T, b, row) /\ Announced(T, b, row)
    BY <2>4 DEF HasWinner, Announced
  <2>8. \A c \in BookingIds : staged'[s][c] # NoRow =>
          /\ HasWinner(bookings', Known(s)', c, staged'[s][c])
          /\ Announced(Known(s)', c, staged'[s][c])
    <3>1. Known(s) \subseteq Known(s)'
      BY <2>1, <2>2 DEF Known, Posted
    <3>2. \A c \in BookingIds : \A entity :
            /\ Announced(Known(s), c, entity) => Announced(Known(s)', c, entity)
            /\ HasWinner(bookings, Known(s), c, entity)
                 => HasWinner(bookings, Known(s)', c, entity)
      BY <3>1, MoreKnown DEF Kin
    <3>. QED
      BY <1>1, <2>1, <3>2 DEF Owes
  <2>9. Owes(s)'
    BY <2>1, <2>2, <2>4, <2>5, <2>6, <2>7, <2>8 DEF Owes, Early
  <2>. QED
    BY <1>1, <2>1, <2>5, <2>9, NothingPosted
<1>3. CASE Refetch(s)
  <2>. DEFINE moved == Moved({op[s].booking}, "APPROVED", "OWNER", "given")
  <2>1. /\ pc[s] = "refetch" /\ pc' = [pc EXCEPT ![s] = "competitors"]
        /\ staged' = [staged EXCEPT ![s] = moved]
        /\ UNCHANGED <<bookings, inbox, draft, outbox>>
    BY <1>3 DEF Refetch
  <2>2. /\ op[s].booking \in BookingIds /\ bookings[op[s].booking] # NoRow
        /\ outbox[s] = {} /\ \A c \in BookingIds : draft[s][c] = NoRow
    BY <1>1, <2>1 DEF TypeInv, StepInv, Owes, Early
  <2>3. Posted \subseteq Known(s)' /\ Known(s)' = Known(s)
    BY <2>1 DEF Known, Posted
  <2>4. \A c \in BookingIds : moved[c] # NoRow =>
          HasWinner(bookings, Known(s), c, moved[c])
    BY <1>1, <2>2, <2>3, MovedWinner
  <2>5. \A c \in BookingIds : moved[c] # NoRow => moved[c].status = "APPROVED"
    BY DEF Moved, Transition, Rewritten
  <2>. HIDE DEF moved
  <2>6. /\ pc'[s] = "competitors" /\ staged'[s] = moved
        /\ \A u \in Sessions \ {s} :
             /\ pc'[u] = pc[u] /\ outbox'[u] = outbox[u]
             /\ staged'[u] = staged[u] /\ draft'[u] = draft[u]
    BY <1>1, <2>1 DEF TypeOK
  <2>7. Owes(s)'
    BY <2>1, <2>2, <2>3, <2>4, <2>5, <2>6 DEF Owes
  <2>. QED
    BY <1>1, <2>1, <2>6, <2>7, NothingPosted
<1>4. CASE ListCompetitors(s)
  BY <1>4, CompetitorsOutcome
<1>5. CASE ListPendings(s)
  <2>. DEFINE found == PendingFor(op[s].resource)
              notes == {Tell(bookings[b].customer, "CANCELLED", b) : b \in found}
              moved == Moved(found, "CANCELLED", "OWNER", "resource_deleted")
              next == IF found = {} THEN "resource" ELSE "write"
  <2>1. /\ pc[s] = "pendings" /\ pc' = [pc EXCEPT ![s] = next]
        /\ staged' = [staged EXCEPT ![s] = moved]
        /\ outbox' = [outbox EXCEPT ![s] = notes]
        /\ UNCHANGED <<bookings, inbox, draft>>
    BY <1>5 DEF ListPendings
  <2>2. \A c \in BookingIds : draft[s][c] = NoRow
    BY <1>1, <2>1 DEF Owes, Early
  <2>3. found \in SUBSET BookingIds /\ \A c \in found : bookings[c] # NoRow
    BY DEF PendingFor
  <2>4. \A c \in found : Tell(bookings[c].customer, "CANCELLED", c) \in notes
    OBVIOUS
  <2>5. \A n \in notes : n.booking \in found
    BY DEF Tell
  <2>. HIDE DEF found, notes
  <2>6. \A c \in BookingIds : moved[c] # NoRow =>
          HasWinner(bookings, notes \cup Posted, c, moved[c])
    BY <1>1, <2>3, MovedWinner
  <2>7. \A c \in BookingIds : moved[c] # NoRow =>
          Announced(notes \cup Posted, c, moved[c])
    BY <2>4 DEF Moved, Transition, Rewritten, Announced
  <2>8. next \in {"resource", "write"}
    OBVIOUS
  <2>. HIDE DEF moved, next
  <2>9. /\ pc'[s] = next /\ staged'[s] = moved /\ outbox'[s] = notes
        /\ \A u \in Sessions \ {s} :
             /\ pc'[u] = pc[u] /\ outbox'[u] = outbox[u]
             /\ staged'[u] = staged[u] /\ draft'[u] = draft[u]
    BY <1>1, <2>1 DEF TypeOK
  <2>10. Known(s)' = notes \cup Posted
    BY <2>1, <2>9 DEF Known, Posted
  <2>11. Owes(s)'
    BY <2>1, <2>2, <2>3, <2>5, <2>6, <2>7, <2>8, <2>9, <2>10 DEF Owes, Early
  <2>. QED
    BY <1>1, <2>1, <2>9, <2>11, NothingPosted
<1>6. ASSUME NEW b \in BookingIds, SelectRow(s, b)
      PROVE  OutcomeInv'
  <2>1. /\ pc[s] = "write" /\ UNCHANGED <<bookings, inbox, staged, draft, outbox, pc>>
    BY <1>6 DEF SelectRow
  <2>. QED
    BY <1>1, <2>1, QuietOutcome
<1>7. CASE AcquireLock(s) \/ SelectResource(s) \/ WriteResource(s)
  <2>1. /\ UNCHANGED <<bookings, inbox, staged, draft, outbox>>
        /\ \A u \in Sessions \ {s} : pc'[u] = pc[u]
        /\ pc'[s] \in Early => pc[s] \in Early
        /\ "competitors" \notin {pc[s], pc'[s]}
    BY <1>1, <1>7 DEF AcquireLock, SelectResource, WriteResource, TypeOK, Early
  <2>. QED
    BY <1>1, <2>1, QuietOutcome
<1>8. ASSUME NEW b \in BookingIds, Write(s, b)
      PROVE  OutcomeInv'
  BY <1>8, WriteOutcome
<1>9. CASE Commit(s)
  BY <1>9, CommitOutcome
<1>10. CASE \/ RefuseDuplicate(s) \/ RefuseDecided(s) \/ JobReturns(s)
            \/ DeadlockAbort(s) \/ \E b \in BookingIds : ExclusionViolation(s, b)
  <2>1. Release(s) /\ UNCHANGED <<bookings, inbox>>
    BY <1>10 DEF RefuseDuplicate, RefuseDecided, JobReturns, DeadlockAbort,
                 ExclusionViolation, Rollback
  <2>. QED
    BY <1>1, <2>1, ReleaseOwes, NothingPosted
<1>. QED
  BY <1>2, <1>3, <1>4, <1>5, <1>6, <1>7, <1>8, <1>9, <1>10 DEF Proceed

LEMMA OutcomeNext ==
  ASSUME TypeInv, ApprovalInv, OutcomeInv, [Next]_vars
  PROVE  OutcomeInv'
<1>1. RowInv
  BY DEF ApprovalInv
<1>2. ASSUME NEW s \in Sessions, Begin(s) \/ Proceed(s)
      PROVE  OutcomeInv'
  BY <1>1, <1>2, BeginOutcome, ProceedOutcome
<1>3. ASSUME NEW s \in Sessions, Abort(s)
      PROVE  OutcomeInv'
  BY <1>3, ReleaseOwes, NothingPosted DEF Abort, Rollback, tables, TypeInv
<1>4. ASSUME UNCHANGED <<tables, session>>
      PROVE  OutcomeInv'
  <2>. USE <1>4 DEF tables, session
  <2>1. Posted' = Posted /\ \A s \in Sessions : Known(s)' = Known(s)
    BY DEF Posted, Known
  <2>2. \A s \in Sessions : Owes(s)'
    BY <2>1 DEF OutcomeInv, Owes
  <2>3. \A b \in BookingIds : Settled(b)'
    BY <2>1 DEF OutcomeInv, Settled
  <2>. QED
    BY <2>2, <2>3 DEF OutcomeInv
<1>. QED
  BY <1>2, <1>3, <1>4 DEF Next, Tick, SetSubscription, vars

LEMMA OutcomeInvariant == Spec => [](TypeInv /\ ApprovalInv /\ OutcomeInv)
<1>1. Init => TypeInv /\ ApprovalInv
  BY InitTypeInv, ApprovalInit
<1>2. Init => OutcomeInv
  BY DEF Init, OutcomeInv, Owes, Settled, Posted, NothingHeld
<1>3. TypeInv /\ ApprovalInv /\ OutcomeInv /\ [Next]_vars
        => TypeInv' /\ ApprovalInv' /\ OutcomeInv'
  BY NextTypeInv, ApprovalNext, OutcomeNext
<1>. QED
  BY <1>1, <1>2, <1>3, PTL DEF Spec

(***************************************************************************)
(* The lines of the audit trail.  Each line of a version of a booking has  *)
(* been told to the party that did not make the change, or is told by the  *)
(* transaction that is to commit it.  The job tells nobody of EXPIRED, and *)
(* commits none.                                                           *)
(***************************************************************************)

\* The notice that line e of the trail of booking b calls for.
NoticeOf(b, row, e) ==
  Tell(IF e.role = "CUSTOMER" THEN OwnerOf[row.resource] ELSE row.customer,
       e.to, b)

Outcomes == {"APPROVED", "REJECTED", "CANCELLED"}

\* T tells of every line of a version of booking b.
ToldOf(T, b, row) ==
  /\ row.status # "EXPIRED"
  /\ \A i \in 1..Len(row.history) :
       /\ row.history[i].to \in Outcomes
       /\ NoticeOf(b, row, row.history[i]) \in T

\* What s is about to tell of its versions: of an approval before it has
\* listed the competitors, too.
LinesOf(s) ==
  /\ op[s].kind = "expire" => pc[s] \in {"write", "return"}
  /\ op[s].kind # "expire" =>
       \A b \in BookingIds :
         /\ staged[s][b] # NoRow =>
              ToldOf(IF pc[s] = "competitors"
                     THEN Known(s) \cup {Tell(staged[s][b].customer, "APPROVED", b)}
                     ELSE Known(s), b, staged[s][b])
         /\ draft[s][b] # NoRow => ToldOf(Known(s), b, draft[s][b])

RowsTold ==
  \A b \in BookingIds : bookings[b] # NoRow => ToldOf(Posted, b, bookings[b])

LinesInv == (\A s \in Sessions : LinesOf(s)) /\ RowsTold

\* A transition adds one line.
LEMMA TransitionTold ==
  ASSUME NEW b \in BookingIds, NEW row \in BookingRow, NEW T, NEW U,
         ToldOf(T, b, row), NEW to \in Outcomes, NEW role, NEW reason,
         T \cup {Tell(IF role = "CUSTOMER" THEN OwnerOf[row.resource]
                      ELSE row.customer, to, b)} \subseteq U
  PROVE  ToldOf(U, b, Transition(row, to, role, reason))
<1>. DEFINE h == row.history
            e == Change(row.status, to, role, reason)
            new == Transition(row, to, role, reason)
<1>1. /\ new.history = Append(h, e) /\ new.status = to
      /\ new.resource = row.resource /\ new.customer = row.customer
  BY DEF Transition, Rewritten
<1>2. h \in Seq(StatusChange) /\ e.to = to /\ e.role = role
  BY DEF BookingRow, Change
<1>3. \A x : NoticeOf(b, new, x) = NoticeOf(b, row, x)
  BY <1>1 DEF NoticeOf
<1>4. NoticeOf(b, row, e) \in U
  BY <1>2 DEF NoticeOf
<1>5. \A i \in 1..Len(h) : h[i].to \in Outcomes /\ NoticeOf(b, row, h[i]) \in U
  BY DEF ToldOf
<1>6. to # "EXPIRED"
  BY DEF Outcomes
<1>. HIDE DEF h, e, new
<1>7. \A i \in 1..Len(Append(h, e)) :
        \/ Append(h, e)[i] = e
        \/ i \in 1..Len(h) /\ Append(h, e)[i] = h[i]
  BY <1>2
<1>8. \A i \in 1..Len(Append(h, e)) :
        /\ Append(h, e)[i].to \in Outcomes
        /\ NoticeOf(b, row, Append(h, e)[i]) \in U
  BY <1>2, <1>4, <1>5, <1>7
<1>. QED
  BY <1>1, <1>3, <1>6, <1>8 DEF ToldOf, new

\* So do the entities that a handler moves.
LEMMA MovedTold ==
  ASSUME TypeOK, LinesInv, NEW B \in SUBSET BookingIds,
         \A b \in B : bookings[b] # NoRow,
         NEW to \in Outcomes, NEW role, NEW reason, NEW U, Posted \subseteq U,
         NEW b \in BookingIds, Moved(B, to, role, reason)[b] # NoRow,
         Tell(IF role = "CUSTOMER" THEN OwnerOf[bookings[b].resource]
              ELSE bookings[b].customer, to, b) \in U
  PROVE  ToldOf(U, b, Moved(B, to, role, reason)[b])
<1>1. b \in B /\ Moved(B, to, role, reason)[b]
                   = Transition(bookings[b], to, role, reason)
  BY DEF Moved
<1>2. bookings[b] \in BookingRow /\ ToldOf(Posted, b, bookings[b])
  BY <1>1 DEF TypeOK, LinesInv, RowsTold
<1>3. Posted \cup {Tell(IF role = "CUSTOMER" THEN OwnerOf[bookings[b].resource]
                        ELSE bookings[b].customer, to, b)} \subseteq U
  OBVIOUS
<1>. QED
  BY <1>1, <1>2, <1>3, TransitionTold

\* A session that others' steps leave alone still tells of its versions.
LEMMA OthersLines ==
  ASSUME LinesInv, NEW s \in Sessions, Posted \subseteq Posted',
         \A u \in Sessions \ {s} :
           /\ pc'[u] = pc[u] /\ op'[u] = op[u] /\ outbox'[u] = outbox[u]
           /\ staged'[u] = staged[u] /\ draft'[u] = draft[u],
         LinesOf(s)', RowsTold'
  PROVE  LinesInv'
<1>1. ASSUME NEW u \in Sessions, u # s
      PROVE  LinesOf(u)'
  <2>1. /\ pc'[u] = pc[u] /\ op'[u] = op[u] /\ outbox'[u] = outbox[u]
        /\ staged'[u] = staged[u] /\ draft'[u] = draft[u]
        /\ Known(u) \subseteq Known(u)'
    BY <1>1 DEF Known
  <2>2. \A X, b, row : ToldOf(Known(u) \cup X, b, row)
                         => ToldOf(Known(u)' \cup X, b, row)
    BY <2>1 DEF ToldOf
  <2>3. \A b, row : ToldOf(Known(u), b, row) => ToldOf(Known(u)', b, row)
    BY <2>1 DEF ToldOf
  <2>4. LinesOf(u)
    BY DEF LinesInv
  <2>. QED
    BY <2>1, <2>2, <2>3, <2>4 DEF LinesOf
<1>. QED
  BY <1>1 DEF LinesInv

\* A step that commits nothing.
LEMMA SameRowsTold ==
  ASSUME LinesInv, NEW s \in Sessions, UNCHANGED <<bookings, inbox>>,
         \A u \in Sessions \ {s} :
           /\ pc'[u] = pc[u] /\ op'[u] = op[u] /\ outbox'[u] = outbox[u]
           /\ staged'[u] = staged[u] /\ draft'[u] = draft[u],
         LinesOf(s)'
  PROVE  LinesInv'
<1>1. Posted' = Posted
  BY DEF Posted
<1>2. RowsTold'
  BY <1>1 DEF LinesInv, RowsTold
<1>. QED
  BY <1>1, <1>2, OthersLines

LEMMA ReleaseLines ==
  ASSUME TypeOK, NEW s \in Sessions, Release(s)
  PROVE  /\ LinesOf(s)'
         /\ \A u \in Sessions \ {s} :
              /\ pc'[u] = pc[u] /\ op'[u] = op[u] /\ outbox'[u] = outbox[u]
              /\ staged'[u] = staged[u] /\ draft'[u] = draft[u]
<1>1. /\ pc'[s] = "idle" /\ op'[s].kind = "request"
      /\ \A b \in BookingIds : staged'[s][b] = NoRow /\ draft'[s][b] = NoRow
      /\ \A u \in Sessions \ {s} :
           /\ pc'[u] = pc[u] /\ op'[u] = op[u] /\ outbox'[u] = outbox[u]
           /\ staged'[u] = staged[u] /\ draft'[u] = draft[u]
  BY DEF Release, TypeOK, NothingHeld, NoOp, Command
<1>. QED
  BY <1>1 DEF LinesOf

LEMMA CommitLines ==
  ASSUME TypeOK, LinesInv, NEW s \in Sessions, Commit(s)
  PROVE  LinesInv'
<1>1. /\ pc[s] = "commit"
      /\ \A b \in BookingIds :
           bookings'[b] = IF draft[s][b] = NoRow THEN bookings[b] ELSE draft[s][b]
      /\ inbox' = [n \in Notice |-> IF n \in outbox[s] THEN inbox[n] + 1
                                                       ELSE inbox[n]]
      /\ Release(s)
  BY DEF Commit
<1>2. Posted' = Known(s)
  BY <1>1 DEF Posted, Known, TypeOK
<1>3. Posted \subseteq Posted'
  BY <1>2 DEF Known
<1>4. \A b \in BookingIds : draft[s][b] # NoRow => ToldOf(Posted', b, draft[s][b])
  BY <1>1, <1>2 DEF LinesInv, LinesOf
<1>5. \A b \in BookingIds : bookings[b] # NoRow => ToldOf(Posted', b, bookings[b])
  BY <1>3 DEF LinesInv, RowsTold, ToldOf
<1>6. RowsTold'
  BY <1>1, <1>4, <1>5 DEF RowsTold
<1>. QED
  BY <1>1, <1>3, <1>6, ReleaseLines, OthersLines

\* A session that takes up a command tells of the bookings it moves for it.
LEMMA BeginLines ==
  ASSUME TypeInv, LinesInv, NEW s \in Sessions, Begin(s)
  PROVE  LinesInv'
<1>. USE DEF tables, updating
<1>1. TypeOK /\ LinesOf(s)
  BY DEF TypeInv, LinesInv
<1>2. /\ UNCHANGED <<bookings, inbox, draft>>
      /\ pc[s] = "idle" /\ \A b \in BookingIds : draft[s][b] = NoRow
  BY DEF Begin, LoadForRequest, LoadForApprove, LoadForReject, LoadForCancel,
         LoadForDelete, LoadForPublish, ListOverdue, Serve, TypeInv, StepInv
<1>3. \A u \in Sessions \ {s} :
        /\ pc'[u] = pc[u] /\ op'[u] = op[u] /\ outbox'[u] = outbox[u]
        /\ staged'[u] = staged[u] /\ draft'[u] = draft[u]
  <2>1. \E command, next : Serve(s, command, next)
    BY DEF Begin, LoadForRequest, LoadForApprove, LoadForReject, LoadForCancel,
           LoadForDelete, LoadForPublish, ListOverdue
  <2>2. \A u \in Sessions \ {s} : pc'[u] = pc[u] /\ op'[u] = op[u]
    BY <1>1, <2>1 DEF Serve, TypeOK
  <2>3. staged' = staged \/ \E x : staged' = [staged EXCEPT ![s] = x]
    BY DEF Begin, LoadForRequest, LoadForApprove, LoadForReject, LoadForCancel,
           LoadForDelete, LoadForPublish, ListOverdue
  <2>4. outbox' = outbox \/ \E x : outbox' = [outbox EXCEPT ![s] = x]
    BY DEF Begin, LoadForRequest, LoadForApprove, LoadForReject, LoadForCancel,
           LoadForDelete, LoadForPublish, ListOverdue
  <2>. QED
    BY <1>1, <1>2, <2>2, <2>3, <2>4 DEF TypeOK
<1>4. Posted' = Posted
  BY <1>2 DEF Posted
<1>5. ASSUME NEW B \in SUBSET BookingIds, \A b \in B : bookings[b] # NoRow,
             NEW to \in Outcomes, NEW role, NEW reason, NEW notes,
             staged' = [staged EXCEPT ![s] = Moved(B, to, role, reason)],
             outbox' = [outbox EXCEPT ![s] = notes],
             pc'[s] = "write", op'[s].kind # "expire",
             \A b \in B : Tell(IF role = "CUSTOMER"
                               THEN OwnerOf[bookings[b].resource]
                               ELSE bookings[b].customer, to, b) \in notes
      PROVE  LinesInv'
  <2>. DEFINE moved == Moved(B, to, role, reason)
  <2>1. staged'[s] = moved /\ outbox'[s] = notes
    BY <1>1, <1>5 DEF TypeOK
  <2>2. Known(s)' = notes \cup Posted
    BY <1>4, <2>1 DEF Known
  <2>3. ASSUME NEW b \in BookingIds, moved[b] # NoRow
        PROVE  ToldOf(notes \cup Posted, b, moved[b])
    <3>. DEFINE known == notes \cup Posted
    <3>1. b \in B
      BY <2>3 DEF Moved
    <3>2. /\ Posted \subseteq known
          /\ Tell(IF role = "CUSTOMER" THEN OwnerOf[bookings[b].resource]
                  ELSE bookings[b].customer, to, b) \in known
      BY <1>5, <3>1
    <3>. HIDE DEF known
    <3>3. ToldOf(known, b, moved[b])
      BY <1>1, <1>5, <2>3, <3>2, MovedTold
    <3>. QED
      BY <3>3 DEF known
  <2>. HIDE DEF moved
  <2>4. LinesOf(s)'
    BY <1>2, <1>5, <2>1, <2>2, <2>3 DEF LinesOf
  <2>. QED
    BY <1>2, <1>3, <2>4, SameRowsTold
<1>6. ASSUME NEW b \in BookingIds, LoadForReject(s, b)
      PROVE  LinesInv'
  <2>. DEFINE notes == {Tell(bookings[b].customer, "REJECTED", b)}
  <2>1. /\ bookings[b] # NoRow /\ pc'[s] = "write" /\ op'[s].kind = "reject"
        /\ staged' = [staged EXCEPT ![s] =
                        Moved({b}, "REJECTED", "OWNER", "given")]
        /\ outbox' = [outbox EXCEPT ![s] = notes]
    BY <1>1, <1>6 DEF LoadForReject, Serve, Command, TypeOK
  <2>2. \A c \in {b} : Tell(IF "OWNER" = "CUSTOMER"
                            THEN OwnerOf[bookings[c].resource]
                            ELSE bookings[c].customer, "REJECTED", c) \in notes
    OBVIOUS
  <2>3. {b} \in SUBSET BookingIds /\ \A c \in {b} : bookings[c] # NoRow
    BY <2>1
  <2>. HIDE DEF notes
  <2>4. "REJECTED" \in Outcomes
    BY DEF Outcomes
  <2>. QED
    BY <1>5, <2>1, <2>2, <2>3, <2>4
<1>7. ASSUME NEW b \in BookingIds, NEW u \in Users, LoadForCancel(s, b, u)
      PROVE  LinesInv'
  <2>. DEFINE customer == bookings[b].customer
              owner == OwnerOf[bookings[b].resource]
              role == IF u = owner THEN "OWNER" ELSE "CUSTOMER"
              notes == {Tell(IF u = customer THEN owner ELSE customer,
                             "CANCELLED", b)}
  <2>1. /\ bookings[b] # NoRow /\ pc'[s] = "write" /\ op'[s].kind = "cancel"
        /\ staged' = [staged EXCEPT ![s] =
                        Moved({b}, "CANCELLED", role, "given")]
        /\ outbox' = [outbox EXCEPT ![s] = notes]
        /\ u \in {customer, owner}
    BY <1>1, <1>7 DEF LoadForCancel, Serve, Command, TypeOK
  <2>2. Tell(IF role = "CUSTOMER" THEN owner ELSE customer, "CANCELLED", b)
          \in notes
    <3>1. CASE u = owner
      <4>1. role = "OWNER"
        BY <3>1
      <4>2. (IF u = customer THEN owner ELSE customer) = customer
        BY <3>1
      <4>. QED
        BY <4>1, <4>2
    <3>2. CASE u # owner
      BY <2>1, <3>2
    <3>. QED
      BY <3>1, <3>2
  <2>. HIDE DEF notes, role
  <2>3. \A c \in {b} : Tell(IF role = "CUSTOMER"
                            THEN OwnerOf[bookings[c].resource]
                            ELSE bookings[c].customer, "CANCELLED", c) \in notes
    BY <2>2
  <2>4. /\ {b} \in SUBSET BookingIds /\ \A c \in {b} : bookings[c] # NoRow
        /\ "CANCELLED" \in Outcomes
    BY <2>1 DEF Outcomes
  <2>. QED
    BY <1>5, <2>1, <2>3, <2>4
<1>8. CASE ListOverdue(s)
  <2>1. pc'[s] = "write" /\ op'[s].kind = "expire"
    BY <1>1, <1>8 DEF ListOverdue, Serve, Command, TypeOK
  <2>2. LinesOf(s)'
    BY <2>1 DEF LinesOf
  <2>. QED
    BY <1>2, <1>3, <2>2, SameRowsTold
<1>9. CASE \/ \E c \in Users, r \in Resources, x \in Slots, b \in BookingIds :
                LoadForRequest(s, c, r, x, b)
           \/ \E b \in BookingIds : LoadForApprove(s, b)
           \/ \E r \in Resources : LoadForDelete(s, r)
           \/ \E r \in Resources, p \in BOOLEAN : LoadForPublish(s, r, p)
  <2>1. /\ UNCHANGED <<staged, outbox>> /\ op'[s].kind # "expire"
        /\ pc'[s] # "competitors"
    BY <1>1, <1>9 DEF LoadForRequest, LoadForApprove, LoadForDelete,
                      LoadForPublish, Serve, Command, TypeOK
  <2>2. Known(s)' = Known(s)
    BY <1>4, <2>1 DEF Known
  <2>3. LinesOf(s)'
    BY <1>1, <1>2, <2>1, <2>2 DEF LinesOf
  <2>. QED
    BY <1>2, <1>3, <2>3, SameRowsTold
<1>. QED
  BY <1>6, <1>7, <1>8, <1>9 DEF Begin

LEMMA ProceedLines ==
  ASSUME TypeInv, RowInv, LockInv, OutcomeInv, LinesInv,
         NEW s \in Sessions, Proceed(s)
  PROVE  LinesInv'
<1>. USE DEF tables, updating
<1>1. TypeOK /\ LinesOf(s) /\ Owes(s)
  BY DEF TypeInv, LinesInv, OutcomeInv
<1>2. CASE AddBooking(s)
  <2>. DEFINE b == op[s].booking
              row == PendingRow(op[s].resource, op[s].actor, op[s].slot)
  <2>1. /\ pc[s] = "dedup" /\ pc' = [pc EXCEPT ![s] = "commit"]
        /\ draft' = [draft EXCEPT ![s][b] = row]
        /\ UNCHANGED <<bookings, inbox, staged, op>>
        /\ \A u \in Sessions \ {s} : outbox'[u] = outbox[u]
    BY <1>1, <1>2 DEF AddBooking, TypeOK
  <2>2. \A T : ToldOf(T, b, row)
    BY DEF ToldOf, PendingRow
  <2>3. \A c \in BookingIds : draft[s][c] = NoRow
    BY <1>1, <2>1 DEF Owes, Early
  <2>4. outbox[s] = {}
    BY <1>1, <2>1 DEF Owes, Early
  <2>. HIDE DEF row, b
  <2>5. /\ pc'[s] = "commit"
        /\ \A c \in BookingIds : draft'[s][c] # NoRow => c = b /\ draft'[s][c] = row
        /\ \A u \in Sessions \ {s} : pc'[u] = pc[u] /\ draft'[u] = draft[u]
    BY <1>1, <2>1, <2>3 DEF TypeOK
  <2>6. Known(s) \subseteq Known(s)'
    BY <2>1, <2>4 DEF Known, Posted
  <2>7. \A c, x : ToldOf(Known(s), c, x) => ToldOf(Known(s)', c, x)
    BY <2>6 DEF ToldOf
  <2>8. LinesOf(s)'
    BY <1>1, <2>1, <2>2, <2>5, <2>7 DEF LinesOf
  <2>. QED
    BY <2>1, <2>5, <2>8, SameRowsTold
<1>3. CASE Refetch(s)
  <2>. DEFINE moved == Moved({op[s].booking}, "APPROVED", "OWNER", "given")
  <2>1. /\ pc[s] = "refetch" /\ pc' = [pc EXCEPT ![s] = "competitors"]
        /\ staged' = [staged EXCEPT ![s] = moved]
        /\ UNCHANGED <<bookings, inbox, draft, outbox, op>>
    BY <1>3 DEF Refetch
  <2>2. /\ op[s].booking \in BookingIds /\ bookings[op[s].booking] # NoRow
        /\ \A c \in BookingIds : draft[s][c] = NoRow
    BY <1>1, <2>1 DEF TypeInv, StepInv, Owes, Early
  <2>3. Posted \subseteq Known(s)' /\ Known(s)' = Known(s)
    BY <2>1 DEF Known, Posted
  <2>4. ASSUME NEW c \in BookingIds, moved[c] # NoRow
        PROVE  ToldOf(Known(s) \cup {Tell(moved[c].customer, "APPROVED", c)},
                      c, moved[c])
    <3>. DEFINE T == Known(s) \cup {Tell(moved[c].customer, "APPROVED", c)}
    <3>1. c = op[s].booking /\ moved[c].customer = bookings[c].customer
      BY <2>4 DEF Moved, Transition, Rewritten
    <3>2. Tell(IF "OWNER" = "CUSTOMER" THEN OwnerOf[bookings[c].resource]
               ELSE bookings[c].customer, "APPROVED", c) \in T
      BY <3>1
    <3>3. Posted \subseteq T
      BY <2>3
    <3>4. {op[s].booking} \in SUBSET BookingIds /\ "APPROVED" \in Outcomes
      BY <2>2 DEF Outcomes
    <3>. HIDE DEF T
    <3>5. ToldOf(T, c, moved[c])
      BY <1>1, <2>2, <2>4, <3>2, <3>3, <3>4, MovedTold
    <3>. QED
      BY <3>5 DEF T
  <2>. HIDE DEF moved
  <2>6. /\ pc'[s] = "competitors" /\ staged'[s] = moved
        /\ \A u \in Sessions \ {s} : pc'[u] = pc[u] /\ staged'[u] = staged[u]
    BY <1>1, <2>1 DEF TypeOK
  <2>7. LinesOf(s)'
    BY <1>1, <2>1, <2>2, <2>3, <2>4, <2>6 DEF LinesOf
  <2>. QED
    BY <2>1, <2>6, <2>7, SameRowsTold
<1>4. CASE ListCompetitors(s)
  <2>. DEFINE b == op[s].booking
              target == staged[s][b]
              losers == PendingOverlapping(target.resource, target.slot, b)
              moved == Moved(losers, "REJECTED", "OWNER", "auto_rejected")
              entities == [moved EXCEPT ![b] = target]
              approval == Tell(target.customer, "APPROVED", b)
              notes == {approval} \cup
                       {Tell(bookings[c].customer, "REJECTED", c) : c \in losers}
  <2>1. /\ pc[s] = "competitors" /\ pc' = [pc EXCEPT ![s] = "write"]
        /\ staged' = [staged EXCEPT ![s] = entities]
        /\ outbox' = [outbox EXCEPT ![s] = notes]
        /\ UNCHANGED <<bookings, inbox, draft, op>>
    BY <1>4 DEF ListCompetitors
  <2>2. /\ b \in BookingIds /\ target # NoRow /\ op[s].kind # "expire"
        /\ outbox[s] = {} /\ \A c \in BookingIds : draft[s][c] = NoRow
    BY <1>1, <2>1, NoRowAssumption
       DEF TypeInv, StepInv, Owes, Early, LinesOf
  <2>3. losers \in SUBSET BookingIds /\ \A c \in losers : bookings[c] # NoRow
    BY DEF PendingOverlapping, PendingFor
  <2>4. ToldOf(Known(s) \cup {approval}, b, target)
    BY <1>1, <2>1, <2>2 DEF LinesOf
  <2>5. \A c \in losers : Tell(bookings[c].customer, "REJECTED", c) \in notes
    OBVIOUS
  <2>6. approval \in notes
    OBVIOUS
  <2>7. /\ entities[b] = target
        /\ \A c \in BookingIds \ {b} : entities[c] = moved[c]
    BY <2>2 DEF Moved
  <2>8. \A c \in BookingIds : moved[c] # NoRow => c \in losers
    BY DEF Moved
  <2>. DEFINE T == notes \cup Posted
  <2>9. ToldOf(T, b, target)
    BY <2>2, <2>4, <2>6 DEF ToldOf, Known
  <2>. HIDE DEF b, target, losers, approval, notes
  <2>10. ASSUME NEW c \in BookingIds, moved[c] # NoRow
         PROVE  ToldOf(T, c, moved[c])
    <3>1. Tell(IF "OWNER" = "CUSTOMER" THEN OwnerOf[bookings[c].resource]
               ELSE bookings[c].customer, "REJECTED", c) \in T
      BY <2>5, <2>8, <2>10
    <3>2. Posted \subseteq T /\ "REJECTED" \in Outcomes
      BY DEF Outcomes
    <3>. HIDE DEF T
    <3>. QED
      BY <1>1, <2>3, <2>10, <3>1, <3>2, MovedTold
  <2>. HIDE DEF moved, entities
  <2>11. /\ pc'[s] = "write" /\ staged'[s] = entities /\ outbox'[s] = notes
         /\ \A u \in Sessions \ {s} :
              /\ pc'[u] = pc[u] /\ outbox'[u] = outbox[u]
              /\ staged'[u] = staged[u]
    BY <1>1, <2>1 DEF TypeOK
  <2>12. Known(s)' = T
    BY <2>1, <2>11 DEF Known, Posted
  <2>13. \A c \in BookingIds : entities[c] # NoRow => ToldOf(T, c, entities[c])
    BY <2>7, <2>9, <2>10
  <2>. HIDE DEF T
  <2>14. LinesOf(s)'
    BY <2>1, <2>2, <2>11, <2>12, <2>13 DEF LinesOf
  <2>. QED
    BY <2>1, <2>11, <2>14, SameRowsTold
<1>5. CASE ListPendings(s)
  <2>. DEFINE found == PendingFor(op[s].resource)
              notes == {Tell(bookings[b].customer, "CANCELLED", b) : b \in found}
              moved == Moved(found, "CANCELLED", "OWNER", "resource_deleted")
              next == IF found = {} THEN "resource" ELSE "write"
  <2>1. /\ pc[s] = "pendings" /\ pc' = [pc EXCEPT ![s] = next]
        /\ staged' = [staged EXCEPT ![s] = moved]
        /\ outbox' = [outbox EXCEPT ![s] = notes]
        /\ UNCHANGED <<bookings, inbox, draft, op>>
    BY <1>5 DEF ListPendings
  <2>2. /\ op[s].kind # "expire"
        /\ \A c \in BookingIds : draft[s][c] = NoRow
    BY <1>1, <2>1 DEF Owes, Early, LinesOf
  <2>3. found \in SUBSET BookingIds /\ \A c \in found : bookings[c] # NoRow
    BY DEF PendingFor
  <2>4. \A c \in found : Tell(bookings[c].customer, "CANCELLED", c) \in notes
    OBVIOUS
  <2>5. \A c \in BookingIds : moved[c] # NoRow => c \in found
    BY DEF Moved
  <2>. DEFINE T == notes \cup Posted
  <2>. HIDE DEF found, notes
  <2>6. ASSUME NEW c \in BookingIds, moved[c] # NoRow
        PROVE  ToldOf(T, c, moved[c])
    <3>1. Tell(IF "OWNER" = "CUSTOMER" THEN OwnerOf[bookings[c].resource]
               ELSE bookings[c].customer, "CANCELLED", c) \in T
      BY <2>4, <2>5, <2>6
    <3>2. Posted \subseteq T /\ "CANCELLED" \in Outcomes
      BY DEF Outcomes
    <3>. HIDE DEF T
    <3>. QED
      BY <1>1, <2>3, <2>6, <3>1, <3>2, MovedTold
  <2>7. next \in {"resource", "write"}
    OBVIOUS
  <2>. HIDE DEF moved, next
  <2>8. /\ pc'[s] = next /\ staged'[s] = moved /\ outbox'[s] = notes
        /\ \A u \in Sessions \ {s} :
             /\ pc'[u] = pc[u] /\ outbox'[u] = outbox[u]
             /\ staged'[u] = staged[u]
    BY <1>1, <2>1 DEF TypeOK
  <2>9. Known(s)' = T
    BY <2>1, <2>8 DEF Known, Posted
  <2>. HIDE DEF T
  <2>10. LinesOf(s)'
    BY <2>1, <2>2, <2>6, <2>7, <2>8, <2>9 DEF LinesOf
  <2>. QED
    BY <2>1, <2>8, <2>10, SameRowsTold
<1>6. ASSUME NEW b \in BookingIds, Write(s, b)
      PROVE  LinesInv'
  <2>. DEFINE row == Written(s, b)
              next == IF \A c \in BookingIds \ {b} : staged[s][c] = NoRow
                      THEN AfterWrites(op[s].kind) ELSE "write"
  <2>1. pc[s] = "write" /\ staged[s][b] # NoRow /\ bookings[b] # NoRow
    BY <1>6 DEF Write, TypeInv, StepInv, FreshInv
  <2>2. /\ draft' = [draft EXCEPT ![s][b] = row]
        /\ staged' = [staged EXCEPT ![s][b] = NoRow]
        /\ pc' = [pc EXCEPT ![s] = next]
        /\ UNCHANGED <<bookings, inbox, outbox, op>>
    BY <1>6 DEF Write
  <2>3. next # "competitors" /\ (op[s].kind = "expire" => next \in {"write", "return"})
    BY DEF AfterWrites
  <2>4. op[s].kind # "expire" => ToldOf(Known(s), b, row)
    <3>1. /\ row.history = staged[s][b].history
          /\ row.resource = staged[s][b].resource
          /\ row.customer = staged[s][b].customer
          /\ row.status \in {staged[s][b].status, bookings[b].status}
      BY DEF Written, Rewritten
    <3>2. bookings[b].status # "EXPIRED"
      BY <2>1 DEF LinesInv, RowsTold, ToldOf
    <3>3. op[s].kind # "expire" => ToldOf(Known(s), b, staged[s][b])
      BY <1>1, <2>1 DEF LinesOf
    <3>. HIDE DEF row
    <3>. QED
      BY <3>1, <3>2, <3>3 DEF ToldOf, NoticeOf
  <2>. HIDE DEF row, next
  <2>5. /\ pc'[s] = next
        /\ \A c \in BookingIds :
             /\ draft'[s][c] = IF c = b THEN row ELSE draft[s][c]
             /\ staged'[s][c] = IF c = b THEN NoRow ELSE staged[s][c]
        /\ \A u \in Sessions \ {s} :
             /\ pc'[u] = pc[u] /\ staged'[u] = staged[u] /\ draft'[u] = draft[u]
    BY <1>1, <2>2 DEF TypeOK
  <2>6. Known(s)' = Known(s)
    BY <2>2 DEF Known, Posted
  <2>7. LinesOf(s)'
    BY <1>1, <2>1, <2>2, <2>3, <2>4, <2>5, <2>6 DEF LinesOf
  <2>. QED
    BY <2>2, <2>5, <2>7, SameRowsTold
<1>7. CASE \/ AcquireLock(s) \/ SelectResource(s) \/ WriteResource(s)
           \/ \E b \in BookingIds : SelectRow(s, b)
  <2>1. /\ UNCHANGED <<bookings, inbox, staged, draft, outbox, op>>
        /\ \A u \in Sessions \ {s} : pc'[u] = pc[u]
        /\ "competitors" \notin {pc[s], pc'[s]}
        /\ pc'[s] = pc[s] \/ pc[s] \in {"lock", "resource"}
    BY <1>1, <1>7 DEF AcquireLock, SelectResource, WriteResource, SelectRow,
                      TypeInv, StepInv, TypeOK
  <2>2. Known(s)' = Known(s)
    BY <2>1 DEF Known, Posted
  <2>3. LinesOf(s)'
    BY <1>1, <2>1, <2>2 DEF LinesOf
  <2>. QED
    BY <2>1, <2>3, SameRowsTold
<1>8. CASE Commit(s)
  BY <1>1, <1>8, CommitLines
<1>9. CASE \/ RefuseDuplicate(s) \/ RefuseDecided(s) \/ JobReturns(s)
           \/ DeadlockAbort(s) \/ \E b \in BookingIds : ExclusionViolation(s, b)
  <2>1. Release(s) /\ UNCHANGED <<bookings, inbox>>
    BY <1>9 DEF RefuseDuplicate, RefuseDecided, JobReturns, DeadlockAbort,
                ExclusionViolation, Rollback
  <2>. QED
    BY <1>1, <2>1, ReleaseLines, SameRowsTold
<1>. QED
  BY <1>2, <1>3, <1>4, <1>5, <1>6, <1>7, <1>8, <1>9 DEF Proceed

LEMMA LinesNext ==
  ASSUME TypeInv, ApprovalInv, OutcomeInv, LinesInv, [Next]_vars
  PROVE  LinesInv'
<1>1. ASSUME NEW s \in Sessions, Begin(s) \/ Proceed(s)
      PROVE  LinesInv'
  BY <1>1, BeginLines, ProceedLines DEF ApprovalInv
<1>2. ASSUME NEW s \in Sessions, Abort(s)
      PROVE  LinesInv'
  BY <1>2, ReleaseLines, SameRowsTold DEF Abort, Rollback, tables, TypeInv
<1>3. ASSUME UNCHANGED <<tables, session>>
      PROVE  LinesInv'
  <2>. USE <1>3 DEF tables, session
  <2>1. Posted' = Posted /\ \A s \in Sessions : Known(s)' = Known(s)
    BY DEF Posted, Known
  <2>2. \A s \in Sessions : LinesOf(s)'
    BY <2>1 DEF LinesInv, LinesOf
  <2>3. RowsTold'
    BY <2>1 DEF LinesInv, RowsTold
  <2>. QED
    BY <2>2, <2>3 DEF LinesInv
<1>. QED
  BY <1>1, <1>2, <1>3 DEF Next, Tick, SetSubscription, vars

\* Rows and notices are committed together: the owner was told of every request
\* on file, the party that did not make a change of every change in its trail,
\* the customer of the APPROVED or REJECTED that the row says; no notice is
\* about a booking that was rolled back, and no row is EXPIRED.
THEOREM EveryOutcomeIsTold == Spec => []OutcomeNotified
<1>1. TypeInv /\ OutcomeInv /\ LinesInv => OutcomeNotified
  <2>. SUFFICES ASSUME TypeOK, OutcomeInv, LinesInv, NEW b \in BookingIds
                PROVE
       LET told(user, kind) == inbox[Tell(user, kind, b)] > 0
           customer == bookings[b].customer
           owner == OwnerOf[bookings[b].resource]
           status == bookings[b].status
           history == bookings[b].history
       IN  IF bookings[b] = NoRow
           THEN \A n \in Notice : n.booking = b => inbox[n] = 0
           ELSE /\ told(owner, "REQUESTED")
                /\ status \in {"APPROVED", "REJECTED"} => told(customer, status)
                /\ status = "CANCELLED" =>
                     told(customer, "CANCELLED") \/ told(owner, "CANCELLED")
                /\ status # "EXPIRED"
                /\ \A i \in 1..Len(history) :
                     LET kind == history[i].to
                         byCustomer == history[i].role = "CUSTOMER"
                     IN  /\ kind \in {"APPROVED", "REJECTED", "CANCELLED"}
                         /\ told(IF byCustomer THEN owner ELSE customer, kind)
    BY DEF OutcomeNotified, TypeInv
  <2>1. Settled(b)
    BY DEF OutcomeInv
  <2>2. CASE bookings[b] = NoRow
    BY <2>1, <2>2 DEF Settled, Posted, TypeOK
  <2>3. CASE bookings[b] # NoRow
    <3>1. ToldOf(Posted, b, bookings[b])
      BY <2>3 DEF LinesInv, RowsTold
    <3>2. /\ bookings[b].status # "EXPIRED"
          /\ \A i \in 1..Len(bookings[b].history) :
               LET e == bookings[b].history[i]
               IN  /\ e.to \in {"APPROVED", "REJECTED", "CANCELLED"}
                   /\ inbox[Tell(IF e.role = "CUSTOMER"
                                 THEN OwnerOf[bookings[b].resource]
                                 ELSE bookings[b].customer, e.to, b)] > 0
      BY <3>1 DEF ToldOf, NoticeOf, Posted, Outcomes
    <3>. QED
      BY <2>1, <2>3, <3>2 DEF Settled, Posted, Announced
  <2>. QED
    BY <2>2, <2>3
<1>2. Init => LinesInv
  BY DEF Init, LinesInv, LinesOf, RowsTold, NothingHeld, NoOp, Command
<1>3. TypeInv /\ ApprovalInv /\ OutcomeInv /\ LinesInv /\ [Next]_vars
        => LinesInv'
  BY LinesNext
<1>. QED
  BY <1>1, <1>2, <1>3, OutcomeInvariant, PTL DEF Spec

\* A request is auto-rejected only in favour of another booking of the same
\* resource, on an overlapping slot, that really was approved.
THEOREM LosersHaveAWinner == Spec => []AutoRejectedHasWinner
<1>1. OutcomeInv => AutoRejectedHasWinner
  BY DEF OutcomeInv, Settled, HasWinner, AutoRejected, Posted,
         AutoRejectedHasWinner
<1>. QED
  BY <1>1, OutcomeInvariant, PTL

(***************************************************************************)
(* The calendar.  With the exclusion constraint the booking flow           *)
(* implements Calendar.  A COMMIT is the only step a client of the         *)
(* calendar sees; what it may do to the phases of the bookings it writes   *)
(* depends on what its transaction knows of them.                          *)
(***************************************************************************)

\* A version of a booking that the approval of session s holds.
RuledBy(s, c, row) ==
  /\ row.status = "APPROVED" <=> c = op[s].booking
  /\ bookings[c].resource = op[s].resource
  /\ Untold(c)

\* A new booking is known to its own request only.  An approval approves its
\* target alone, and nobody has been told that a booking it rules on is
\* approved.  Any other transaction that leaves a booking APPROVED found it so.
ClaimsOf(s) ==
  /\ pc[s] \in Early \ {"competitors"} =>
       \A c \in BookingIds : staged[s][c] = NoRow
  /\ pc[s] = "dedup" => op[s].kind = "request"
  /\ op[s].kind = "request" /\ pc[s] # "idle" =>
       /\ pc[s] \in {"dedup", "commit"}
       /\ op[s].booking \in BookingIds /\ bookings[op[s].booking] = NoRow
       /\ \A c \in BookingIds :
            /\ staged[s][c] = NoRow
            /\ draft[s][c] # NoRow =>
                 c = op[s].booking /\ draft[s][c].status = "PENDING"
  /\ op[s].kind # "request" =>
       \A c \in BookingIds : draft[s][c] # NoRow => bookings[c] # NoRow
  /\ \A c \in BookingIds :
       seen[s][c] # NoRow /\ seen[s][c] = "APPROVED" => ~Untold(c)
  /\ op[s].kind \notin {"request", "approve"} =>
       \A c \in BookingIds :
         /\ staged[s][c] # NoRow => staged[s][c].status # "APPROVED"
         /\ draft[s][c] # NoRow /\ draft[s][c].status = "APPROVED" =>
              bookings[c].status = "APPROVED"
  /\ op[s].kind = "approve" =>
       \A c \in BookingIds :
         /\ staged[s][c] # NoRow => RuledBy(s, c, staged[s][c])
         /\ draft[s][c] # NoRow => RuledBy(s, c, draft[s][c])

ClaimsInv == \A s \in Sessions : ClaimsOf(s)

\* A step that commits nothing leaves the claims of the others as they are.
LEMMA OthersClaims ==
  ASSUME ClaimsInv, NEW s \in Sessions, UNCHANGED <<bookings, inbox>>,
         \A u \in Sessions \ {s} :
           /\ pc'[u] = pc[u] /\ op'[u] = op[u] /\ seen'[u] = seen[u]
           /\ staged'[u] = staged[u] /\ draft'[u] = draft[u],
         ClaimsOf(s)'
  PROVE  ClaimsInv'
<1>1. \A c \in BookingIds : Untold(c)' <=> Untold(c)
  BY DEF Untold
<1>2. ASSUME NEW u \in Sessions, u # s
      PROVE  ClaimsOf(u)'
  <2>1. ClaimsOf(u)
    BY DEF ClaimsInv
  <2>2. /\ pc'[u] = pc[u] /\ op'[u] = op[u] /\ seen'[u] = seen[u]
        /\ staged'[u] = staged[u] /\ draft'[u] = draft[u]
    BY <1>2
  <2>3. op[u].kind = "approve" =>
          \A c \in BookingIds :
            /\ staged[u][c] # NoRow => RuledBy(u, c, staged[u][c])'
            /\ draft[u][c] # NoRow => RuledBy(u, c, draft[u][c])'
    BY <1>1, <2>1, <2>2 DEF ClaimsOf, RuledBy
  <2>. QED
    BY <1>1, <2>1, <2>2, <2>3 DEF ClaimsOf
<1>. QED
  BY <1>2 DEF ClaimsInv

\* A session without a transaction claims nothing.
LEMMA ReleaseClaims ==
  ASSUME TypeOK, NEW s \in Sessions, Release(s)
  PROVE  /\ ClaimsOf(s)'
         /\ \A u \in Sessions \ {s} :
              /\ pc'[u] = pc[u] /\ op'[u] = op[u] /\ seen'[u] = seen[u]
              /\ staged'[u] = staged[u] /\ draft'[u] = draft[u]
<1>1. /\ pc'[s] = "idle" /\ op'[s].kind = "request"
      /\ \A b \in BookingIds :
           staged'[s][b] = NoRow /\ draft'[s][b] = NoRow /\ seen'[s][b] = NoRow
      /\ \A u \in Sessions \ {s} :
           /\ pc'[u] = pc[u] /\ op'[u] = op[u] /\ seen'[u] = seen[u]
           /\ staged'[u] = staged[u] /\ draft'[u] = draft[u]
  BY DEF Release, TypeOK, NothingHeld, NoOp, Command
<1>. QED
  BY <1>1 DEF ClaimsOf

\* What COMMIT does to the tables.
LEMMA CommitEffect ==
  ASSUME TypeInv, RowInv, LockInv, NEW s \in Sessions, Commit(s)
  PROVE  /\ \A b \in BookingIds :
              bookings'[b] = IF draft[s][b] = NoRow THEN bookings[b]
                                                    ELSE draft[s][b]
         /\ \A b \in BookingIds : bookings[b] # NoRow =>
              bookings'[b] # NoRow /\ Kin(bookings'[b], bookings[b])
         /\ \A n \in Notice :
              /\ inbox'[n] = IF n \in outbox[s] THEN inbox[n] + 1 ELSE inbox[n]
              /\ inbox[n] \in Nat
         /\ \A n \in outbox[s] :
              n.kind = "APPROVED" => Deciding(s) /\ n.booking = op[s].booking
         /\ \A b \in BookingIds : ~Untold(b) => ~Untold(b)'
         /\ \A b \in BookingIds :
              Untold(b) /\ ~(Deciding(s) /\ b = op[s].booking) => Untold(b)'
<1>1. /\ \A b \in BookingIds :
           bookings'[b] = IF draft[s][b] = NoRow THEN bookings[b] ELSE draft[s][b]
      /\ inbox' = [n \in Notice |-> IF n \in outbox[s] THEN inbox[n] + 1
                                                       ELSE inbox[n]]
  BY DEF Commit
<1>2. \A b \in BookingIds : bookings[b] # NoRow =>
        bookings'[b] # NoRow /\ Kin(bookings'[b], bookings[b])
  BY <1>1 DEF RowInv, Kin
<1>3. \A n \in outbox[s] :
        n.kind = "APPROVED" => Deciding(s) /\ n.booking = op[s].booking
  BY DEF LockInv, LockOf
<1>4. \A n \in Notice :
        /\ inbox'[n] = IF n \in outbox[s] THEN inbox[n] + 1 ELSE inbox[n]
        /\ inbox[n] \in Nat
  BY <1>1 DEF TypeInv, TypeOK
<1>5. \A b \in BookingIds : ~Untold(b) => ~Untold(b)'
  BY <1>4 DEF Untold
<1>6. \A b \in BookingIds :
        Untold(b) /\ ~(Deciding(s) /\ b = op[s].booking) => Untold(b)'
  BY <1>3, <1>4 DEF Untold
<1>. QED
  BY <1>1, <1>2, <1>3, <1>4, <1>5, <1>6

LEMMA CommitClaims ==
  ASSUME TypeInv, SafeInv, RowInv, LockInv, OutcomeInv, ClaimsInv,
         NEW s \in Sessions, Commit(s)
  PROVE  ClaimsInv'
<1>1. TypeOK /\ Release(s)
  BY DEF TypeInv, Commit
<1>2. ASSUME NEW u \in Sessions, u # s
      PROVE  ClaimsOf(u)'
  <2>1. /\ pc'[u] = pc[u] /\ op'[u] = op[u] /\ seen'[u] = seen[u]
        /\ staged'[u] = staged[u] /\ draft'[u] = draft[u]
    BY <1>1, <1>2, ReleaseClaims
  <2>2. ClaimsOf(u) /\ LockOf(u) /\ LockOf(s) /\ Owes(u)
    BY DEF ClaimsInv, LockInv, OutcomeInv
  <2>3. op[u].kind = "request" /\ pc[u] # "idle" => bookings'[op[u].booking] = NoRow
    <3>. SUFFICES ASSUME op[u].kind = "request", pc[u] # "idle"
                  PROVE  bookings'[op[u].booking] = NoRow
      OBVIOUS
    <3>. DEFINE b == op[u].booking
    <3>1. b \in BookingIds /\ bookings[b] = NoRow /\ b # NoRow
      BY <2>2, NoRowAssumption DEF ClaimsOf
    <3>2. op[s].booking # b
      BY <1>2, <3>1 DEF RowInv
    <3>3. draft[s][b] = NoRow
      BY <3>1, <3>2 DEF TypeInv, FreshInv
    <3>. QED
      BY <3>1, <3>3, CommitEffect
  <2>4. \A c \in BookingIds : draft[u][c] # NoRow => bookings'[c] = bookings[c]
    <3>1. \A c \in BookingIds : draft[u][c] # NoRow => draft[s][c] = NoRow
      BY <1>2 DEF SafeInv, DraftsAreSafe
    <3>. QED
      BY <3>1, CommitEffect
  <2>5. \A c \in BookingIds :
          seen[u][c] # NoRow /\ seen[u][c] = "APPROVED" => ~Untold(c)'
    BY <2>2, CommitEffect DEF ClaimsOf
  <2>6. ASSUME NEW c \in BookingIds, op[u].kind = "approve",
               staged[u][c] # NoRow \/ draft[u][c] # NoRow,
               bookings[c].resource = op[u].resource, Untold(c)
        PROVE  bookings'[c].resource = op[u].resource /\ Untold(c)'
    <3>1. bookings[c] # NoRow
      BY <2>2, <2>6 DEF TypeInv, FreshInv, ClaimsOf
    <3>2. pc[u] # "lock" /\ advisory[op[u].resource] = u
      BY <2>2, <2>6 DEF ClaimsOf, LockOf, Owes, Early
    <3>3. ~(Deciding(s) /\ c = op[s].booking)
      BY <1>2, <2>2, <2>6, <3>2 DEF LockOf, Deciding
    <3>. QED
      BY <2>6, <3>1, <3>3, CommitEffect DEF Kin
  <2>7. op[u].kind = "approve" =>
          \A c \in BookingIds :
            /\ staged[u][c] # NoRow => RuledBy(u, c, staged[u][c])'
            /\ draft[u][c] # NoRow => RuledBy(u, c, draft[u][c])'
    BY <2>1, <2>2, <2>6 DEF ClaimsOf, RuledBy
  <2>8. op[u].kind # "request" =>
          \A c \in BookingIds : draft[u][c] # NoRow => bookings'[c] # NoRow
    BY <2>2, CommitEffect DEF ClaimsOf
  <2>. QED
    BY <2>1, <2>2, <2>3, <2>4, <2>5, <2>7, <2>8 DEF ClaimsOf
<1>3. ClaimsOf(s)'
  BY <1>1, ReleaseClaims
<1>. QED
  BY <1>2, <1>3 DEF ClaimsInv

LEMMA BeginClaims ==
  ASSUME TypeInv, ClaimsInv, NEW s \in Sessions, Begin(s)
  PROVE  ClaimsInv'
<1>. USE DEF tables, updating
<1>1. TypeOK /\ StepInv /\ ClaimsOf(s)
  BY DEF TypeInv, ClaimsInv
<1>2. /\ pc[s] = "idle" /\ \E command, next : Serve(s, command, next)
  BY DEF Begin, LoadForRequest, LoadForApprove, LoadForReject, LoadForCancel,
         LoadForDelete, LoadForPublish, ListOverdue, Serve
<1>3. \A b \in BookingIds :
        staged[s][b] = NoRow /\ draft[s][b] = NoRow /\ seen[s][b] = NoRow
  BY <1>1, <1>2 DEF StepInv, ClaimsOf, Early
<1>4. UNCHANGED <<bookings, inbox, draft, seen>>
  BY DEF Begin, LoadForRequest, LoadForApprove, LoadForReject, LoadForCancel,
         LoadForDelete, LoadForPublish, ListOverdue
<1>5. \A u \in Sessions \ {s} :
        pc'[u] = pc[u] /\ op'[u] = op[u] /\ staged'[u] = staged[u]
  <2>1. \A u \in Sessions \ {s} : pc'[u] = pc[u] /\ op'[u] = op[u]
    BY <1>1, <1>2 DEF Serve, TypeOK
  <2>2. \A u \in Sessions \ {s} : staged'[u] = staged[u]
    BY <1>1 DEF Begin, LoadForRequest, LoadForApprove, LoadForReject,
                LoadForCancel, LoadForDelete, LoadForPublish, ListOverdue, TypeOK
  <2>. QED
    BY <2>1, <2>2
<1>6. ASSUME ClaimsOf(s)'
      PROVE  ClaimsInv'
  BY <1>4, <1>5, <1>6, OthersClaims
<1>7. ASSUME NEW kind \in {"approve", "delete", "publish"}, NEW b, NEW r,
             NEW next \in {"lock", "pendings", "resource"},
             Serve(s, Command(kind, NoRow, b, r, NoRow), next), UNCHANGED staged
      PROVE  ClaimsInv'
  <2>1. op'[s].kind = kind /\ pc'[s] = next
    BY <1>1, <1>7 DEF Serve, Command, TypeOK
  <2>2. ClaimsOf(s)'
    BY <1>3, <1>4, <1>7, <2>1 DEF ClaimsOf
  <2>. QED
    BY <1>6, <2>2
<1>8. ASSUME NEW kind \in {"reject", "cancel", "expire"}, NEW u, NEW b,
             Serve(s, Command(kind, u, b, NoRow, NoRow), "write"),
             NEW B, NEW to \in {"REJECTED", "CANCELLED", "EXPIRED"},
             NEW role, NEW reason,
             staged' = [staged EXCEPT ![s] = Moved(B, to, role, reason)]
      PROVE  ClaimsInv'
  <2>1. /\ op'[s].kind = kind /\ pc'[s] = "write"
        /\ staged'[s] = Moved(B, to, role, reason)
    BY <1>1, <1>8 DEF Serve, Command, TypeOK
  <2>2. \A c \in BookingIds : staged'[s][c] # NoRow => staged'[s][c].status = to
    BY <2>1 DEF Moved, Transition, Rewritten
  <2>3. ClaimsOf(s)'
    BY <1>3, <1>4, <1>8, <2>1, <2>2 DEF ClaimsOf, Early
  <2>. QED
    BY <1>6, <2>3
<1>9. ASSUME NEW c \in Users, NEW r \in Resources, NEW x \in Slots,
             NEW b \in BookingIds, LoadForRequest(s, c, r, x, b)
      PROVE  ClaimsInv'
  <2>1. /\ Serve(s, Command("request", c, b, r, x), "dedup")
        /\ bookings[b] = NoRow /\ UNCHANGED staged
    BY <1>9 DEF LoadForRequest, IsFresh
  <2>2. op'[s].kind = "request" /\ op'[s].booking = b /\ pc'[s] = "dedup"
    BY <1>1, <2>1 DEF Serve, Command, TypeOK
  <2>3. ClaimsOf(s)'
    BY <1>3, <1>4, <2>1, <2>2 DEF ClaimsOf
  <2>. QED
    BY <1>6, <2>3
<1>10. CASE \E b \in BookingIds : LoadForApprove(s, b)
  BY <1>7, <1>10 DEF LoadForApprove
<1>11. CASE \E r \in Resources : LoadForDelete(s, r)
  BY <1>7, <1>11 DEF LoadForDelete
<1>12. CASE \E r \in Resources, p \in BOOLEAN : LoadForPublish(s, r, p)
  BY <1>7, <1>12 DEF LoadForPublish
<1>13. ASSUME NEW b \in BookingIds, LoadForReject(s, b)
       PROVE  ClaimsInv'
  <2>1. /\ Serve(s, Command("reject", NoRow, b, NoRow, NoRow), "write")
        /\ staged' = [staged EXCEPT ![s] =
                        Moved({b}, "REJECTED", "OWNER", "given")]
    BY <1>13 DEF LoadForReject
  <2>. QED
    BY <1>8, <2>1
<1>14. ASSUME NEW b \in BookingIds, NEW u \in Users, LoadForCancel(s, b, u)
       PROVE  ClaimsInv'
  <2>1. PICK role :
          /\ Serve(s, Command("cancel", u, b, NoRow, NoRow), "write")
          /\ staged' = [staged EXCEPT ![s] =
                          Moved({b}, "CANCELLED", role, "given")]
    BY <1>14 DEF LoadForCancel
  <2>. QED
    BY <1>8, <2>1
<1>15. CASE ListOverdue(s)
  BY <1>8, <1>15 DEF ListOverdue
<1>. QED
  BY <1>9, <1>10, <1>11, <1>12, <1>13, <1>14, <1>15 DEF Begin

\* The step that approves the target in memory, and the one that rejects those
\* that lose to it: both look at PENDING rows under the resource's lock.
LEMMA ApproveClaims ==
  ASSUME TypeInv, RowInv, LockInv, NoticeInv, OutcomeInv, ClaimsInv,
         NEW s \in Sessions, Refetch(s) \/ ListCompetitors(s)
  PROVE  ClaimsInv'
<1>. USE DEF tables, updating
<1>. DEFINE b == op[s].booking
<1>1. TypeOK /\ StepInv /\ ClaimsOf(s) /\ LockOf(s) /\ Owes(s)
  BY DEF TypeInv, ClaimsInv, LockInv, OutcomeInv
<1>2. /\ pc[s] \in {"refetch", "competitors"} /\ b \in BookingIds
      /\ op[s].kind = "approve" /\ bookings[b].resource = op[s].resource
      /\ bookings[b] # NoRow /\ UNCHANGED <<bookings, inbox, op, draft, seen>>
  BY <1>1 DEF Refetch, ListCompetitors, StepInv, LockOf
<1>3. \A c \in BookingIds : draft[s][c] = NoRow /\ seen[s][c] = NoRow
  BY <1>1, <1>2 DEF Owes, Early, StepInv
<1>4. \A u \in Sessions \ {s} : pc'[u] = pc[u] /\ staged'[u] = staged[u]
  BY <1>1 DEF Refetch, ListCompetitors, TypeOK
<1>5. pc'[s] \in {"competitors", "write"}
  BY <1>1 DEF Refetch, ListCompetitors, TypeOK
<1>6. \A c \in BookingIds : Untold(c)' <=> Untold(c)
  BY <1>2 DEF Untold
<1>7. ASSUME \A c \in BookingIds : staged'[s][c] # NoRow =>
               /\ staged'[s][c].status = "APPROVED" <=> c = b
               /\ bookings[c].resource = op[s].resource
               /\ Untold(c)
      PROVE  ClaimsInv'
  <2>1. \A c \in BookingIds :
          staged'[s][c] # NoRow => RuledBy(s, c, staged[s][c])'
    BY <1>2, <1>6, <1>7 DEF RuledBy
  <2>2. ClaimsOf(s)'
    BY <1>1, <1>2, <1>3, <1>5, <2>1 DEF ClaimsOf, Early
  <2>. QED
    BY <1>2, <1>4, <2>2, OthersClaims
<1>8. \A c \in BookingIds : bookings[c].status = "PENDING" => Untold(c)
  BY DEF NoticeInv
<1>9. CASE Refetch(s)
  <2>1. /\ staged'[s] = Moved({b}, "APPROVED", "OWNER", "given")
        /\ bookings[b].status = "PENDING"
    BY <1>1, <1>9 DEF Refetch, TypeOK
  <2>2. \A c \in BookingIds : staged'[s][c] # NoRow =>
          c = b /\ staged'[s][c].status = "APPROVED"
    BY <2>1 DEF Moved, Transition, Rewritten
  <2>. QED
    BY <1>2, <1>7, <1>8, <2>1, <2>2
<1>10. CASE ListCompetitors(s)
  <2>. DEFINE target == staged[s][b]
              losers == PendingOverlapping(target.resource, target.slot, b)
              moved == Moved(losers, "REJECTED", "OWNER", "auto_rejected")
  <2>1. /\ pc[s] = "competitors" /\ staged'[s] = [moved EXCEPT ![b] = target]
    BY <1>1, <1>10 DEF ListCompetitors, TypeOK
  <2>2. target # NoRow /\ RuledBy(s, b, target) /\ Kin(target, bookings[b])
    BY <1>1, <1>2, <2>1, NoRowAssumption DEF StepInv, ClaimsOf, RowInv
  <2>3. \A c \in losers :
          /\ c \in BookingIds \ {b} /\ bookings[c].status = "PENDING"
          /\ bookings[c].resource = target.resource
    BY DEF PendingOverlapping, PendingFor
  <2>4. \A c \in BookingIds \ {b} : moved[c] # NoRow =>
          c \in losers /\ moved[c].status = "REJECTED"
    BY DEF Moved, Transition, Rewritten
  <2>5. DOMAIN moved = BookingIds
    BY DEF Moved
  <2>. HIDE DEF losers, moved, target, b
  <2>6. /\ staged'[s][b] = target
        /\ \A c \in BookingIds \ {b} : staged'[s][c] = moved[c]
    BY <1>2, <2>1, <2>5
  <2>7. target.status = "APPROVED" /\ Untold(b)
    BY <2>2 DEF RuledBy, b
  <2>. QED
    BY <1>2, <1>7, <1>8, <2>2, <2>3, <2>4, <2>6, <2>7 DEF Kin
<1>. QED
  BY <1>9, <1>10

\* The customer of an approved booking has been told.
LEMMA ApprovedIsTold ==
  ASSUME TypeOK, OutcomeInv, NEW b \in BookingIds,
         bookings[b] # NoRow, bookings[b].status = "APPROVED"
  PROVE  ~Untold(b)
<1>. DEFINE n == Tell(bookings[b].customer, "APPROVED", b)
<1>1. bookings[b].customer \in Users
  BY DEF TypeOK, BookingRow
<1>2. n \in Notice /\ n.kind = "APPROVED" /\ n.booking = b
  BY <1>1 DEF Tell, Notice, NotifKinds
<1>3. n \in Posted
  BY DEF OutcomeInv, Settled, Announced
<1>. HIDE DEF n
<1>4. inbox[n] > 0
  BY <1>3 DEF Posted
<1>. QED
  BY <1>2, <1>4 DEF Untold

LEMMA WriteClaims ==
  ASSUME TypeInv, OutcomeInv, ClaimsInv, NEW s \in Sessions,
         NEW b \in BookingIds, Write(s, b)
  PROVE  ClaimsInv'
<1>. DEFINE row == Written(s, b)
            next == IF \A c \in BookingIds \ {b} : staged[s][c] = NoRow
                    THEN AfterWrites(op[s].kind) ELSE "write"
<1>1. TypeOK /\ ClaimsOf(s)
  BY DEF TypeInv, ClaimsInv
<1>2. /\ pc[s] = "write" /\ staged[s][b] # NoRow /\ bookings[b] # NoRow
      /\ seen[s][b] # NoRow
  BY DEF Write, TypeInv, StepInv, FreshInv
<1>3. /\ draft' = [draft EXCEPT ![s][b] = row]
      /\ staged' = [staged EXCEPT ![s][b] = NoRow]
      /\ seen' = [seen EXCEPT ![s] = NothingHeld]
      /\ pc' = [pc EXCEPT ![s] = next]
      /\ UNCHANGED <<bookings, inbox, op>>
  BY DEF Write, tables
<1>4. op[s].kind # "request" /\ next \notin Early
  BY <1>1, <1>2 DEF ClaimsOf, AfterWrites, Early
<1>5. \/ row.status = staged[s][b].status /\ staged[s][b].status # seen[s][b]
      \/ row.status = bookings[b].status /\ staged[s][b].status = seen[s][b]
  BY DEF Written, Rewritten
<1>6. bookings[b].status = "APPROVED" => ~Untold(b)
  BY <1>1, <1>2, ApprovedIsTold
<1>7. op[s].kind # "approve" =>
        (row.status = "APPROVED" => bookings[b].status = "APPROVED")
  BY <1>1, <1>2, <1>4, <1>5 DEF ClaimsOf
<1>8. op[s].kind = "approve" => RuledBy(s, b, row)
  <2>. SUFFICES ASSUME op[s].kind = "approve" PROVE RuledBy(s, b, row)
    OBVIOUS
  <2>1. RuledBy(s, b, staged[s][b])
    BY <1>1, <1>2 DEF ClaimsOf
  <2>2. staged[s][b].status = seen[s][b] => staged[s][b].status # "APPROVED"
    BY <1>1, <1>2, <2>1 DEF ClaimsOf, RuledBy
  <2>. QED
    BY <1>5, <1>6, <2>1, <2>2 DEF RuledBy
<1>. HIDE DEF row, next
<1>9. /\ pc'[s] = next
      /\ \A c \in BookingIds :
           /\ draft'[s][c] = IF c = b THEN row ELSE draft[s][c]
           /\ staged'[s][c] = IF c = b THEN NoRow ELSE staged[s][c]
           /\ seen'[s][c] = NoRow
      /\ \A u \in Sessions \ {s} :
           /\ pc'[u] = pc[u] /\ seen'[u] = seen[u]
           /\ staged'[u] = staged[u] /\ draft'[u] = draft[u]
  BY <1>1, <1>3 DEF TypeOK, NothingHeld
<1>10. \A c \in BookingIds : Untold(c)' <=> Untold(c)
  BY <1>3 DEF Untold
<1>11. op[s].kind = "approve" =>
         \A c \in BookingIds :
           /\ staged'[s][c] # NoRow => RuledBy(s, c, staged[s][c])'
           /\ draft'[s][c] # NoRow => RuledBy(s, c, draft[s][c])'
  BY <1>1, <1>3, <1>8, <1>9, <1>10 DEF ClaimsOf, RuledBy
<1>12. op[s].kind # "approve" =>
         \A c \in BookingIds :
           /\ staged'[s][c] # NoRow => staged'[s][c].status # "APPROVED"
           /\ draft'[s][c] # NoRow /\ draft'[s][c].status = "APPROVED" =>
                bookings[c].status = "APPROVED"
  BY <1>1, <1>4, <1>7, <1>9 DEF ClaimsOf
<1>13. \A c \in BookingIds : draft'[s][c] # NoRow => bookings[c] # NoRow
  BY <1>1, <1>2, <1>4, <1>9 DEF ClaimsOf
<1>14. next # "dedup"
  BY <1>4 DEF Early
<1>15. ClaimsOf(s)'
  BY <1>3, <1>4, <1>9, <1>11, <1>12, <1>13, <1>14 DEF ClaimsOf
<1>. QED
  BY <1>3, <1>9, <1>15, OthersClaims

LEMMA ProceedClaims ==
  ASSUME TypeInv, SafeInv, ApprovalInv, OutcomeInv, ClaimsInv,
         NEW s \in Sessions, Proceed(s)
  PROVE  ClaimsInv'
<1>. USE DEF tables, updating
<1>1. /\ TypeOK /\ StepInv /\ RowInv /\ LockInv /\ NoticeInv
      /\ ClaimsOf(s) /\ LockOf(s) /\ Owes(s)
  BY DEF TypeInv, ApprovalInv, LockInv, ClaimsInv, OutcomeInv
<1>2. CASE AddBooking(s)
  <2>. DEFINE b == op[s].booking
              row == PendingRow(op[s].resource, op[s].actor, op[s].slot)
  <2>1. /\ pc[s] = "dedup" /\ pc' = [pc EXCEPT ![s] = "commit"]
        /\ draft' = [draft EXCEPT ![s][b] = row]
        /\ UNCHANGED <<bookings, inbox, op, staged, seen>>
    BY <1>2 DEF AddBooking
  <2>2. row.status = "PENDING"
    BY DEF PendingRow
  <2>3. /\ b \in BookingIds /\ \A c \in BookingIds : draft[s][c] = NoRow
        /\ \A c \in BookingIds : seen[s][c] = NoRow
    BY <1>1, <2>1 DEF StepInv, Owes, Early
  <2>. HIDE DEF row
  <2>4. /\ pc'[s] = "commit" /\ draft'[s][b] = row
        /\ \A c \in BookingIds \ {b} : draft'[s][c] = NoRow
        /\ \A u \in Sessions \ {s} : pc'[u] = pc[u] /\ draft'[u] = draft[u]
    BY <1>1, <2>1, <2>3 DEF TypeOK
  <2>5. ClaimsOf(s)'
    BY <1>1, <2>1, <2>2, <2>3, <2>4 DEF ClaimsOf, Early
  <2>. QED
    BY <2>1, <2>4, <2>5, OthersClaims
<1>3. CASE AcquireLock(s)
  <2>1. /\ pc[s] = "lock" /\ pc'[s] = "refetch" /\ op[s].kind = "approve"
        /\ UNCHANGED <<bookings, inbox, op, staged, draft, seen>>
        /\ \A u \in Sessions \ {s} : pc'[u] = pc[u]
    BY <1>1, <1>3 DEF AcquireLock, TypeOK, LockOf
  <2>2. \A c \in BookingIds :
          staged[s][c] = NoRow /\ draft[s][c] = NoRow /\ seen[s][c] = NoRow
    BY <1>1, <2>1 DEF Owes, ClaimsOf, Early, StepInv
  <2>3. ClaimsOf(s)'
    BY <2>1, <2>2 DEF ClaimsOf
  <2>. QED
    BY <2>1, <2>3, OthersClaims
<1>4. CASE Refetch(s) \/ ListCompetitors(s)
  BY <1>1, <1>4, ApproveClaims
<1>5. CASE ListPendings(s)
  <2>. DEFINE moved == Moved(PendingFor(op[s].resource), "CANCELLED", "OWNER",
                             "resource_deleted")
  <2>1. /\ pc[s] = "pendings" /\ pc'[s] \in {"resource", "write"}
        /\ staged'[s] = moved /\ UNCHANGED <<bookings, inbox, op, draft, seen>>
        /\ \A u \in Sessions \ {s} : pc'[u] = pc[u] /\ staged'[u] = staged[u]
    BY <1>1, <1>5 DEF ListPendings, TypeOK
  <2>2. \A c \in BookingIds : moved[c] # NoRow => moved[c].status = "CANCELLED"
    BY DEF Moved, Transition, Rewritten
  <2>3. /\ op[s].kind \notin {"request", "approve"}
        /\ \A c \in BookingIds : draft[s][c] = NoRow /\ seen[s][c] = NoRow
    BY <1>1, <2>1 DEF LockOf, ClaimsOf, Owes, Early, StepInv
  <2>. HIDE DEF moved
  <2>4. ClaimsOf(s)'
    BY <2>1, <2>2, <2>3 DEF ClaimsOf, Early
  <2>. QED
    BY <2>1, <2>4, OthersClaims
<1>6. ASSUME NEW b \in BookingIds, SelectRow(s, b)
      PROVE  ClaimsInv'
  <2>1. /\ pc[s] = "write" /\ staged[s][b] # NoRow
        /\ UNCHANGED <<bookings, inbox, op, pc, staged, draft>>
        /\ \A c \in BookingIds :
             seen'[s][c] = seen[s][c] \/ (c = b /\ seen'[s][c] = bookings[b].status)
        /\ \A u \in Sessions \ {s} : seen'[u] = seen[u]
    BY <1>1, <1>6 DEF SelectRow, NextWrites, TypeOK
  <2>2. bookings[b] # NoRow
    BY <2>1 DEF TypeInv, FreshInv
  <2>3. bookings[b].status = "APPROVED" => ~Untold(b)
    BY <1>1, <2>2, ApprovedIsTold
  <2>4. \A c \in BookingIds : Untold(c)' <=> Untold(c)
    BY <2>1 DEF Untold
  <2>5. \A c \in BookingIds :
          seen'[s][c] # NoRow /\ seen'[s][c] = "APPROVED" => ~Untold(c)
    BY <1>1, <2>1, <2>3 DEF ClaimsOf
  <2>6. op[s].kind = "approve" =>
          \A c \in BookingIds :
            /\ staged[s][c] # NoRow => RuledBy(s, c, staged[s][c])'
            /\ draft[s][c] # NoRow => RuledBy(s, c, draft[s][c])'
    BY <1>1, <2>1, <2>4 DEF ClaimsOf, RuledBy
  <2>7. ClaimsOf(s)'
    BY <1>1, <2>1, <2>4, <2>5, <2>6 DEF ClaimsOf
  <2>. QED
    BY <2>1, <2>7, OthersClaims
<1>7. ASSUME NEW b \in BookingIds, Write(s, b)
      PROVE  ClaimsInv'
  BY <1>7, WriteClaims
<1>8. CASE SelectResource(s) \/ WriteResource(s)
  <2>1. /\ pc[s] = "resource" /\ pc'[s] \in {"resource", "commit"}
        /\ UNCHANGED <<bookings, inbox, op, staged, draft, seen>>
        /\ \A u \in Sessions \ {s} : pc'[u] = pc[u]
    BY <1>1, <1>8 DEF SelectResource, WriteResource, TypeOK
  <2>2. op[s].kind \notin {"request", "approve"}
    BY <1>1, <2>1 DEF LockOf, ClaimsOf
  <2>3. \A c \in BookingIds : Untold(c)' <=> Untold(c)
    BY <2>1 DEF Untold
  <2>4. ClaimsOf(s)'
    BY <1>1, <2>1, <2>2, <2>3 DEF ClaimsOf, Early
  <2>. QED
    BY <2>1, <2>4, OthersClaims
<1>9. CASE Commit(s)
  BY <1>1, <1>9, CommitClaims
<1>10. CASE \/ RefuseDuplicate(s) \/ RefuseDecided(s) \/ JobReturns(s)
            \/ DeadlockAbort(s) \/ \E b \in BookingIds : ExclusionViolation(s, b)
  <2>1. Release(s) /\ UNCHANGED <<bookings, inbox>>
    BY <1>10 DEF RefuseDuplicate, RefuseDecided, JobReturns, DeadlockAbort,
                 ExclusionViolation, Rollback
  <2>. QED
    BY <1>1, <2>1, ReleaseClaims, OthersClaims
<1>. QED
  BY <1>2, <1>3, <1>4, <1>5, <1>6, <1>7, <1>8, <1>9, <1>10 DEF Proceed

LEMMA ClaimsNext ==
  ASSUME TypeInv, SafeInv, ApprovalInv, OutcomeInv, ClaimsInv, [Next]_vars
  PROVE  ClaimsInv'
<1>1. ASSUME NEW s \in Sessions, Begin(s) \/ Proceed(s)
      PROVE  ClaimsInv'
  BY <1>1, BeginClaims, ProceedClaims
<1>2. ASSUME NEW s \in Sessions, Abort(s)
      PROVE  ClaimsInv'
  BY <1>2, ReleaseClaims, OthersClaims DEF Abort, Rollback, tables, TypeInv
<1>3. ASSUME UNCHANGED <<tables, session>>
      PROVE  ClaimsInv'
  <2>. USE <1>3 DEF tables, session, updating
  <2>1. \A c \in BookingIds : Untold(c)' <=> Untold(c)
    BY DEF Untold
  <2>2. ASSUME NEW s \in Sessions, op[s].kind = "approve"
        PROVE  \A c \in BookingIds :
                 /\ staged[s][c] # NoRow => RuledBy(s, c, staged[s][c])'
                 /\ draft[s][c] # NoRow => RuledBy(s, c, draft[s][c])'
    BY <2>1, <2>2 DEF ClaimsInv, ClaimsOf, RuledBy
  <2>. QED
    BY <2>1, <2>2 DEF ClaimsInv, ClaimsOf
<1>. QED
  BY <1>1, <1>2, <1>3 DEF Next, Tick, SetSubscription, vars

CalendarInv == TypeInv /\ SafeInv /\ ApprovalInv /\ OutcomeInv /\ ClaimsInv

LEMMA CalendarInvariant ==
  ASSUME ExclusionConstraint
  PROVE  Spec => []CalendarInv
<1>1. Init => ClaimsInv
  BY DEF Init, ClaimsInv, ClaimsOf, NothingHeld, NoOp, Command
<1>2. CalendarInv /\ [Next]_vars => ClaimsInv'
  BY ClaimsNext DEF CalendarInv
<1>. QED
  BY <1>1, <1>2, SafeInvariant, OutcomeInvariant, PTL DEF Spec, CalendarInv

\* A request, once committed, files its claim.
LEMMA RequestFiles ==
  ASSUME CalendarInv, NEW s \in Sessions, Commit(s), op[s].kind = "request"
  PROVE  [Cal!Next]_Cal!cvars
<1>1. /\ TypeInv /\ TypeOK /\ RowInv /\ LockInv /\ NoticeInv
      /\ ClaimsOf(s) /\ pc[s] = "commit"
  BY DEF CalendarInv, TypeInv, ApprovalInv, ClaimsInv, Commit
<1>. PICK b \in BookingIds : b = op[s].booking
  BY <1>1 DEF ClaimsOf
<1>2. /\ bookings[b] = NoRow /\ Untold(b)
      /\ \A c \in BookingIds : draft[s][c] # NoRow =>
           c = b /\ draft[s][c].status = "PENDING"
  BY <1>1 DEF ClaimsOf, NoticeInv
<1>3. ~Deciding(s)
  BY DEF Deciding
<1>4. /\ \A c \in BookingIds \ {b} : bookings'[c] = bookings[c]
      /\ bookings'[b] = draft[s][b]
      /\ \A n \in Notice : n.kind = "APPROVED" => inbox'[n] = inbox[n]
  BY <1>1, <1>2, <1>3, CommitEffect
<1>5. \A c \in BookingIds : bookings[c] # NoRow =>
        Tell(bookings[c].customer, "APPROVED", c) \in Notice
  BY <1>1 DEF TypeOK, BookingRow, Tell, Notice, NotifKinds
<1>6. \A c \in BookingIds \ {b} :
        ClaimOf(c)' = ClaimOf(c) /\ PhaseOf(c)' = PhaseOf(c)
  BY <1>4, <1>5 DEF ClaimOf, PhaseOf, Tell
<1>7. ClaimOf(b) = NoRow /\ PhaseOf(b) = "waiting"
  BY <1>2 DEF ClaimOf, PhaseOf
<1>8. PhaseOf(b)' = "waiting"
  <2>1. CASE draft[s][b] = NoRow
    BY <1>4, <2>1 DEF PhaseOf
  <2>2. CASE draft[s][b] # NoRow
    <3>1. draft[s][b].customer \in Users /\ draft[s][b].status = "PENDING"
      BY <1>1, <1>2, <2>2 DEF TypeOK, BookingRow
    <3>2. Tell(draft[s][b].customer, "APPROVED", b) \in Notice
      BY <1>2, <3>1 DEF Tell, Notice, NotifKinds
    <3>3. inbox'[Tell(draft[s][b].customer, "APPROVED", b)] = 0
      BY <1>2, <1>4, <3>2 DEF Untold, Tell
    <3>. QED
      BY <1>4, <2>2, <3>1, <3>3 DEF PhaseOf
  <2>. QED
    BY <2>1, <2>2
<1>9. [c \in BookingIds |-> PhaseOf(c)]' = [c \in BookingIds |-> PhaseOf(c)]
  BY <1>6, <1>7, <1>8
<1>10. ASSUME NEW k, ClaimOf(b)' = k
       PROVE  [c \in BookingIds |-> ClaimOf(c)]' =
                [[c \in BookingIds |-> ClaimOf(c)] EXCEPT ![b] = k]
  BY <1>6, <1>10
<1>11. CASE draft[s][b] = NoRow
  <2>1. ClaimOf(b)' = ClaimOf(b)
    BY <1>2, <1>4, <1>11 DEF ClaimOf
  <2>2. [c \in BookingIds |-> ClaimOf(c)]' = [c \in BookingIds |-> ClaimOf(c)]
    BY <1>6, <2>1
  <2>. QED
    BY <1>9, <2>2 DEF Cal!cvars
<1>12. CASE draft[s][b] # NoRow
  <2>1. PICK k \in [resource : Resources, slot : Slots] : ClaimOf(b)' = k
    <3>1. ClaimOf(b)' = [resource |-> draft[s][b].resource,
                         slot |-> draft[s][b].slot]
      BY <1>4, <1>12 DEF ClaimOf
    <3>2. draft[s][b].resource \in Resources /\ draft[s][b].slot \in Slots
      BY <1>1, <1>12 DEF TypeOK, BookingRow
    <3>. QED
      BY <3>1, <3>2
  <2>2. Cal!File(b, k)
    BY <1>7, <1>9, <1>10, <2>1 DEF Cal!File
  <2>. QED
    BY <2>2 DEF Cal!Next
<1>. QED
  BY <1>11, <1>12

\* The commit of any other command files no claim.
LEMMA ClaimsStay ==
  ASSUME CalendarInv, NEW s \in Sessions, Commit(s), op[s].kind # "request"
  PROVE  /\ \A c \in BookingIds : ClaimOf(c)' = ClaimOf(c)
         /\ \A c \in BookingIds : draft[s][c] # NoRow => bookings[c] # NoRow
<1>1. TypeInv /\ RowInv /\ LockInv /\ ClaimsOf(s)
  BY DEF CalendarInv, ApprovalInv, ClaimsInv
<1>2. \A c \in BookingIds : draft[s][c] # NoRow => bookings[c] # NoRow
  BY <1>1 DEF ClaimsOf
<1>3. ASSUME NEW c \in BookingIds
      PROVE  ClaimOf(c)' = ClaimOf(c)
  <2>1. CASE bookings[c] = NoRow
    BY <1>1, <1>2, <2>1, CommitEffect DEF ClaimOf
  <2>2. CASE bookings[c] # NoRow
    BY <1>1, <2>2, CommitEffect DEF ClaimOf, Kin
  <2>. QED
    BY <2>1, <2>2
<1>. QED
  BY <1>2, <1>3

\* An approval, once committed, grants its target and leaves the other phases:
\* the requests it rejects had not been granted.
LEMMA ApprovalGrants ==
  ASSUME CalendarInv, ExclusionConstraint, NEW s \in Sessions, Commit(s),
         op[s].kind = "approve"
  PROVE  [Cal!Next]_Cal!cvars
<1>1. /\ TypeInv /\ TypeOK /\ SafeInv /\ RowInv /\ LockInv /\ NoticeInv
      /\ ClaimsOf(s) /\ LockOf(s) /\ pc[s] = "commit"
  BY DEF CalendarInv, TypeInv, ApprovalInv, ClaimsInv, LockInv, Commit
<1>. PICK b \in BookingIds : b = op[s].booking
  BY <1>1 DEF LockOf
<1>. DEFINE row == draft[s][b]
<1>2. /\ bookings[b] # NoRow /\ row # NoRow /\ row.status = "APPROVED"
      /\ Untold(b) /\ Kin(row, bookings[b]) /\ row \in BookingRow
  BY <1>1 DEF LockOf, ClaimsOf, RuledBy, RowInv, TypeOK
<1>3. \A c \in BookingIds \ {b} : draft[s][c] # NoRow =>
        /\ draft[s][c].status # "APPROVED" /\ Untold(c)
        /\ bookings[c] # NoRow
  BY <1>1 DEF ClaimsOf, RuledBy
<1>4. ASSUME NEW c \in BookingIds, bookings[c] # NoRow
      PROVE  Tell(bookings[c].customer, "APPROVED", c) \in Notice
  BY <1>1, <1>4 DEF TypeOK, BookingRow, Tell, Notice, NotifKinds
<1>5. ASSUME NEW c \in BookingIds, Untold(c)
      PROVE  PhaseOf(c) = "waiting"
  <2>1. CASE bookings[c] = NoRow
    BY <2>1 DEF PhaseOf
  <2>2. CASE bookings[c] # NoRow
    <3>1. bookings[c].status # "APPROVED"
      BY <1>1, <1>5, <2>2, ApprovedIsTold DEF CalendarInv
    <3>2. inbox[Tell(bookings[c].customer, "APPROVED", c)] = 0
      BY <1>4, <1>5, <2>2 DEF Untold, Tell
    <3>. QED
      BY <2>2, <3>1, <3>2 DEF PhaseOf
  <2>. QED
    BY <2>1, <2>2
<1>6. PhaseOf(b)' = "held"
  <2>1. bookings'[b] = row
    BY <1>1, <1>2, CommitEffect
  <2>. QED
    BY <1>2, <2>1 DEF PhaseOf
<1>7. ASSUME NEW c \in BookingIds \ {b}, draft[s][c] = NoRow
      PROVE  PhaseOf(c)' = PhaseOf(c)
  <2>1. bookings'[c] = bookings[c]
    BY <1>1, <1>7, CommitEffect
  <2>2. CASE bookings[c] = NoRow
    BY <2>1, <2>2 DEF PhaseOf
  <2>3. CASE bookings[c] # NoRow
    <3>. DEFINE n == Tell(bookings[c].customer, "APPROVED", c)
    <3>1. n \in Notice /\ n.kind = "APPROVED" /\ n.booking = c
      BY <1>4, <2>3 DEF Tell
    <3>. HIDE DEF n
    <3>2. n \notin outbox[s]
      BY <1>1, <3>1, CommitEffect
    <3>3. inbox'[n] = inbox[n]
      BY <1>1, <3>1, <3>2, CommitEffect
    <3>. QED
      BY <2>1, <2>3, <3>3 DEF PhaseOf, n
  <2>. QED
    BY <2>2, <2>3
<1>8. ASSUME NEW c \in BookingIds \ {b}, draft[s][c] # NoRow
      PROVE  PhaseOf(c)' = PhaseOf(c)
  <2>1. /\ bookings'[c] = draft[s][c] /\ draft[s][c].status # "APPROVED"
        /\ draft[s][c] \in BookingRow /\ draft[s][c] # NoRow
        /\ Untold(c)' /\ PhaseOf(c) = "waiting"
    BY <1>1, <1>3, <1>5, <1>8, CommitEffect DEF TypeOK
  <2>2. Tell(draft[s][c].customer, "APPROVED", c) \in Notice
    BY <2>1 DEF BookingRow, Tell, Notice, NotifKinds
  <2>3. inbox'[Tell(draft[s][c].customer, "APPROVED", c)] = 0
    BY <2>1, <2>2 DEF Untold, Tell
  <2>. QED
    BY <2>1, <2>3 DEF PhaseOf
<1>9. \A c \in BookingIds :
        PhaseOf(c) = "held" => c # b /\ draft[s][c] = NoRow
  BY <1>2, <1>3, <1>5
<1>10. ASSUME NEW c \in BookingIds, PhaseOf(c) = "held"
       PROVE  ~SameTime(ClaimOf(b), ClaimOf(c))
  <2>1. c # b /\ draft[s][c] = NoRow
    BY <1>9, <1>10
  <2>2. bookings[c] # NoRow /\ bookings[c].status = "APPROVED"
    BY <1>10 DEF PhaseOf
  <2>3. ~Clash(row, bookings[c])
    BY <1>1, <1>2, <2>1 DEF SafeInv, DraftsAreSafe
  <2>4. row.resource = bookings[c].resource => ~Overlaps(row.slot, bookings[c].slot)
    BY <1>2, <2>2, <2>3 DEF Clash
  <2>5. row.slot \in Slots /\ bookings[c].slot \in Slots
    BY <1>1, <1>2, <2>2 DEF TypeOK, BookingRow
  <2>6. row.resource = bookings[c].resource =>
          SharedTime(row.slot, bookings[c].slot) = {}
    BY <2>4, <2>5, DisjointSlots
  <2>7. /\ ClaimOf(b).resource = row.resource /\ ClaimOf(b).slot = row.slot
        /\ ClaimOf(c).resource = bookings[c].resource
        /\ ClaimOf(c).slot = bookings[c].slot
    BY <1>2, <2>2 DEF ClaimOf, Kin
  <2>. QED
    BY <2>6, <2>7 DEF SameTime
<1>11. \A c \in BookingIds : ClaimOf(c)' = ClaimOf(c)
  BY <1>1, ClaimsStay
<1>12. ClaimOf(b) # NoRow
  <2>1. bookings[b].resource \in Resources /\ bookings[b].slot \in Slots
    BY <1>1, <1>2 DEF TypeOK, BookingRow
  <2>. QED
    BY <1>2, <2>1, NoRowAssumption DEF ClaimOf
<1>13. PhaseOf(b) = "waiting"
  BY <1>2, <1>5
<1>14. \A c \in BookingIds :
         PhaseOf(c)' = IF c = b THEN "held" ELSE PhaseOf(c)
  BY <1>6, <1>7, <1>8
<1>15. Cal!Grant(b)
  BY <1>10, <1>11, <1>12, <1>13, <1>14 DEF Cal!Grant, Cal!Held
<1>. QED
  BY <1>15 DEF Cal!Next

\* Any other command, once committed, frees the bookings that it takes out of
\* APPROVED, and holds no new one.
LEMMA OthersFreeUp ==
  ASSUME CalendarInv, NEW s \in Sessions, Commit(s),
         op[s].kind \notin {"request", "approve"}
  PROVE  [Cal!Next]_Cal!cvars
<1>1. /\ TypeInv /\ TypeOK /\ RowInv /\ LockInv /\ OutcomeInv /\ ClaimsOf(s)
  BY DEF CalendarInv, TypeInv, ApprovalInv, ClaimsInv
<1>. DEFINE freed == {c \in BookingIds : /\ PhaseOf(c) = "held"
                                         /\ draft[s][c] # NoRow
                                         /\ draft[s][c].status # "APPROVED"}
<1>2. PICK B \in SUBSET BookingIds : B = freed
  OBVIOUS
<1>3. ~Deciding(s)
  BY DEF Deciding
<1>4. \A n \in Notice : n.kind = "APPROVED" => inbox'[n] = inbox[n]
  BY <1>1, <1>3, CommitEffect
<1>5. ASSUME NEW c \in BookingIds
      PROVE  PhaseOf(c)' = IF c \in B THEN "released" ELSE PhaseOf(c)
  <2>1. CASE draft[s][c] = NoRow
    <3>1. bookings'[c] = bookings[c] /\ c \notin B
      BY <1>1, <1>2, <2>1, CommitEffect
    <3>2. CASE bookings[c] = NoRow
      BY <3>1, <3>2 DEF PhaseOf
    <3>3. CASE bookings[c] # NoRow
      <4>1. Tell(bookings[c].customer, "APPROVED", c) \in Notice
        BY <1>1, <3>3 DEF TypeOK, BookingRow, Tell, Notice, NotifKinds
      <4>2. inbox'[Tell(bookings[c].customer, "APPROVED", c)] =
              inbox[Tell(bookings[c].customer, "APPROVED", c)]
        BY <1>4, <4>1 DEF Tell
      <4>. QED
        BY <3>1, <3>3, <4>2 DEF PhaseOf
    <3>. QED
      BY <3>2, <3>3
  <2>2. CASE draft[s][c] # NoRow
    <3>. DEFINE n == Tell(bookings[c].customer, "APPROVED", c)
    <3>1. /\ bookings[c] # NoRow /\ bookings'[c] = draft[s][c]
          /\ draft[s][c].customer = bookings[c].customer
          /\ draft[s][c].status = "APPROVED" => bookings[c].status = "APPROVED"
      BY <1>1, <2>2, CommitEffect, ClaimsStay DEF RowInv, Kin, ClaimsOf
    <3>2. n \in Notice /\ n.kind = "APPROVED"
      BY <1>1, <3>1 DEF TypeOK, BookingRow, Tell, Notice, NotifKinds
    <3>3. bookings[c].status = "APPROVED" => n \in Posted
      BY <1>1, <3>1 DEF OutcomeInv, Settled, Announced
    <3>. HIDE DEF n
    <3>4. inbox'[n] = inbox[n]
      BY <1>4, <3>2
    <3>5. bookings[c].status = "APPROVED" => inbox[n] > 0
      BY <3>3 DEF Posted
    <3>6. PhaseOf(c) = IF bookings[c].status = "APPROVED" THEN "held"
                       ELSE IF inbox[n] > 0 THEN "released" ELSE "waiting"
      BY <3>1 DEF PhaseOf, n
    <3>7. PhaseOf(c)' = IF draft[s][c].status = "APPROVED" THEN "held"
                        ELSE IF inbox[n] > 0 THEN "released" ELSE "waiting"
      BY <2>2, <3>1, <3>4 DEF PhaseOf, n
    <3>8. c \in B <=> PhaseOf(c) = "held" /\ draft[s][c].status # "APPROVED"
      BY <1>2, <2>2
    <3>. QED
      BY <3>1, <3>5, <3>6, <3>7, <3>8
  <2>. QED
    BY <2>1, <2>2
<1>6. \A c \in BookingIds : ClaimOf(c)' = ClaimOf(c)
  BY <1>1, ClaimsStay
<1>7. B \in SUBSET Cal!Held
  BY <1>2 DEF Cal!Held
<1>8. Cal!FreeUp(B)
  BY <1>5, <1>6 DEF Cal!FreeUp
<1>. QED
  BY <1>7, <1>8 DEF Cal!Next

\* The step simulation: every step of the booking flow is a step of the
\* calendar, or changes nothing that a client of the calendar sees.
LEMMA CalendarStep ==
  ASSUME CalendarInv, ExclusionConstraint, [Next]_vars
  PROVE  [Cal!Next]_Cal!cvars
<1>. USE DEF tables, updating
<1>1. ASSUME UNCHANGED <<bookings, inbox>>
      PROVE  UNCHANGED Cal!cvars
  BY <1>1 DEF ClaimOf, PhaseOf, Cal!cvars
<1>2. ASSUME NEW s \in Sessions, Commit(s)
      PROVE  [Cal!Next]_Cal!cvars
  BY <1>2, RequestFiles, ApprovalGrants, OthersFreeUp
<1>3. ASSUME NEW s \in Sessions, Begin(s)
      PROVE  UNCHANGED <<bookings, inbox>>
  BY <1>3 DEF Begin, LoadForRequest, LoadForApprove, LoadForReject,
              LoadForCancel, LoadForDelete, LoadForPublish, ListOverdue
<1>4. ASSUME NEW s \in Sessions, Proceed(s), ~Commit(s)
      PROVE  UNCHANGED <<bookings, inbox>>
  BY <1>4 DEF Proceed, RefuseDuplicate, AddBooking, AcquireLock, RefuseDecided,
              Refetch, ListCompetitors, ListPendings, ExclusionViolation,
              SelectRow, Write, SelectResource, WriteResource, JobReturns,
              DeadlockAbort, Rollback
<1>5. ASSUME NEW s \in Sessions, Abort(s)
      PROVE  UNCHANGED <<bookings, inbox>>
  BY <1>5 DEF Abort, Rollback
<1>6. ASSUME Tick \/ (\E u \in Owners : SetSubscription(u)) \/ UNCHANGED vars
      PROVE  UNCHANGED <<bookings, inbox>>
  BY <1>6 DEF Tick, SetSubscription, vars
<1>. QED
  BY <1>1, <1>2, <1>3, <1>4, <1>5, <1>6 DEF Next

\* With the exclusion constraint the booking flow implements the calendar: a
\* booking claims one slot for good, is granted it at most once and only while
\* nobody holds it, and holds it until it is released.
THEOREM BookingsImplementCalendar ==
  ASSUME ExclusionConstraint
  PROVE  Spec => ImplementsCalendar
<1>1. Init => Cal!Init
  <2>1. ASSUME Init
        PROVE  /\ [b \in BookingIds |-> ClaimOf(b)] = [b \in BookingIds |-> NoRow]
               /\ [b \in BookingIds |-> PhaseOf(b)] =
                    [b \in BookingIds |-> "waiting"]
    BY <2>1 DEF Init, ClaimOf, PhaseOf, NothingHeld
  <2>. QED
    BY <2>1 DEF Cal!Init
<1>2. CalendarInv /\ [Next]_vars => [Cal!Next]_Cal!cvars
  BY CalendarStep
<1>. QED
  BY <1>1, <1>2, CalendarInvariant, PTL DEF Spec, ImplementsCalendar, Cal!Spec

(***************************************************************************)
(* Where requests overtake each other.  The history variables of module    *)
(* BookingOverlaps change nothing: what holds of Bookings holds with them. *)
(* A copy of a row that nobody has replaced since it was read is up to     *)
(* date; the guarantees follow for every step but those that the variables *)
(* point out.                                                              *)
(***************************************************************************)

LEMMA OverlapsAreBookings == OverlapSpec => Spec
<1>1. OverlapInit => Init
  BY DEF OverlapInit
<1>2. [OverlapNext]_ovars => [Next]_vars
  BY DEF OverlapNext, ovars
<1>. QED
  BY <1>1, <1>2, PTL DEF OverlapSpec, Spec

(***************************************************************************)
(* The inductive invariant of the versions of a booking.                   *)
(***************************************************************************)

\* The version v of a booking is one valid transition away from row.
Successor(v, row) ==
  \E to \in Statuses, role \in Roles, reason \in Reasons :
    /\ v = Transition(row, to, role, reason)
    /\ IsValidTransition(row.status, to)

\* A transaction's copies of a row that nobody has replaced are not stale: an
\* entity is one transition ahead of the committed row, and update() finds the
\* row unchanged.  A new booking has no active duplicate but those that were
\* committed since it looked for them.
VersionsOf(s) ==
  /\ pc[s] \in Early => \A b \in BookingIds : draft[s][b] = NoRow
  /\ pc[s] \notin {"competitors", "write"} =>
       \A b \in BookingIds : staged[s][b] = NoRow
  /\ pc[s] = "dedup" => op[s].kind = "request"
  /\ \A b \in BookingIds \ outdated[s] :
       /\ staged[s][b] # NoRow => Successor(staged[s][b], bookings[b])
       /\ seen[s][b] # NoRow => seen[s][b] = bookings[b].status
       /\ draft[s][b] # NoRow /\ bookings[b] # NoRow =>
            Successor(draft[s][b], bookings[b])
  /\ \A b \in BookingIds :
       draft[s][b] # NoRow /\ bookings[b] = NoRow =>
         /\ op[s].kind = "request"
         /\ draft[s][b].status = "PENDING" /\ draft[s][b].history = <<>>
         /\ ActiveByCustomer(draft[s][b].customer, draft[s][b].resource,
                             draft[s][b].slot) \subseteq outdated[s]

VersionsInv == \A s \in Sessions : VersionsOf(s)

\* Every version of booking b, committed or not.
Copies(b) == {bookings[b]} \cup {staged[s][b] : s \in Sessions}
                           \cup {draft[s][b] : s \in Sessions}

\* The trail of a version leads from PENDING to its status.
Explained(row) ==
  LET h == row.history
      before(i) == IF i = 1 THEN "PENDING" ELSE h[i - 1].to
  IN  /\ \A i \in 1..Len(h) : /\ h[i].from = before(i)
                              /\ IsValidTransition(h[i].from, h[i].to)
      /\ row.status = before(Len(h) + 1)

TrailInv ==
  \A b \in BookingIds \ torn : \A row \in Copies(b) \ {NoRow} : Explained(row)

(***************************************************************************)
(* Lemmas about versions and about what is recorded of them.               *)
(***************************************************************************)

\* A version one transition ahead of a row: its kin, with another status, of
\* which an active row alone is capable, and one change more in its history.
LEMMA SuccessorFacts ==
  ASSUME NEW row \in BookingRow, NEW v, Successor(v, row)
  PROVE  /\ v \in BookingRow /\ v # NoRow /\ Kin(v, row)
         /\ IsActive(row.status) /\ v.status # row.status
         /\ IsValidTransition(row.status, v.status)
         /\ IsActive(v.status) => row.status = "PENDING"
         /\ \E change \in StatusChange :
              /\ change.from = row.status /\ change.to = v.status
              /\ v.history = Append(row.history, change)
<1>1. PICK to \in Statuses, role \in Roles, reason \in Reasons :
        v = Transition(row, to, role, reason) /\ IsValidTransition(row.status, to)
  BY DEF Successor
<1>2. v \in BookingRow /\ v # NoRow
  BY <1>1, TransitionType, NoRowAssumption
<1>3. /\ v.status = to /\ Kin(v, row)
      /\ v.history = Append(row.history, Change(row.status, to, role, reason))
  BY <1>1 DEF Transition, Rewritten, Kin
<1>4. /\ IsActive(row.status) /\ to # row.status
      /\ IsActive(to) => row.status = "PENDING"
  BY <1>1 DEF IsValidTransition, IsActive
<1>5. /\ Change(row.status, to, role, reason) \in StatusChange
      /\ Change(row.status, to, role, reason).from = row.status
      /\ Change(row.status, to, role, reason).to = to
  BY DEF BookingRow, StatusChange, Change
<1>. QED
  BY <1>1, <1>2, <1>3, <1>4, <1>5

\* What a handler moves is one transition ahead.
LEMMA MovedSuccessor ==
  ASSUME NEW B \in SUBSET BookingIds, NEW to \in Statuses, NEW role \in Roles,
         NEW reason \in Reasons,
         \A b \in B : IsValidTransition(bookings[b].status, to)
  PROVE  \A b \in BookingIds :
           Moved(B, to, role, reason)[b] # NoRow =>
             Successor(Moved(B, to, role, reason)[b], bookings[b])
  BY DEF Moved, Successor

\* One transition makes one more step on the path.
LEMMA SuccessorExplained ==
  ASSUME NEW row \in BookingRow, NEW v, Successor(v, row), Explained(row)
  PROVE  Explained(v)
<1>. DEFINE h == row.history
            k == v.history
            before(i) == IF i = 1 THEN "PENDING" ELSE h[i - 1].to
            after(i) == IF i = 1 THEN "PENDING" ELSE k[i - 1].to
<1>1. /\ \A i \in 1..Len(h) : /\ h[i].from = before(i)
                               /\ IsValidTransition(h[i].from, h[i].to)
      /\ row.status = before(Len(h) + 1)
  BY DEF Explained
<1>2. PICK change \in StatusChange :
        /\ change.from = row.status /\ change.to = v.status
        /\ k = Append(h, change)
        /\ IsValidTransition(change.from, change.to)
  BY SuccessorFacts
<1>3. h \in Seq(StatusChange)
  BY DEF BookingRow
<1>. HIDE DEF h, k
<1>4. /\ Len(k) = Len(h) + 1 /\ Len(h) \in Nat
      /\ \A i \in 1..Len(h) : k[i] = h[i]
      /\ k[Len(h) + 1] = change
  BY <1>2, <1>3
<1>5. \A i \in 1..Len(h) + 1 : after(i) = before(i)
  BY <1>4
<1>6. after(Len(k) + 1) = change.to
  BY <1>4
<1>7. \A i \in 1..Len(k) : /\ k[i].from = after(i)
                           /\ IsValidTransition(k[i].from, k[i].to)
  BY <1>1, <1>2, <1>4, <1>5
<1>. QED
  BY <1>2, <1>6, <1>7 DEF k, Explained

\* What s has read stays in its record until another transaction replaces it.
LEMMA OwnRecord ==
  ASSUME Record, NEW s \in Sessions, pc'[s] \notin Unread
  PROVE  \A b \in BookingIds \ outdated'[s] :
           /\ b \notin outdated[s] \/ (staged[s][b] = NoRow /\ staged'[s][b] # NoRow)
           /\ b \notin Published
<1>1. outdated'[s] = (outdated[s] \ ReadBy(s)) \cup Published
  BY DEF Record
<1>. QED
  BY <1>1 DEF ReadBy

\* What a step of s leaves to another session u.
Aside(s) ==
  \A u \in Sessions \ {s} :
    /\ pc'[u] = pc[u] /\ op'[u] = op[u] /\ staged'[u] = staged[u]
    /\ draft'[u] = draft[u] /\ seen'[u] = seen[u] /\ outbox'[u] = outbox[u]

LEMMA OthersRecord ==
  ASSUME Record, NEW s \in Sessions, NEW u \in Sessions \ {s},
         pc'[u] = pc[u], staged'[u] = staged[u], pc[u] \notin Unread,
         UNCHANGED bookings \/ Commit(s)
  PROVE  /\ outdated[u] \subseteq outdated'[u]
         /\ \A b \in BookingIds \ outdated'[u] :
              b \notin outdated[u] /\ bookings'[b] = bookings[b]
<1>1. outdated'[u] = (outdated[u] \ ReadBy(u)) \cup Published
  BY DEF Record
<1>2. ReadBy(u) = {}
  BY DEF ReadBy
<1>3. \A b \in BookingIds \ Published : bookings'[b] = bookings[b]
  BY DEF Published, Commit
<1>. QED
  BY <1>1, <1>2, <1>3

\* A transaction that is over holds no version.
LEMMA ReleaseVersions ==
  ASSUME TypeOK, NEW s \in Sessions, Release(s)
  PROVE  /\ VersionsOf(s)' /\ Aside(s)
         /\ pc'[s] = "idle" /\ outbox'[s] = {}
         /\ op'[s] = NoOp
         /\ \A b \in BookingIds : staged'[s][b] = NoRow /\ draft'[s][b] = NoRow
<1>1. /\ pc'[s] = "idle" /\ op'[s] = NoOp /\ outbox'[s] = {}
      /\ staged'[s] = NothingHeld /\ draft'[s] = NothingHeld
      /\ seen'[s] = NothingHeld
  BY DEF Release, TypeOK
<1>2. Aside(s)
  BY DEF Release, TypeOK, Aside
<1>. QED
  BY <1>1, <1>2 DEF VersionsOf, NothingHeld

\* A session that takes up a command holds nothing yet, and no other session
\* notices.
LEMMA BeginAlone ==
  ASSUME TypeInv, VersionsInv, NEW s \in Sessions, Begin(s)
  PROVE  /\ pc[s] = "idle" /\ UNCHANGED <<bookings, inbox, draft, seen>>
         /\ UNCHANGED <<clock, resources, resDraft>>
         /\ Aside(s)
         /\ \A b \in BookingIds :
              staged[s][b] = NoRow /\ draft[s][b] = NoRow /\ seen[s][b] = NoRow
<1>1. TypeOK /\ StepInv /\ VersionsOf(s)
  BY DEF TypeInv, VersionsInv
<1>2. /\ pc[s] = "idle" /\ UNCHANGED <<bookings, inbox, draft, seen>>
      /\ UNCHANGED <<clock, resources, resDraft>>
  BY DEF Begin, LoadForRequest, LoadForApprove, LoadForReject, LoadForCancel,
         LoadForDelete, LoadForPublish, ListOverdue, Serve, tables, updating
<1>3. \A b \in BookingIds :
        staged[s][b] = NoRow /\ draft[s][b] = NoRow /\ seen[s][b] = NoRow
  BY <1>1, <1>2 DEF StepInv, VersionsOf
<1>4. Aside(s)
  <2>1. \E command, next : Serve(s, command, next)
    BY DEF Begin, LoadForRequest, LoadForApprove, LoadForReject, LoadForCancel,
           LoadForDelete, LoadForPublish, ListOverdue
  <2>2. \A u \in Sessions \ {s} : pc'[u] = pc[u] /\ op'[u] = op[u]
    BY <1>1, <2>1 DEF Serve, TypeOK
  <2>3. staged' = staged \/ \E x : staged' = [staged EXCEPT ![s] = x]
    BY DEF Begin, LoadForRequest, LoadForApprove, LoadForReject, LoadForCancel,
           LoadForDelete, LoadForPublish, ListOverdue
  <2>4. outbox' = outbox \/ \E x : outbox' = [outbox EXCEPT ![s] = x]
    BY DEF Begin, LoadForRequest, LoadForApprove, LoadForReject, LoadForCancel,
           LoadForDelete, LoadForPublish, ListOverdue
  <2>. QED
    BY <1>1, <1>2, <2>2, <2>3, <2>4 DEF Aside, TypeOK
<1>. QED
  BY <1>2, <1>3, <1>4

\* A step of s, told by what it does to the versions of s.
LEMMA OthersVersions ==
  ASSUME TypeInv, VersionsInv, Record, NEW s \in Sessions, Aside(s),
         UNCHANGED bookings \/ Commit(s), VersionsOf(s)'
  PROVE  VersionsInv'
<1>1. ASSUME NEW u \in Sessions \ {s}
      PROVE  VersionsOf(u)'
  <2>1. /\ pc'[u] = pc[u] /\ op'[u] = op[u] /\ staged'[u] = staged[u]
        /\ draft'[u] = draft[u] /\ seen'[u] = seen[u]
    BY DEF Aside
  <2>2. VersionsOf(u)
    BY DEF VersionsInv
  <2>3. CASE pc[u] \in Unread
    <3>1. \A b \in BookingIds :
            staged[u][b] = NoRow /\ draft[u][b] = NoRow /\ seen[u][b] = NoRow
      BY <2>2, <2>3 DEF VersionsOf, TypeInv, StepInv, Unread, Early
    <3>. QED
      BY <2>1, <2>2, <3>1 DEF VersionsOf
  <2>4. CASE pc[u] \notin Unread
    <3>1. /\ outdated[u] \subseteq outdated'[u]
          /\ \A b \in BookingIds \ outdated'[u] :
               b \notin outdated[u] /\ bookings'[b] = bookings[b]
      BY <2>1, <2>4, OthersRecord
    <3>2. \A b \in BookingIds : bookings'[b] = NoRow => bookings[b] = NoRow
      BY DEF Commit
    <3>3. \A c, r, x : ActiveByCustomer(c, r, x) \subseteq outdated[u]
                         => ActiveByCustomer(c, r, x)' \subseteq outdated'[u]
      BY <3>1 DEF ActiveByCustomer
    <3>4. \A b \in BookingIds \ outdated'[u] :
            /\ staged[u][b] # NoRow => Successor(staged[u][b], bookings'[b])
            /\ seen[u][b] # NoRow => seen[u][b] = bookings'[b].status
            /\ draft[u][b] # NoRow /\ bookings'[b] # NoRow =>
                 Successor(draft[u][b], bookings'[b])
      BY <2>2, <3>1 DEF VersionsOf
    <3>5. ASSUME NEW b \in BookingIds, draft[u][b] # NoRow, bookings'[b] = NoRow
          PROVE  /\ op[u].kind = "request" /\ draft[u][b].status = "PENDING"
                 /\ draft[u][b].history = <<>>
                 /\ ActiveByCustomer(draft[u][b].customer, draft[u][b].resource,
                                     draft[u][b].slot)' \subseteq outdated'[u]
      <4>. DEFINE c == draft[u][b].customer
                  r == draft[u][b].resource
                  x == draft[u][b].slot
      <4>1. /\ op[u].kind = "request" /\ draft[u][b].status = "PENDING"
            /\ draft[u][b].history = <<>>
            /\ ActiveByCustomer(c, r, x) \subseteq outdated[u]
        BY <2>2, <3>2, <3>5 DEF VersionsOf
      <4>2. ActiveByCustomer(c, r, x)' \subseteq outdated'[u]
        BY <2>1, <3>1, <4>1 DEF ActiveByCustomer
      <4>. QED
        BY <2>1, <4>1, <4>2
    <3>. QED
      BY <2>1, <2>2, <3>4, <3>5 DEF VersionsOf
  <2>. QED
    BY <2>3, <2>4
<1>. QED
  BY <1>1 DEF VersionsInv

\* What it stages is one transition ahead of the committed rows.
LEMMA BeginVersions ==
  ASSUME TypeInv, VersionsInv, NEW s \in Sessions, Begin(s),
         NEW b \in BookingIds, staged'[s][b] # NoRow
  PROVE  /\ pc'[s] = "write" /\ Successor(staged'[s][b], bookings[b])
         /\ op'[s].kind \in {"reject", "cancel", "expire"}
         /\ ~IsActive(staged'[s][b].status)
<1>1. TypeOK /\ staged[s][b] = NoRow
  BY BeginAlone DEF TypeInv
<1>2. ASSUME NEW B \in SUBSET BookingIds, NEW role \in Roles,
             NEW reason \in Reasons,
             NEW to \in {"REJECTED", "CANCELLED", "EXPIRED"},
             \A c \in B : IsValidTransition(bookings[c].status, to),
             staged' = [staged EXCEPT ![s] = Moved(B, to, role, reason)],
             NEW kind \in {"reject", "cancel", "expire"}, NEW actor, NEW c,
             Serve(s, Command(kind, actor, c, NoRow, NoRow), "write")
      PROVE  /\ pc'[s] = "write" /\ Successor(staged'[s][b], bookings[b])
             /\ op'[s].kind \in {"reject", "cancel", "expire"}
             /\ ~IsActive(staged'[s][b].status)
  <2>1. /\ staged'[s] = Moved(B, to, role, reason)
        /\ pc'[s] = "write" /\ op'[s].kind = kind
    BY <1>1, <1>2 DEF TypeOK, Serve, Command
  <2>2. to \in Statuses /\ ~IsActive(to)
    BY DEF Statuses, IsActive
  <2>3. Successor(staged'[s][b], bookings[b])
    BY <1>2, <2>1, <2>2, MovedSuccessor
  <2>4. staged'[s][b].status = to
    BY <2>1, MovedKin
  <2>. QED
    BY <2>1, <2>2, <2>3, <2>4
<1>3. ASSUME NEW c \in BookingIds, LoadForReject(s, c)
      PROVE  /\ pc'[s] = "write" /\ Successor(staged'[s][b], bookings[b])
             /\ op'[s].kind \in {"reject", "cancel", "expire"}
             /\ ~IsActive(staged'[s][b].status)
  <2>1. /\ {c} \in SUBSET BookingIds
        /\ \A d \in {c} : IsValidTransition(bookings[d].status, "REJECTED")
        /\ staged' = [staged EXCEPT ![s] =
                        Moved({c}, "REJECTED", "OWNER", "given")]
        /\ Serve(s, Command("reject", NoRow, c, NoRow, NoRow), "write")
    BY <1>3 DEF LoadForReject
  <2>. QED
    BY <1>2, <2>1 DEF Roles, Reasons
<1>4. ASSUME NEW c \in BookingIds, NEW u \in Users, LoadForCancel(s, c, u)
      PROVE  /\ pc'[s] = "write" /\ Successor(staged'[s][b], bookings[b])
             /\ op'[s].kind \in {"reject", "cancel", "expire"}
             /\ ~IsActive(staged'[s][b].status)
  <2>1. PICK role \in Roles :
          /\ \A d \in {c} : IsValidTransition(bookings[d].status, "CANCELLED")
          /\ staged' = [staged EXCEPT ![s] =
                          Moved({c}, "CANCELLED", role, "given")]
          /\ Serve(s, Command("cancel", u, c, NoRow, NoRow), "write")
    BY <1>4 DEF LoadForCancel, Roles
  <2>2. {c} \in SUBSET BookingIds
    OBVIOUS
  <2>. QED
    BY <1>2, <2>1, <2>2 DEF Reasons
<1>5. CASE ListOverdue(s)
  <2>. DEFINE found == PendingStartedBefore(clock)
  <2>1. /\ found \in SUBSET BookingIds
        /\ \A c \in found : IsValidTransition(bookings[c].status, "EXPIRED")
        /\ staged' = [staged EXCEPT ![s] =
                        Moved(found, "EXPIRED", "CUSTOMER", "slot_passed")]
        /\ Serve(s, Command("expire", NoRow, NoRow, NoRow, NoRow), "write")
    BY <1>5 DEF ListOverdue, PendingStartedBefore, IsValidTransition, Statuses
  <2>. HIDE DEF found
  <2>. QED
    BY <1>2, <2>1 DEF Roles, Reasons
<1>6. CASE \/ \E c \in Users, r \in Resources, x \in Slots, d \in BookingIds :
                LoadForRequest(s, c, r, x, d)
           \/ \E d \in BookingIds : LoadForApprove(s, d)
           \/ \E r \in Resources : LoadForDelete(s, r)
           \/ \E r \in Resources, p \in BOOLEAN : LoadForPublish(s, r, p)
  BY <1>1, <1>6 DEF LoadForRequest, LoadForApprove, LoadForDelete, LoadForPublish
<1>. QED
  BY <1>3, <1>4, <1>5, <1>6 DEF Begin

\* Of a row that nobody has replaced, update() writes the entity as it is.
LEMMA WrittenFresh ==
  ASSUME TypeInv, VersionsInv, NEW s \in Sessions,
         NEW b \in BookingIds \ outdated[s], seen[s][b] # NoRow
  PROVE  /\ Written(s, b) = staged[s][b]
         /\ Successor(staged[s][b], bookings[b])
<1>1. /\ staged[s][b] # NoRow /\ bookings[b] # NoRow
      /\ bookings[b] \in BookingRow
  BY DEF TypeInv, TypeOK, StepInv, FreshInv
<1>2. /\ Successor(staged[s][b], bookings[b])
      /\ seen[s][b] = bookings[b].status
  BY <1>1 DEF VersionsInv, VersionsOf
<1>3. staged[s][b].status # seen[s][b]
  BY <1>1, <1>2, SuccessorFacts
<1>. QED
  BY <1>2, <1>3 DEF Written

\* What a handler stages once it has its rows: the approved booking and the
\* competitors, or the requests on a deleted resource.
LEMMA StagedVersions ==
  ASSUME TypeInv, LockInv, VersionsInv, NEW s \in Sessions,
         Refetch(s) \/ ListCompetitors(s) \/ ListPendings(s),
         NEW b \in BookingIds, staged'[s][b] # NoRow
  PROVE  /\ pc'[s] \in {"competitors", "write"}
         /\ \/ Successor(staged'[s][b], bookings[b])
            \/ ListCompetitors(s) /\ staged'[s][b] = staged[s][b]
         /\ \/ ~IsActive(staged'[s][b].status)
            \/ ListCompetitors(s) /\ staged'[s][b] = staged[s][b]
            \/ Refetch(s) /\ b = op[s].booking
<1>1. TypeOK /\ VersionsOf(s)
  BY DEF TypeInv, VersionsInv
<1>2. CASE Refetch(s)
  <2>. DEFINE target == op[s].booking
  <2>1. /\ {target} \in SUBSET BookingIds
        /\ \A c \in {target} : IsValidTransition(bookings[c].status, "APPROVED")
    BY <1>2 DEF Refetch, TypeInv, StepInv, IsValidTransition, Statuses
  <2>2. /\ staged'[s] = Moved({target}, "APPROVED", "OWNER", "given")
        /\ pc'[s] = "competitors"
    BY <1>1, <1>2 DEF Refetch, TypeOK
  <2>3. b \in {target}
    BY <2>1, <2>2, MovedKin
  <2>. HIDE DEF target
  <2>4. Successor(staged'[s][b], bookings[b])
    BY <2>1, <2>2, MovedSuccessor DEF Statuses, Roles, Reasons
  <2>. QED
    BY <1>2, <2>2, <2>3, <2>4 DEF target
<1>3. CASE ListCompetitors(s)
  <2>. DEFINE target == staged[s][op[s].booking]
              losers == PendingOverlapping(target.resource, target.slot,
                                           op[s].booking)
              moved == Moved(losers, "REJECTED", "OWNER", "auto_rejected")
  <2>1. /\ losers \in SUBSET BookingIds
        /\ \A c \in losers : IsValidTransition(bookings[c].status, "REJECTED")
    BY DEF PendingOverlapping, PendingFor, IsValidTransition, Statuses
  <2>2. /\ staged' = [staged EXCEPT ![s] =
                        [moved EXCEPT ![op[s].booking] = target]]
        /\ pc' = [pc EXCEPT ![s] = "write"]
    BY <1>3 DEF ListCompetitors
  <2>3. DOMAIN moved = BookingIds
    BY DEF Moved
  <2>. HIDE DEF losers
  <2>4. moved[b] # NoRow =>
          Successor(moved[b], bookings[b]) /\ moved[b].status = "REJECTED"
    BY <2>1, MovedSuccessor, MovedKin DEF Statuses, Roles, Reasons
  <2>. HIDE DEF moved
  <2>5. /\ pc'[s] = "write"
        /\ staged'[s][b] = IF b = op[s].booking THEN target ELSE moved[b]
    BY <1>1, <2>2, <2>3 DEF TypeOK
  <2>6. CASE b = op[s].booking
    BY <1>3, <2>5, <2>6
  <2>7. CASE b # op[s].booking
    BY <2>4, <2>5, <2>7 DEF IsActive
  <2>. QED
    BY <2>6, <2>7
<1>4. CASE ListPendings(s)
  <2>. DEFINE found == PendingFor(op[s].resource)
              moved == Moved(found, "CANCELLED", "OWNER", "resource_deleted")
  <2>1. /\ found \in SUBSET BookingIds
        /\ \A c \in found : IsValidTransition(bookings[c].status, "CANCELLED")
    BY DEF PendingFor, IsValidTransition, Statuses
  <2>2. /\ staged'[s] = moved
        /\ pc'[s] = IF found = {} THEN "resource" ELSE "write"
    BY <1>1, <1>4 DEF ListPendings, TypeOK
  <2>. HIDE DEF found
  <2>3. /\ Successor(moved[b], bookings[b])
        /\ moved[b].status = "CANCELLED" /\ b \in found
    BY <2>1, <2>2, MovedSuccessor, MovedKin DEF Statuses, Roles, Reasons
  <2>. QED
    BY <2>2, <2>3 DEF IsActive
<1>. QED
  BY <1>2, <1>3, <1>4

\* What a commit makes of a booking: nothing, a successor unless the row has
\* been replaced meanwhile, or a new request.
LEMMA CommitVersions ==
  ASSUME TypeInv, VersionsInv, NEW s \in Sessions, Commit(s), NEW b \in BookingIds
  PROVE  \/ draft[s][b] = NoRow /\ bookings'[b] = bookings[b]
         \/ /\ bookings[b] # NoRow /\ bookings[b] \in BookingRow
            /\ bookings'[b] = draft[s][b] /\ draft[s][b] # NoRow
            /\ Overwrites(s, b) \/ Successor(bookings'[b], bookings[b])
         \/ /\ bookings[b] = NoRow /\ bookings'[b] = draft[s][b]
            /\ draft[s][b] # NoRow /\ op[s].booking = b
            /\ op[s].kind = "request"
            /\ bookings'[b].status = "PENDING" /\ bookings'[b].history = <<>>
            /\ ActiveByCustomer(bookings'[b].customer, bookings'[b].resource,
                                bookings'[b].slot) \subseteq outdated[s]
<1>1. bookings'[b] = IF draft[s][b] = NoRow THEN bookings[b] ELSE draft[s][b]
  BY DEF Commit
<1>2. VersionsOf(s) /\ bookings[b] \in BookingRow \cup {NoRow}
  BY DEF VersionsInv, TypeInv, TypeOK
<1>3. draft[s][b] # NoRow => bookings[b] # NoRow \/ op[s].booking = b
  BY DEF TypeInv, FreshInv
<1>4. CASE draft[s][b] = NoRow
  BY <1>1, <1>4
<1>5. CASE draft[s][b] # NoRow /\ bookings[b] # NoRow
  BY <1>1, <1>2, <1>5 DEF VersionsOf, Overwrites
<1>6. CASE draft[s][b] # NoRow /\ bookings[b] = NoRow
  BY <1>1, <1>2, <1>3, <1>6 DEF VersionsOf
<1>. QED
  BY <1>4, <1>5, <1>6

\* Only COMMIT changes what the tables say of bookings and resources.
LEMMA OnlyCommitWrites ==
  ASSUME [Next]_vars
  PROVE  \/ UNCHANGED tables
         \/ \E s \in Sessions : Commit(s)
<1>. USE DEF tables
<1>1. ASSUME NEW s \in Sessions, Begin(s)
      PROVE  UNCHANGED tables
  BY <1>1 DEF Begin, LoadForRequest, LoadForApprove, LoadForReject,
              LoadForCancel, LoadForDelete, LoadForPublish, ListOverdue
<1>2. ASSUME NEW s \in Sessions, Proceed(s), ~Commit(s)
      PROVE  UNCHANGED tables
  BY <1>2 DEF Proceed, RefuseDuplicate, AddBooking, AcquireLock, RefuseDecided,
              Refetch, ListCompetitors, ListPendings, ExclusionViolation,
              SelectRow, Write, SelectResource, WriteResource, JobReturns,
              DeadlockAbort, Rollback
<1>3. ASSUME NEW s \in Sessions, Abort(s)
      PROVE  UNCHANGED tables
  BY <1>3 DEF Abort, Rollback
<1>. QED
  BY <1>1, <1>2, <1>3 DEF Next, Tick, SetSubscription, vars


\* A step of s that reads nothing forgets nothing.
LEMMA NothingRead ==
  ASSUME Record, NEW s \in Sessions, UNCHANGED bookings, pc'[s] \notin Unread,
         \A b \in BookingIds : staged'[s][b] # NoRow => staged[s][b] # NoRow
  PROVE  outdated[s] \subseteq outdated'[s]
<1>1. outdated'[s] = (outdated[s] \ ReadBy(s)) \cup Published
  BY DEF Record
<1>2. ReadBy(s) = {}
  BY DEF ReadBy
<1>. QED
  BY <1>1, <1>2

LEMMA BeginVersionsInv ==
  ASSUME TypeInv, VersionsInv, Record, NEW s \in Sessions, Begin(s)
  PROVE  VersionsInv'
<1>1. /\ pc[s] = "idle" /\ UNCHANGED <<bookings, draft, seen>> /\ Aside(s)
      /\ \A b \in BookingIds :
           staged[s][b] = NoRow /\ draft[s][b] = NoRow /\ seen[s][b] = NoRow
  BY BeginAlone
<1>2. \A b \in BookingIds : staged'[s][b] # NoRow =>
        pc'[s] = "write" /\ Successor(staged'[s][b], bookings[b])
  BY BeginVersions
<1>3. pc'[s] = "dedup" => op'[s].kind = "request"
  <2>1. CASE \E c \in Users, r \in Resources, x \in Slots, b \in BookingIds :
               LoadForRequest(s, c, r, x, b)
    BY <2>1 DEF LoadForRequest, Serve, Command, TypeInv, TypeOK
  <2>2. CASE ~\E c \in Users, r \in Resources, x \in Slots, b \in BookingIds :
                LoadForRequest(s, c, r, x, b)
    <3>1. \E next \in {"lock", "write", "pendings", "resource"} :
            pc' = [pc EXCEPT ![s] = next]
      BY <2>2 DEF Begin, LoadForApprove, LoadForReject, LoadForCancel,
                  LoadForDelete, LoadForPublish, ListOverdue, Serve
    <3>. QED
      BY <3>1 DEF TypeInv, TypeOK
  <2>. QED
    BY <2>1, <2>2
<1>4. VersionsOf(s)'
  BY <1>1, <1>2, <1>3 DEF VersionsOf
<1>. QED
  BY <1>1, <1>4, OthersVersions

LEMMA ProceedVersionsInv ==
  ASSUME TypeInv, LockInv, VersionsInv, Record, NEW s \in Sessions, Proceed(s)
  PROVE  VersionsInv'
<1>. USE DEF tables, updating
<1>1. TypeOK /\ VersionsOf(s) /\ StepInv
  BY DEF TypeInv, VersionsInv
<1>2. CASE AddBooking(s)
  <2>. DEFINE b == op[s].booking
              row == PendingRow(op[s].resource, op[s].actor, op[s].slot)
  <2>1. /\ pc[s] = "dedup" /\ pc' = [pc EXCEPT ![s] = "commit"]
        /\ draft' = [draft EXCEPT ![s][b] = row]
        /\ \E x : outbox' = [outbox EXCEPT ![s] = x]
        /\ UNCHANGED <<bookings, op, staged, seen>>
        /\ ActiveByCustomer(op[s].actor, op[s].resource, op[s].slot) = {}
    BY <1>2 DEF AddBooking
  <2>2. /\ b \in BookingIds /\ bookings[b] = NoRow /\ op[s].kind = "request"
    BY <1>1, <2>1 DEF TypeInv, StepInv, FreshInv, VersionsOf
  <2>3. /\ row.status = "PENDING" /\ row.history = <<>>
        /\ ActiveByCustomer(row.customer, row.resource, row.slot) = {}
    BY <2>1 DEF PendingRow
  <2>4. \A c \in BookingIds : staged[s][c] = NoRow /\ draft[s][c] = NoRow
                              /\ seen[s][c] = NoRow
    BY <1>1, <2>1 DEF VersionsOf, StepInv, Early
  <2>. HIDE DEF row, b
  <2>5. /\ pc'[s] = "commit" /\ op'[s] = op[s]
        /\ \A c \in BookingIds :
             /\ draft'[s][c] = IF c = b THEN row ELSE NoRow
             /\ seen'[s][c] = NoRow /\ staged'[s][c] = NoRow
    BY <1>1, <2>1, <2>4 DEF TypeOK
  <2>6. ASSUME NEW c \in BookingIds, draft'[s][c] # NoRow
        PROVE  /\ bookings'[c] = NoRow /\ op'[s].kind = "request"
               /\ draft'[s][c].status = "PENDING" /\ draft'[s][c].history = <<>>
               /\ ActiveByCustomer(draft'[s][c].customer, draft'[s][c].resource,
                                   draft'[s][c].slot) = {}
    BY <2>1, <2>2, <2>3, <2>5, <2>6
  <2>7. VersionsOf(s)'
    BY <2>1, <2>5, <2>6 DEF VersionsOf, ActiveByCustomer, Early
  <2>8. Aside(s)
    BY <1>1, <2>1 DEF Aside, TypeOK
  <2>. QED
    BY <2>1, <2>7, <2>8, OthersVersions
<1>3. CASE Refetch(s) \/ ListCompetitors(s) \/ ListPendings(s)
  <2>1. /\ pc[s] \in Early /\ UNCHANGED <<bookings, op, draft, seen>>
        /\ pc'[s] \notin Unread /\ pc'[s] # "pendings"
        /\ pc[s] \in Unread \cup {"competitors", "pendings"}
    BY <1>1, <1>3 DEF Refetch, ListCompetitors, ListPendings, Early, Unread,
                      TypeOK
  <2>2. \A b \in BookingIds : staged'[s][b] # NoRow =>
          /\ pc'[s] \in {"competitors", "write"}
          /\ \/ Successor(staged'[s][b], bookings[b])
             \/ staged'[s][b] = staged[s][b]
    BY <1>3, StagedVersions
  <2>3. \A b \in BookingIds : draft[s][b] = NoRow /\ seen[s][b] = NoRow
    BY <1>1, <2>1 DEF VersionsOf, StepInv, Early
  <2>4. \A b \in BookingIds \ outdated'[s] :
          staged'[s][b] # NoRow => Successor(staged'[s][b], bookings[b])
    BY <1>1, <2>1, <2>2, OwnRecord DEF VersionsOf
  <2>5. VersionsOf(s)'
    BY <1>1, <2>1, <2>2, <2>3, <2>4 DEF VersionsOf, Unread
  <2>6. /\ staged' = staged \/ \E x : staged' = [staged EXCEPT ![s] = x]
        /\ outbox' = outbox \/ \E x : outbox' = [outbox EXCEPT ![s] = x]
        /\ \E x : pc' = [pc EXCEPT ![s] = x]
    BY <1>3 DEF Refetch, ListCompetitors, ListPendings
  <2>7. Aside(s)
    BY <1>1, <2>1, <2>6 DEF Aside, TypeOK
  <2>. QED
    BY <2>1, <2>5, <2>7, OthersVersions
<1>4. ASSUME NEW b \in BookingIds, SelectRow(s, b)
      PROVE  VersionsInv'
  <2>1. /\ pc[s] = "write" /\ UNCHANGED <<bookings, pc, op, staged, draft, outbox>>
        /\ \A c \in BookingIds :
             seen'[s][c] = IF c = b THEN bookings[b].status ELSE seen[s][c]
        /\ Aside(s)
    BY <1>1, <1>4 DEF SelectRow, TypeOK, Aside
  <2>2. /\ pc'[s] \notin Unread
        /\ outdated[s] \subseteq outdated'[s]
    BY <2>1, NothingRead DEF Unread
  <2>3. VersionsOf(s)'
    <3>1. \A c \in BookingIds \ outdated'[s] :
            /\ staged'[s][c] # NoRow => Successor(staged'[s][c], bookings'[c])
            /\ seen'[s][c] # NoRow => seen'[s][c] = bookings'[c].status
            /\ draft'[s][c] # NoRow /\ bookings'[c] # NoRow =>
                 Successor(draft'[s][c], bookings'[c])
      BY <1>1, <2>1, <2>2 DEF VersionsOf
    <3>2. ASSUME NEW c \in BookingIds, draft'[s][c] # NoRow, bookings'[c] = NoRow
          PROVE  /\ op'[s].kind = "request" /\ draft'[s][c].status = "PENDING"
                 /\ draft'[s][c].history = <<>>
                 /\ ActiveByCustomer(draft'[s][c].customer, draft'[s][c].resource,
                                     draft'[s][c].slot) \subseteq outdated'[s]
      <4>1. /\ op[s].kind = "request" /\ draft[s][c].status = "PENDING"
            /\ draft[s][c].history = <<>>
            /\ ActiveByCustomer(draft[s][c].customer, draft[s][c].resource,
                                draft[s][c].slot) \subseteq outdated[s]
        BY <1>1, <2>1, <3>2 DEF VersionsOf
      <4>. QED
        BY <2>1, <2>2, <4>1
    <3>3. /\ pc'[s] \in Early => \A c \in BookingIds : draft'[s][c] = NoRow
          /\ pc'[s] = "write"
      BY <1>1, <2>1 DEF VersionsOf
    <3>. QED
      BY <2>1, <3>1, <3>2, <3>3 DEF VersionsOf, ActiveByCustomer
  <2>. QED
    BY <2>1, <2>3, OthersVersions
<1>5. ASSUME NEW b \in BookingIds, Write(s, b)
      PROVE  VersionsInv'
  <2>. DEFINE next == IF \A c \in BookingIds \ {b} : staged[s][c] = NoRow
                      THEN AfterWrites(op[s].kind) ELSE "write"
  <2>1. /\ seen[s][b] # NoRow /\ pc[s] = "write" /\ bookings[b] # NoRow
        /\ staged[s][b] # NoRow
    BY <1>1, <1>5 DEF Write, StepInv, TypeInv, FreshInv
  <2>2. /\ draft' = [draft EXCEPT ![s][b] = Written(s, b)]
        /\ staged' = [staged EXCEPT ![s][b] = NoRow]
        /\ seen' = [seen EXCEPT ![s] = NothingHeld]
        /\ pc' = [pc EXCEPT ![s] = next] /\ UNCHANGED <<bookings, op, outbox>>
    BY <1>5 DEF Write
  <2>3. /\ \A c \in BookingIds :
             /\ draft'[s][c] = IF c = b THEN Written(s, b) ELSE draft[s][c]
             /\ staged'[s][c] = IF c = b THEN NoRow ELSE staged[s][c]
             /\ seen'[s][c] = NoRow
        /\ pc'[s] = next /\ op'[s] = op[s]
    BY <1>1, <2>2 DEF TypeOK, NothingHeld
  <2>4. Aside(s)
    <3>. HIDE DEF next
    <3>. QED
      BY <1>1, <2>2 DEF TypeOK, Aside
  <2>5. /\ pc'[s] = "write" \/ \A c \in BookingIds : staged'[s][c] = NoRow
        /\ pc'[s] \notin Early /\ pc'[s] \notin Unread
    BY <2>3 DEF AfterWrites, Early, Unread
  <2>. HIDE DEF next
  <2>6. /\ outdated[s] \subseteq outdated'[s]
    BY <2>2, <2>3, <2>5, NothingRead
  <2>7. VersionsOf(s)'
    <3>1. \A c \in BookingIds \ outdated'[s] :
            /\ staged'[s][c] # NoRow => Successor(staged'[s][c], bookings'[c])
            /\ draft'[s][c] # NoRow /\ bookings'[c] # NoRow =>
                 Successor(draft'[s][c], bookings'[c])
      <4>1. b \notin outdated[s] => Successor(Written(s, b), bookings[b])
        BY <2>1, WrittenFresh
      <4>. QED
        BY <1>1, <2>2, <2>3, <2>6, <4>1 DEF VersionsOf
    <3>2. ASSUME NEW c \in BookingIds, draft'[s][c] # NoRow, bookings'[c] = NoRow
          PROVE  /\ op'[s].kind = "request" /\ draft'[s][c].status = "PENDING"
                 /\ draft'[s][c].history = <<>>
                 /\ ActiveByCustomer(draft'[s][c].customer, draft'[s][c].resource,
                                     draft'[s][c].slot) \subseteq outdated'[s]
      <4>1. draft'[s][c] = draft[s][c] /\ draft[s][c] # NoRow
        BY <2>1, <2>2, <2>3, <3>2
      <4>2. /\ op[s].kind = "request" /\ draft[s][c].status = "PENDING"
            /\ draft[s][c].history = <<>>
            /\ ActiveByCustomer(draft[s][c].customer, draft[s][c].resource,
                                draft[s][c].slot) \subseteq outdated[s]
        BY <1>1, <2>2, <3>2, <4>1 DEF VersionsOf
      <4>. QED
        BY <2>3, <2>6, <4>1, <4>2
    <3>3. \A c \in BookingIds : seen'[s][c] = NoRow
      BY <2>3
    <3>. QED
      BY <2>2, <2>5, <3>1, <3>2, <3>3
      DEF VersionsOf, ActiveByCustomer, Unread
  <2>. QED
    BY <2>2, <2>4, <2>7, OthersVersions
<1>6. CASE Commit(s)
  <2>1. VersionsOf(s)' /\ Aside(s)
    BY <1>1, <1>6, ReleaseVersions DEF Commit
  <2>. QED
    BY <1>6, <2>1, OthersVersions
<1>7. CASE \/ RefuseDuplicate(s) \/ RefuseDecided(s) \/ JobReturns(s)
           \/ DeadlockAbort(s) \/ \E b \in BookingIds : ExclusionViolation(s, b)
  <2>1. Rollback(s)
    BY <1>7 DEF RefuseDuplicate, RefuseDecided, JobReturns, DeadlockAbort,
                ExclusionViolation
  <2>2. VersionsOf(s)' /\ Aside(s) /\ UNCHANGED bookings
    BY <1>1, <2>1, ReleaseVersions DEF Rollback
  <2>. QED
    BY <2>2, OthersVersions
<1>8. CASE AcquireLock(s)
  <2>1. /\ UNCHANGED <<bookings, op, staged, draft, seen, outbox>>
        /\ pc[s] = "lock" /\ pc'[s] = "refetch" /\ Aside(s)
    BY <1>1, <1>8 DEF AcquireLock, TypeOK, Aside
  <2>2. \A b \in BookingIds :
          staged[s][b] = NoRow /\ draft[s][b] = NoRow /\ seen[s][b] = NoRow
    BY <1>1, <2>1 DEF VersionsOf, StepInv, Early
  <2>3. VersionsOf(s)'
    BY <2>1, <2>2 DEF VersionsOf
  <2>. QED
    BY <2>1, <2>3, OthersVersions
<1>9. CASE SelectResource(s) \/ WriteResource(s)
  <2>1. /\ UNCHANGED <<bookings, op, staged, draft, seen, outbox>>
        /\ pc[s] = "resource" /\ pc'[s] \in {"resource", "commit"} /\ Aside(s)
    BY <1>1, <1>9 DEF SelectResource, WriteResource, TypeOK, Aside
  <2>2. /\ outdated[s] \subseteq outdated'[s]
    BY <2>1, NothingRead DEF Unread
  <2>3. \A b \in BookingIds : staged[s][b] = NoRow /\ seen[s][b] = NoRow
    BY <1>1, <2>1 DEF VersionsOf, StepInv
  <2>4. \A c \in BookingIds \ outdated'[s] :
          draft'[s][c] # NoRow /\ bookings'[c] # NoRow =>
            Successor(draft'[s][c], bookings'[c])
    BY <1>1, <2>1, <2>2 DEF VersionsOf
  <2>5. ASSUME NEW c \in BookingIds, draft'[s][c] # NoRow, bookings'[c] = NoRow
        PROVE  /\ op'[s].kind = "request" /\ draft'[s][c].status = "PENDING"
               /\ draft'[s][c].history = <<>>
               /\ ActiveByCustomer(draft'[s][c].customer, draft'[s][c].resource,
                                   draft'[s][c].slot) \subseteq outdated'[s]
    <3>1. /\ op[s].kind = "request" /\ draft[s][c].status = "PENDING"
          /\ draft[s][c].history = <<>>
          /\ ActiveByCustomer(draft[s][c].customer, draft[s][c].resource,
                              draft[s][c].slot) \subseteq outdated[s]
      BY <1>1, <2>1, <2>5 DEF VersionsOf
    <3>. QED
      BY <2>1, <2>2, <3>1
  <2>6. VersionsOf(s)'
    BY <2>1, <2>3, <2>4, <2>5 DEF VersionsOf, ActiveByCustomer, Early
  <2>. QED
    BY <2>1, <2>6, OthersVersions
<1>. QED
  BY <1>2, <1>3, <1>4, <1>5, <1>6, <1>7, <1>8, <1>9 DEF Proceed

LEMMA VersionsNext ==
  ASSUME TypeInv, LockInv, VersionsInv, [OverlapNext]_ovars
  PROVE  VersionsInv'
<1>1. CASE UNCHANGED ovars
  BY <1>1 DEF ovars, recorded, vars, tables, session, updating, VersionsInv,
              VersionsOf, ActiveByCustomer
<1>2. CASE Next /\ Record
  <2>1. ASSUME NEW s \in Sessions, Begin(s) \/ Proceed(s)
        PROVE  VersionsInv'
    BY <1>2, <2>1, BeginVersionsInv, ProceedVersionsInv
  <2>2. ASSUME NEW s \in Sessions, Abort(s)
        PROVE  VersionsInv'
    <3>1. VersionsOf(s)' /\ Aside(s) /\ UNCHANGED bookings
      BY <2>2, ReleaseVersions DEF Abort, Rollback, tables, TypeInv
    <3>. QED
      BY <1>2, <3>1, OthersVersions
  <2>3. ASSUME UNCHANGED <<tables, session>>
        PROVE  VersionsInv'
    <3>1. UNCHANGED <<bookings, pc, op, staged, draft, seen, outbox>>
      BY <2>3 DEF tables, session, updating
    <3>2. ASSUME NEW s \in Sessions
          PROVE  VersionsOf(s)'
      <4>1. VersionsOf(s) /\ Aside(s)
        BY <3>1 DEF VersionsInv, Aside
      <4>2. CASE pc[s] \in Unread
        <5>1. \A b \in BookingIds :
                staged[s][b] = NoRow /\ draft[s][b] = NoRow /\ seen[s][b] = NoRow
          BY <4>1, <4>2 DEF VersionsOf, TypeInv, StepInv, Unread, Early
        <5>. QED
          BY <3>1, <4>1, <5>1 DEF VersionsOf
      <4>3. CASE pc[s] \notin Unread
        <5>1. outdated[s] \subseteq outdated'[s]
          BY <1>2, <3>1, <4>3, NothingRead
        <5>. QED
          BY <3>1, <4>1, <5>1 DEF VersionsOf, ActiveByCustomer
      <4>. QED
        BY <4>2, <4>3
    <3>. QED
      BY <3>2 DEF VersionsInv
  <2>. QED
    BY <1>2, <2>1, <2>2, <2>3 DEF Next, Tick, SetSubscription
<1>. QED
  BY <1>1, <1>2 DEF OverlapNext

OverlapInv == TypeInv /\ ApprovalInv /\ VersionsInv

LEMMA OverlapInvariant == OverlapSpec => []OverlapInv
<1>1. OverlapInit => VersionsInv
  BY DEF OverlapInit, Init, VersionsInv, VersionsOf, NothingHeld
<1>2. TypeInv /\ ApprovalInv /\ OutcomeInv /\ VersionsInv /\ [OverlapNext]_ovars
        => VersionsInv'
  BY VersionsNext DEF ApprovalInv
<1>. QED
  BY <1>1, <1>2, OverlapsAreBookings, OutcomeInvariant, PTL
  DEF OverlapSpec, OverlapInv

\* The changes that a step makes to a booking on file.
LEMMA StepVersions ==
  ASSUME OverlapInv, [OverlapNext]_ovars, NEW b \in BookingIds,
         bookings[b] # NoRow
  PROVE  /\ bookings[b] \in BookingRow
         /\ \/ bookings'[b] = bookings[b]
            \/ Successor(bookings'[b], bookings[b])
            \/ \E s \in Sessions : Overwrites(s, b)
<1>1. TypeInv /\ VersionsInv /\ bookings[b] \in BookingRow
  BY DEF OverlapInv, TypeInv, TypeOK
<1>2. ASSUME NEW s \in Sessions, Commit(s)
      PROVE  \/ bookings'[b] = bookings[b]
             \/ Successor(bookings'[b], bookings[b])
             \/ Overwrites(s, b)
  BY <1>1, <1>2, CommitVersions
<1>3. [Next]_vars
  BY DEF OverlapNext, ovars
<1>. QED
  BY <1>1, <1>2, <1>3, OnlyCommitWrites DEF tables

\* However requests race, only a lost update takes a booking out of REJECTED,
\* CANCELLED or EXPIRED (_VALID_TRANSITIONS, with an entity that is not stale).
THEOREM DecisionsAreFinal == OverlapSpec => DecisionsStand
<1>1. OverlapInv /\ [OverlapNext]_ovars =>
        [\A b \in BookingIds :
           /\ bookings[b] # NoRow
           /\ bookings[b].status \notin {"PENDING", "APPROVED"}
           /\ bookings'[b].status # bookings[b].status
           => \E s \in Sessions : Overwrites(s, b)]_ovars
  <2>1. ASSUME OverlapInv, [OverlapNext]_ovars, NEW b \in BookingIds,
               bookings[b] # NoRow,
               bookings[b].status \notin {"PENDING", "APPROVED"},
               bookings'[b].status # bookings[b].status
        PROVE  \E s \in Sessions : Overwrites(s, b)
    <3>1. ~Successor(bookings'[b], bookings[b])
      BY <2>1, StepVersions, SuccessorFacts DEF IsActive
    <3>. QED
      BY <2>1, <3>1, StepVersions
  <2>. QED
    BY <2>1
<1>. QED
  BY <1>1, OverlapInvariant, PTL DEF OverlapSpec, DecisionsStand

\* However requests race, status_history is append-only but for lost updates (a
\* change is appended to the list that the entity was read with).
THEOREM AuditTrailIsAppendOnly == OverlapSpec => TrailOnlyGrows
<1>1. OverlapInv /\ [OverlapNext]_ovars =>
        [\A b \in BookingIds :
           bookings[b] # NoRow =>
             LET old == bookings[b].history
                 new == bookings'[b].history
             IN  \/ Len(new) >= Len(old) /\ SubSeq(new, 1, Len(old)) = old
                 \/ \E s \in Sessions : Overwrites(s, b)]_ovars
  <2>1. ASSUME OverlapInv, [OverlapNext]_ovars, NEW b \in BookingIds,
               bookings[b] # NoRow, ~\E s \in Sessions : Overwrites(s, b)
        PROVE  /\ Len(bookings'[b].history) >= Len(bookings[b].history)
               /\ SubSeq(bookings'[b].history, 1, Len(bookings[b].history))
                    = bookings[b].history
    <3>. DEFINE old == bookings[b].history
    <3>1. old \in Seq(StatusChange)
      BY <2>1, StepVersions DEF BookingRow
    <3>2. \/ bookings'[b].history = old
          \/ \E change \in StatusChange : bookings'[b].history = Append(old, change)
      BY <2>1, StepVersions, SuccessorFacts
    <3>. HIDE DEF old
    <3>3. ASSUME NEW new, \/ new = old
                          \/ \E change \in StatusChange : new = Append(old, change)
          PROVE  Len(new) >= Len(old) /\ SubSeq(new, 1, Len(old)) = old
      <4>1. CASE new = old
        BY <3>1, <4>1
      <4>2. ASSUME NEW change \in StatusChange, new = Append(old, change)
            PROVE  Len(new) >= Len(old) /\ SubSeq(new, 1, Len(old)) = old
        <5>1. /\ Len(new) = Len(old) + 1 /\ Len(old) \in Nat
              /\ new \in Seq(StatusChange)
              /\ \A i \in 1..Len(old) : new[i] = old[i]
          BY <3>1, <4>2
        <5>2. /\ SubSeq(new, 1, Len(old)) = [i \in 1..Len(old) |-> new[i]]
              /\ old = [i \in 1..Len(old) |-> old[i]]
          BY <3>1, <5>1
        <5>. QED
          BY <5>1, <5>2
      <4>. QED
        BY <3>3, <4>1, <4>2
    <3>. QED
      BY <3>2, <3>3 DEF old
  <2>. QED
    BY <2>1
<1>. QED
  BY <1>1, OverlapInvariant, PTL DEF OverlapSpec, TrailOnlyGrows

(***************************************************************************)
(* TrailInv: every version whose status and history one transaction wrote  *)
(* together explains itself, and its successors do.                        *)
(***************************************************************************)

\* The versions of b after a step of s: old ones, and what s makes.
LEMMA CopiesExplained ==
  ASSUME TrailInv, Record, NEW s \in Sessions, Aside(s),
         NEW b \in BookingIds \ torn',
         \A row \in {bookings'[b], staged'[s][b], draft'[s][b]} \ {NoRow} :
           row \in Copies(b) \/ Explained(row)
  PROVE  \A row \in Copies(b)' \ {NoRow} : Explained(row)
<1>1. \A row \in Copies(b) \ {NoRow} : Explained(row)
  BY DEF TrailInv, Record
<1>2. \A u \in Sessions \ {s} : staged'[u] = staged[u] /\ draft'[u] = draft[u]
  BY DEF Aside
<1>. QED
  BY <1>1, <1>2 DEF Copies

LEMMA BeginTrail ==
  ASSUME TypeInv, TypeInv', VersionsInv, TrailInv, Record, NEW s \in Sessions,
         Begin(s)
  PROVE  TrailInv'
<1>. SUFFICES ASSUME NEW b \in BookingIds \ torn'
              PROVE  \A row \in Copies(b)' \ {NoRow} : Explained(row)
  BY DEF TrailInv
<1>1. UNCHANGED <<bookings, draft>> /\ Aside(s)
  BY BeginAlone
<1>2. ASSUME staged'[s][b] # NoRow
      PROVE  Explained(staged'[s][b])
  <2>1. Successor(staged'[s][b], bookings[b])
    BY <1>2, BeginVersions
  <2>2. bookings[b] # NoRow /\ bookings[b] \in BookingRow
    BY <1>1, <1>2 DEF TypeInv, FreshInv, TypeOK
  <2>3. Explained(bookings[b])
    BY <2>2 DEF TrailInv, Copies, Record
  <2>. QED
    BY <2>1, <2>2, <2>3, SuccessorExplained
<1>. QED
  BY <1>1, <1>2, CopiesExplained DEF Copies

LEMMA ProceedTrail ==
  ASSUME TypeInv, TypeInv', LockInv, VersionsInv, TrailInv, Record,
         NEW s \in Sessions, Proceed(s), Aside(s)
  PROVE  TrailInv'
<1>. USE DEF tables, updating
<1>. SUFFICES ASSUME NEW b \in BookingIds \ torn'
              PROVE  \A row \in Copies(b)' \ {NoRow} : Explained(row)
  BY DEF TrailInv
<1>1. TypeOK
  BY DEF TypeInv
<1>2. CASE AddBooking(s)
  <2>. DEFINE row == PendingRow(op[s].resource, op[s].actor, op[s].slot)
  <2>1. /\ draft' = [draft EXCEPT ![s][op[s].booking] = row]
        /\ UNCHANGED <<bookings, staged>>
    BY <1>2 DEF AddBooking
  <2>2. Explained(row)
    BY DEF PendingRow, Explained
  <2>. HIDE DEF row
  <2>3. draft'[s][b] = draft[s][b] \/ draft'[s][b] = row
    BY <1>1, <2>1 DEF TypeOK
  <2>. QED
    BY <2>1, <2>2, <2>3, CopiesExplained DEF Copies
<1>3. CASE Refetch(s) \/ ListCompetitors(s) \/ ListPendings(s)
  <2>1. UNCHANGED <<bookings, draft>>
    BY <1>3 DEF Refetch, ListCompetitors, ListPendings
  <2>2. ASSUME staged'[s][b] # NoRow
        PROVE  staged'[s][b] = staged[s][b] \/ Explained(staged'[s][b])
    <3>1. CASE Successor(staged'[s][b], bookings[b])
      <4>1. bookings[b] # NoRow /\ bookings[b] \in BookingRow
        BY <2>1, <2>2 DEF TypeInv, FreshInv, TypeOK
      <4>2. Explained(bookings[b])
        BY <4>1 DEF TrailInv, Copies, Record
      <4>. QED
        BY <3>1, <4>1, <4>2, SuccessorExplained
    <3>. QED
      BY <1>3, <2>2, <3>1, StagedVersions
  <2>. QED
    BY <2>1, <2>2, CopiesExplained DEF Copies
<1>4. ASSUME NEW c \in BookingIds, Write(s, c)
      PROVE  \A row \in Copies(b)' \ {NoRow} : Explained(row)
  <2>1. /\ UNCHANGED bookings
        /\ draft'[s][b] = IF b = c THEN Written(s, b) ELSE draft[s][b]
        /\ staged'[s][b] = IF b = c THEN NoRow ELSE staged[s][b]
    BY <1>1, <1>4 DEF Write, TypeOK
  <2>2. CASE b # c
    BY <2>1, <2>2, CopiesExplained DEF Copies
  <2>3. CASE b = c
    <3>1. staged[s][b] # NoRow
      BY <1>4, <2>3 DEF Write, TypeInv, StepInv
    <3>2. Explained(staged[s][b])
      BY <3>1 DEF TrailInv, Copies, Record
    <3>3. b \notin Mixed
      BY DEF Record
    <3>4. /\ Written(s, b).status = staged[s][b].status
          /\ Written(s, b).history = staged[s][b].history
      BY <1>4, <2>3, <3>3 DEF Mixed, Written, Rewritten
    <3>5. Explained(Written(s, b))
      BY <3>2, <3>4 DEF Explained
    <3>. QED
      BY <2>1, <2>3, <3>5, CopiesExplained DEF Copies
  <2>. QED
    BY <2>2, <2>3
<1>5. CASE Commit(s)
  <2>1. /\ staged'[s][b] = NoRow /\ draft'[s][b] = NoRow
        /\ bookings'[b] \in {bookings[b], draft[s][b]}
    BY <1>1, <1>5, ReleaseVersions DEF Commit
  <2>. QED
    BY <2>1, CopiesExplained DEF Copies
<1>6. CASE \/ RefuseDuplicate(s) \/ RefuseDecided(s) \/ JobReturns(s)
           \/ DeadlockAbort(s) \/ \E c \in BookingIds : ExclusionViolation(s, c)
  <2>1. Rollback(s)
    BY <1>6 DEF RefuseDuplicate, RefuseDecided, JobReturns, DeadlockAbort,
                ExclusionViolation
  <2>2. /\ staged'[s][b] = NoRow /\ draft'[s][b] = NoRow
        /\ bookings'[b] = bookings[b]
    BY <1>1, <2>1, ReleaseVersions DEF Rollback
  <2>. QED
    BY <2>2, CopiesExplained DEF Copies
<1>7. CASE \/ AcquireLock(s) \/ SelectResource(s) \/ WriteResource(s)
           \/ \E c \in BookingIds : SelectRow(s, c)
  <2>1. UNCHANGED <<bookings, staged, draft>>
    BY <1>7 DEF AcquireLock, SelectResource, WriteResource, SelectRow
  <2>. QED
    BY <2>1, CopiesExplained DEF Copies
<1>. QED
  BY <1>2, <1>3, <1>4, <1>5, <1>6, <1>7 DEF Proceed

\* The steps of a session leave the others to themselves.
LEMMA ProceedAside ==
  ASSUME TypeOK, NEW s \in Sessions, Proceed(s)
  PROVE  Aside(s)
<1>. USE DEF tables, updating
<1>1. CASE \/ RefuseDuplicate(s) \/ RefuseDecided(s) \/ JobReturns(s)
           \/ DeadlockAbort(s) \/ Commit(s)
           \/ \E c \in BookingIds : ExclusionViolation(s, c)
  BY <1>1, ReleaseVersions
  DEF RefuseDuplicate, RefuseDecided, JobReturns, DeadlockAbort, Commit,
      ExclusionViolation, Rollback
<1>2. CASE ~(\/ RefuseDuplicate(s) \/ RefuseDecided(s) \/ JobReturns(s)
             \/ DeadlockAbort(s) \/ Commit(s)
             \/ \E c \in BookingIds : ExclusionViolation(s, c))
  <2>1. UNCHANGED op
    BY <1>2 DEF Proceed, AddBooking, AcquireLock, Refetch, ListCompetitors,
                ListPendings, SelectRow, Write, SelectResource, WriteResource
  <2>2. pc' = pc \/ \E x : pc' = [pc EXCEPT ![s] = x]
    BY <1>2 DEF Proceed, AddBooking, AcquireLock, Refetch, ListCompetitors,
                ListPendings, SelectRow, Write, SelectResource, WriteResource
  <2>3. \/ staged' = staged \/ \E x : staged' = [staged EXCEPT ![s] = x]
        \/ \E b \in BookingIds : staged' = [staged EXCEPT ![s][b] = NoRow]
    BY <1>2 DEF Proceed, AddBooking, AcquireLock, Refetch, ListCompetitors,
                ListPendings, SelectRow, Write, SelectResource, WriteResource
  <2>4. draft' = draft \/ \E b, x : draft' = [draft EXCEPT ![s][b] = x]
    BY <1>2 DEF Proceed, AddBooking, AcquireLock, Refetch, ListCompetitors,
                ListPendings, SelectRow, Write, SelectResource, WriteResource
  <2>5. \/ seen' = seen \/ \E x : seen' = [seen EXCEPT ![s] = x]
        \/ \E b, x : seen' = [seen EXCEPT ![s][b] = x]
    BY <1>2 DEF Proceed, AddBooking, AcquireLock, Refetch, ListCompetitors,
                ListPendings, SelectRow, Write, SelectResource, WriteResource
  <2>6. outbox' = outbox \/ \E x : outbox' = [outbox EXCEPT ![s] = x]
    BY <1>2 DEF Proceed, AddBooking, AcquireLock, Refetch, ListCompetitors,
                ListPendings, SelectRow, Write, SelectResource, WriteResource
  <2>. QED
    BY <2>1, <2>2, <2>3, <2>4, <2>5, <2>6 DEF Aside, TypeOK
<1>. QED
  BY <1>1, <1>2

LEMMA TrailNext ==
  ASSUME TypeInv, LockInv, VersionsInv, TrailInv, [OverlapNext]_ovars
  PROVE  TrailInv'
<1>1. TypeInv'
  BY NextTypeInv DEF OverlapNext, ovars
<1>2. CASE UNCHANGED ovars
  BY <1>2 DEF ovars, recorded, vars, tables, session, TrailInv, Copies
<1>3. CASE Next /\ Record
  <2>1. ASSUME NEW s \in Sessions, Begin(s)
        PROVE  TrailInv'
    BY <1>1, <1>3, <2>1, BeginTrail
  <2>2. ASSUME NEW s \in Sessions, Proceed(s)
        PROVE  TrailInv'
    BY <1>1, <1>3, <2>2, ProceedTrail, ProceedAside DEF TypeInv
  <2>3. ASSUME NEW s \in Sessions, Abort(s)
        PROVE  TrailInv'
    <3>1. /\ Aside(s) /\ UNCHANGED bookings
          /\ \A b \in BookingIds : staged'[s][b] = NoRow /\ draft'[s][b] = NoRow
      BY <2>3, ReleaseVersions DEF Abort, Rollback, tables, TypeInv
    <3>. QED
      BY <1>3, <3>1, CopiesExplained DEF TrailInv, Copies
  <2>4. ASSUME UNCHANGED <<tables, session>>
        PROVE  TrailInv'
    <3>1. UNCHANGED <<bookings, staged, draft>> /\ torn \subseteq torn'
      BY <1>3, <2>4 DEF tables, session, Record
    <3>. QED
      BY <3>1 DEF TrailInv, Copies
  <2>. QED
    BY <1>3, <2>1, <2>2, <2>3, <2>4 DEF Next, Tick, SetSubscription
<1>. QED
  BY <1>2, <1>3 DEF OverlapNext

\* The audit trail of a booking is a path of the state machine from PENDING to
\* its status, however requests race, unless an UPDATE has put the history of
\* one transaction beside the status of another (_transition writes the two
\* together; the SET list of update() may hold one of them alone).
THEOREM AuditTrailIsAPath == OverlapSpec => []HistoryExplainsStatus
<1>1. OverlapInit => TrailInv
  BY DEF OverlapInit, Init, TrailInv, Copies, NothingHeld
<1>2. OverlapInv /\ TrailInv /\ [OverlapNext]_ovars => TrailInv'
  BY TrailNext DEF OverlapInv, ApprovalInv
<1>3. TrailInv => HistoryExplainsStatus
  BY DEF TrailInv, Copies, Explained, HistoryExplainsStatus
<1>. QED
  BY <1>1, <1>2, <1>3, OverlapInvariant, PTL DEF OverlapSpec

(***************************************************************************)
(* Duplicates.                                                             *)
(***************************************************************************)

\* What a commit of s, but for a lost update, leaves active was active before,
\* of the same customer, resource and slot, unless it is the new request.
LEMMA ActiveBefore ==
  ASSUME TypeInv, VersionsInv, NEW s \in Sessions, Commit(s),
         NEW b \in BookingIds, bookings'[b] # NoRow,
         IsActive(bookings'[b].status), ~Overwrites(s, b)
  PROVE  \/ /\ bookings[b] # NoRow /\ IsActive(bookings[b].status)
            /\ Kin(bookings'[b], bookings[b])
         \/ /\ op[s].booking = b /\ op[s].kind = "request"
            /\ ActiveByCustomer(bookings'[b].customer, bookings'[b].resource,
                                bookings'[b].slot) \subseteq outdated[s]
<1>1. CASE bookings'[b] = bookings[b]
  BY <1>1 DEF Kin
<1>2. CASE /\ bookings[b] # NoRow /\ bookings[b] \in BookingRow
           /\ Successor(bookings'[b], bookings[b])
  BY <1>2, SuccessorFacts
<1>. QED
  BY <1>1, <1>2, CommitVersions

LEMMA NewDuplicate ==
  ASSUME TypeInv, TypeOK', VersionsInv, NEW s \in Sessions, Commit(s),
         NEW b \in BookingIds, NEW c \in BookingIds,
         Duplicates(b, c)', ~Duplicates(b, c),
         ~Overwrites(s, b), ~Overwrites(s, c)
  PROVE  /\ op[s].kind = "request"
         /\ \/ op[s].booking = b /\ c \in outdated[s]
            \/ op[s].booking = c /\ b \in outdated[s]
<1>1. /\ b # c /\ bookings'[b] # NoRow /\ bookings'[c] # NoRow
      /\ IsActive(bookings'[b].status) /\ IsActive(bookings'[c].status)
      /\ bookings'[b].customer = bookings'[c].customer
      /\ bookings'[b].resource = bookings'[c].resource
      /\ SharedTime(bookings'[b].slot, bookings'[c].slot) # {}
  BY DEF Duplicates, IsActive
<1>2. bookings'[b].slot \in Slots /\ bookings'[c].slot \in Slots
  BY <1>1 DEF TypeOK, BookingRow
<1>3. /\ Overlaps(bookings'[b].slot, bookings'[c].slot)
      /\ Overlaps(bookings'[c].slot, bookings'[b].slot)
  <2>1. Overlaps(bookings'[b].slot, bookings'[c].slot)
    BY <1>1, <1>2, DisjointSlots
  <2>. QED
    BY <2>1 DEF Overlaps
<1>4. \/ /\ bookings[b] # NoRow /\ IsActive(bookings[b].status)
         /\ Kin(bookings'[b], bookings[b])
      \/ /\ op[s].booking = b /\ op[s].kind = "request"
         /\ ActiveByCustomer(bookings'[b].customer, bookings'[b].resource,
                             bookings'[b].slot) \subseteq outdated[s]
  BY <1>1, ActiveBefore
<1>5. \/ /\ bookings[c] # NoRow /\ IsActive(bookings[c].status)
         /\ Kin(bookings'[c], bookings[c])
      \/ /\ op[s].booking = c /\ op[s].kind = "request"
         /\ ActiveByCustomer(bookings'[c].customer, bookings'[c].resource,
                             bookings'[c].slot) \subseteq outdated[s]
  BY <1>1, ActiveBefore
<1>6. CASE op[s].booking = b /\ ~(op[s].booking = c)
  <2>1. /\ bookings[c] # NoRow /\ IsActive(bookings[c].status)
        /\ Kin(bookings'[c], bookings[c])
    BY <1>5, <1>6
  <2>2. CASE bookings[b] # NoRow /\ IsActive(bookings[b].status)
             /\ Kin(bookings'[b], bookings[b])
    BY <1>1, <2>1, <2>2 DEF Duplicates, Kin, IsActive
  <2>3. c \in ActiveByCustomer(bookings'[b].customer, bookings'[b].resource,
                               bookings'[b].slot)
    BY <1>1, <1>3, <2>1 DEF ActiveByCustomer, Kin
  <2>. QED
    BY <1>4, <1>6, <2>2, <2>3
<1>7. CASE op[s].booking = c /\ ~(op[s].booking = b)
  <2>1. /\ bookings[b] # NoRow /\ IsActive(bookings[b].status)
        /\ Kin(bookings'[b], bookings[b])
    BY <1>4, <1>7
  <2>2. CASE bookings[c] # NoRow /\ IsActive(bookings[c].status)
             /\ Kin(bookings'[c], bookings[c])
    BY <1>1, <2>1, <2>2 DEF Duplicates, Kin, IsActive
  <2>3. b \in ActiveByCustomer(bookings'[c].customer, bookings'[c].resource,
                               bookings'[c].slot)
    BY <1>1, <1>3, <2>1 DEF ActiveByCustomer, Kin
  <2>. QED
    BY <1>5, <1>7, <2>2, <2>3
<1>8. CASE op[s].booking # b /\ op[s].booking # c
  BY <1>1, <1>4, <1>5, <1>8 DEF Duplicates, Kin, IsActive
<1>. QED
  BY <1>1, <1>6, <1>7, <1>8

\* However requests race, two active bookings of a customer come to overlap on
\* a resource only by a request that commits beside one committed after its
\* look for duplicates, or by a lost update (request_booking.py step 6).
THEOREM RequestsAreDeduplicated == OverlapSpec => DuplicatesOverlap
<1>1. OverlapInv /\ [OverlapNext]_ovars =>
        [\A b, c \in BookingIds :
           Duplicates(b, c)' /\ ~Duplicates(b, c) =>
             \E s \in Sessions :
               \/ Overwrites(s, b) \/ Overwrites(s, c)
               \/ /\ Commit(s) /\ op[s].kind = "request"
                  /\ \/ op[s].booking = b /\ c \in outdated[s]
                     \/ op[s].booking = c /\ b \in outdated[s]]_ovars
  <2>1. ASSUME OverlapInv, [OverlapNext]_ovars,
               NEW b \in BookingIds, NEW c \in BookingIds,
               Duplicates(b, c)', ~Duplicates(b, c)
        PROVE  \E s \in Sessions :
                 \/ Overwrites(s, b) \/ Overwrites(s, c)
                 \/ /\ Commit(s) /\ op[s].kind = "request"
                    /\ \/ op[s].booking = b /\ c \in outdated[s]
                       \/ op[s].booking = c /\ b \in outdated[s]
    <3>1. TypeInv /\ VersionsInv /\ [Next]_vars
      BY <2>1 DEF OverlapInv, OverlapNext, ovars
    <3>2. TypeOK'
      BY <3>1, NextTypeInv DEF TypeInv
    <3>3. bookings' # bookings
      BY <2>1 DEF Duplicates
    <3>4. PICK s \in Sessions : Commit(s)
      BY <3>1, <3>3, OnlyCommitWrites DEF tables
    <3>. QED
      BY <2>1, <3>1, <3>2, <3>4, NewDuplicate
  <2>. QED
    BY <2>1
<1>. QED
  BY <1>1, OverlapInvariant, PTL DEF OverlapSpec, DuplicatesOverlap

(***************************************************************************)
(* Rejections.                                                             *)
(***************************************************************************)

\* No customer has been told that b is rejected.
Unrejected(b) ==
  \A n \in Notice : n.kind = "REJECTED" /\ n.booking = b => inbox[n] = 0

\* A rejection is told with the version that carries it out, and of a booking
\* that still waits for a decision nobody has been told one.
RejectionsOf(s) ==
  \A n \in outbox[s] :
    n.kind = "REJECTED" =>
      /\ pc[s] \notin Early
      /\ bookings[n.booking] # NoRow
      /\ staged[s][n.booking] # NoRow \/ draft[s][n.booking] # NoRow
      /\ n.booking \notin outdated[s] =>
           \A row \in {staged[s][n.booking], draft[s][n.booking]} \ {NoRow} :
             row.status \in {"REJECTED", "EXPIRED"}

RejectionInv ==
  /\ \A s \in Sessions : RejectionsOf(s)
  /\ \A b \in BookingIds :
       bookings[b] = NoRow \/ bookings[b].status = "PENDING" => Unrejected(b)

LEMMA OthersRejections ==
  ASSUME TypeOK, RejectionInv, Record, NEW s \in Sessions, Aside(s),
         UNCHANGED bookings \/ Commit(s), NEW u \in Sessions \ {s}
  PROVE  RejectionsOf(u)'
<1>1. /\ pc'[u] = pc[u] /\ staged'[u] = staged[u] /\ draft'[u] = draft[u]
      /\ outbox'[u] = outbox[u]
  BY DEF Aside
<1>2. RejectionsOf(u)
  BY DEF RejectionInv
<1>3. \A b \in BookingIds : bookings[b] # NoRow => bookings'[b] # NoRow
  BY DEF Commit
<1>4. \A n \in outbox[u] : n.booking \in BookingIds
  BY DEF TypeOK, Notice
<1>5. CASE pc[u] \in Early
  BY <1>1, <1>2, <1>5 DEF RejectionsOf
<1>6. CASE pc[u] \notin Early
  <2>1. outdated[u] \subseteq outdated'[u]
    BY <1>1, <1>6, OthersRecord DEF Early, Unread
  <2>. QED
    BY <1>1, <1>2, <1>3, <1>4, <2>1 DEF RejectionsOf
<1>. QED
  BY <1>5, <1>6

\* A step that commits nothing.
LEMMA SameRejections ==
  ASSUME TypeOK, RejectionInv, Record, NEW s \in Sessions, Aside(s),
         UNCHANGED <<bookings, inbox>>, RejectionsOf(s)'
  PROVE  RejectionInv'
<1>1. \A u \in Sessions : RejectionsOf(u)'
  BY OthersRejections
<1>2. \A b \in BookingIds :
        bookings'[b] = NoRow \/ bookings'[b].status = "PENDING" => Unrejected(b)'
  BY DEF RejectionInv, Unrejected
<1>. QED
  BY <1>1, <1>2 DEF RejectionInv

\* A step after which s tells nobody of a rejection.
LEMMA NoRejection ==
  ASSUME TypeOK, RejectionInv, Record, NEW s \in Sessions, Aside(s),
         UNCHANGED <<bookings, inbox>>,
         \A n \in outbox'[s] : n.kind # "REJECTED"
  PROVE  RejectionInv'
<1>1. RejectionsOf(s)'
  BY DEF RejectionsOf
<1>. QED
  BY <1>1, SameRejections

\* A handler that stages the rejection, or the expiry, of the bookings in B and
\* tells of no other.
LEMMA StagingRejection ==
  ASSUME TypeOK, VersionsInv, RejectionInv, Record, NEW s \in Sessions, Aside(s),
         UNCHANGED <<bookings, inbox>>,
         NEW B \in SUBSET BookingIds, \A b \in B : bookings[b] # NoRow,
         NEW to \in {"REJECTED", "EXPIRED"}, NEW role \in Roles,
         NEW reason \in Reasons,
         pc[s] \in Early, pc'[s] \notin Early, UNCHANGED draft,
         \A b \in B : staged'[s][b] = Moved(B, to, role, reason)[b],
         \A n \in outbox'[s] : n.kind = "REJECTED" => n.booking \in B
  PROVE  RejectionInv'
<1>1. ASSUME NEW b \in B
      PROVE  /\ staged'[s][b] # NoRow /\ staged'[s][b].status = to
             /\ draft'[s][b] = NoRow
  <2>1. Moved(B, to, role, reason)[b] \in BookingRow
    BY MovedType DEF Statuses
  <2>2. Moved(B, to, role, reason)[b] # NoRow
    BY <2>1, NoRowAssumption
  <2>3. Moved(B, to, role, reason)[b].status = to
    BY <2>2, MovedKin
  <2>4. draft[s][b] = NoRow
    BY DEF VersionsInv, VersionsOf
  <2>. QED
    BY <2>2, <2>3, <2>4
<1>2. RejectionsOf(s)'
  BY <1>1 DEF RejectionsOf
<1>. QED
  BY <1>2, SameRejections

LEMMA BeginRejection ==
  ASSUME TypeInv, VersionsInv, RejectionInv, Record, NEW s \in Sessions, Begin(s)
  PROVE  RejectionInv'
<1>. USE DEF tables, updating
<1>1. /\ TypeOK /\ UNCHANGED <<bookings, inbox, draft>> /\ pc[s] = "idle"
      /\ Aside(s) /\ \A n \in outbox[s] : n.kind # "REJECTED"
  BY BeginAlone DEF TypeInv, RejectionInv, RejectionsOf, Early
<1>2. ASSUME NEW b \in BookingIds, LoadForReject(s, b)
      PROVE  RejectionInv'
  <2>. DEFINE notes == {Tell(bookings[b].customer, "REJECTED", b)}
  <2>1. /\ bookings[b] # NoRow
        /\ staged'[s] = Moved({b}, "REJECTED", "OWNER", "given")
        /\ outbox'[s] = notes /\ pc'[s] = "write"
    BY <1>1, <1>2 DEF LoadForReject, Serve, TypeOK
  <2>2. /\ {b} \in SUBSET BookingIds /\ \A c \in {b} : bookings[c] # NoRow
        /\ \A n \in notes : n.booking \in {b}
    BY <2>1 DEF Tell
  <2>. HIDE DEF notes
  <2>. QED
    BY <1>1, <2>1, <2>2, StagingRejection DEF Roles, Reasons, Early
<1>3. ASSUME NEW b \in BookingIds, NEW u \in Users, LoadForCancel(s, b, u)
      PROVE  RejectionInv'
  <2>1. PICK v : outbox' = [outbox EXCEPT ![s] = {Tell(v, "CANCELLED", b)}]
    BY <1>3 DEF LoadForCancel
  <2>2. \A n \in outbox'[s] : n.kind = "CANCELLED"
    BY <1>1, <2>1 DEF Tell, TypeOK
  <2>. QED
    BY <1>1, <2>2, NoRejection
<1>4. CASE ListOverdue(s)
  <2>. DEFINE found == PendingStartedBefore(clock)
              notes == {Tell(bookings[b].customer, "REJECTED", b) : b \in found}
  <2>1. /\ found \in SUBSET BookingIds /\ \A b \in found : bookings[b] # NoRow
        /\ staged'[s] = Moved(found, "EXPIRED", "CUSTOMER", "slot_passed")
        /\ outbox'[s] = notes /\ pc'[s] = "write"
    BY <1>1, <1>4 DEF ListOverdue, PendingStartedBefore, Serve, TypeOK
  <2>2. \A n \in notes : n.booking \in found
    BY DEF Tell
  <2>. HIDE DEF found, notes
  <2>. QED
    BY <1>1, <2>1, <2>2, StagingRejection DEF Roles, Reasons, Early
<1>5. CASE \/ \E c \in Users, r \in Resources, x \in Slots, b \in BookingIds :
                LoadForRequest(s, c, r, x, b)
           \/ \E b \in BookingIds : LoadForApprove(s, b)
           \/ \E r \in Resources : LoadForDelete(s, r)
           \/ \E r \in Resources, p \in BOOLEAN : LoadForPublish(s, r, p)
  <2>1. outbox' = outbox
    BY <1>5 DEF LoadForRequest, LoadForApprove, LoadForDelete, LoadForPublish
  <2>. QED
    BY <1>1, <2>1, NoRejection
<1>. QED
  BY <1>2, <1>3, <1>4, <1>5 DEF Begin

\* A commit that tells of a rejection decides the booking, or overwrites it.
LEMMA CommitRejects ==
  ASSUME TypeInv, VersionsInv, RejectionInv, NEW s \in Sessions, Commit(s),
         NEW n \in outbox[s], n.kind = "REJECTED"
  PROVE  /\ n.booking \in BookingIds /\ bookings[n.booking] # NoRow
         /\ draft[s][n.booking] # NoRow
         /\ bookings[n.booking].status = "PENDING" \/ Overwrites(s, n.booking)
<1>. DEFINE b == n.booking
<1>1. TypeOK /\ VersionsOf(s) /\ RejectionsOf(s) /\ pc[s] = "commit"
  BY DEF TypeInv, VersionsInv, RejectionInv, Commit
<1>2. b \in BookingIds
  BY <1>1 DEF TypeOK, Notice
<1>3. staged[s][b] = NoRow
  BY <1>1, <1>2 DEF VersionsOf
<1>4. /\ bookings[b] # NoRow /\ draft[s][b] # NoRow
      /\ b \notin outdated[s] => draft[s][b].status \in {"REJECTED", "EXPIRED"}
  BY <1>1, <1>3 DEF RejectionsOf
<1>. HIDE DEF b
<1>5. bookings[b] \in BookingRow
  BY <1>1, <1>2, <1>4 DEF TypeOK
<1>6. ASSUME b \notin outdated[s]
      PROVE  bookings[b].status = "PENDING"
  <2>1. Successor(draft[s][b], bookings[b])
    BY <1>1, <1>2, <1>4, <1>6 DEF VersionsOf
  <2>2. IsValidTransition(bookings[b].status, draft[s][b].status)
    BY <1>5, <2>1, SuccessorFacts
  <2>. QED
    BY <1>4, <1>6, <2>2 DEF IsValidTransition
<1>. QED
  BY <1>2, <1>4, <1>6 DEF b, Overwrites

LEMMA CommitRejection ==
  ASSUME TypeInv, RowInv, VersionsInv, RejectionInv, Record, NEW s \in Sessions,
         Commit(s)
  PROVE  RejectionInv'
<1>1. TypeOK
  BY DEF TypeInv
<1>2. /\ Release(s) /\ Aside(s) /\ outbox'[s] = {}
      /\ \A n \in Notice :
           inbox'[n] = IF n \in outbox[s] THEN inbox[n] + 1 ELSE inbox[n]
  BY <1>1, ReleaseVersions DEF Commit
<1>3. \A u \in Sessions : RejectionsOf(u)'
  BY <1>1, <1>2, OthersRejections DEF RejectionsOf
<1>4. ASSUME NEW b \in BookingIds,
             bookings'[b] = NoRow \/ bookings'[b].status = "PENDING"
      PROVE  Unrejected(b)'
  <2>1. bookings'[b] = IF draft[s][b] = NoRow THEN bookings[b] ELSE draft[s][b]
    BY DEF Commit
  <2>2. bookings[b] = NoRow \/ draft[s][b] = NoRow
    BY <1>4, <2>1 DEF RowInv
  <2>3. bookings[b] = NoRow \/ bookings[b].status = "PENDING"
    BY <1>4, <2>1, <2>2
  <2>4. Unrejected(b)
    BY <2>3 DEF RejectionInv
  <2>5. \A n \in outbox[s] : n.kind = "REJECTED" => n.booking # b
    BY <2>2, CommitRejects
  <2>. QED
    BY <1>2, <2>4, <2>5 DEF Unrejected
<1>. QED
  BY <1>3, <1>4 DEF RejectionInv

LEMMA ProceedRejection ==
  ASSUME TypeInv, RowInv, VersionsInv, RejectionInv, Record, NEW s \in Sessions,
         Proceed(s)
  PROVE  RejectionInv'
<1>. USE DEF tables, updating
<1>1. TypeOK /\ VersionsOf(s) /\ RejectionsOf(s) /\ Aside(s)
  BY ProceedAside DEF TypeInv, VersionsInv, RejectionInv
<1>2. CASE AddBooking(s)
  <2>1. /\ UNCHANGED <<bookings, inbox>>
        /\ outbox'[s] = {Tell(OwnerOf[op[s].resource], "REQUESTED", op[s].booking)}
    BY <1>1, <1>2 DEF AddBooking, TypeOK
  <2>. QED
    BY <1>1, <2>1, NoRejection DEF Tell
<1>3. CASE Refetch(s) \/ AcquireLock(s)
  <2>1. UNCHANGED <<bookings, inbox, outbox>> /\ pc[s] \in Early
    BY <1>3 DEF Refetch, AcquireLock, Early
  <2>2. \A n \in outbox'[s] : n.kind # "REJECTED"
    BY <1>1, <2>1 DEF RejectionsOf
  <2>. QED
    BY <1>1, <2>1, <2>2, NoRejection
<1>4. CASE ListCompetitors(s)
  <2>. DEFINE b == op[s].booking
              target == staged[s][b]
              losers == PendingOverlapping(target.resource, target.slot, b)
              moved == Moved(losers, "REJECTED", "OWNER", "auto_rejected")
              notes == {Tell(target.customer, "APPROVED", b)} \cup
                       {Tell(bookings[c].customer, "REJECTED", c) : c \in losers}
  <2>1. /\ UNCHANGED <<bookings, inbox, draft>>
        /\ pc[s] = "competitors" /\ pc' = [pc EXCEPT ![s] = "write"]
        /\ staged' = [staged EXCEPT ![s] = [moved EXCEPT ![b] = target]]
        /\ outbox' = [outbox EXCEPT ![s] = notes]
    BY <1>4 DEF ListCompetitors
  <2>2. /\ losers \in SUBSET BookingIds /\ b \notin losers
        /\ \A c \in losers : bookings[c] # NoRow
    BY DEF PendingOverlapping, PendingFor
  <2>3. \A n \in notes : n.kind = "REJECTED" => n.booking \in losers
    BY DEF Tell
  <2>4. DOMAIN moved = BookingIds
    BY DEF Moved
  <2>. HIDE DEF losers, notes, target, b
  <2>5. \A c \in losers : staged'[s][c] = moved[c]
    <3>. HIDE DEF moved
    <3>. QED
      BY <1>1, <2>1, <2>2, <2>4 DEF TypeOK
  <2>6. outbox'[s] = notes /\ pc'[s] = "write"
    BY <1>1, <2>1 DEF TypeOK
  <2>. QED
    BY <1>1, <2>1, <2>2, <2>3, <2>5, <2>6, StagingRejection
    DEF Roles, Reasons, Early
<1>5. CASE ListPendings(s)
  <2>1. /\ UNCHANGED <<bookings, inbox>>
        /\ outbox'[s] = {Tell(bookings[b].customer, "CANCELLED", b) :
                            b \in PendingFor(op[s].resource)}
    BY <1>1, <1>5 DEF ListPendings, TypeOK
  <2>. QED
    BY <1>1, <2>1, NoRejection DEF Tell
<1>6. ASSUME NEW b \in BookingIds, Write(s, b)
      PROVE  RejectionInv'
  <2>1. /\ seen[s][b] # NoRow /\ staged[s][b] # NoRow
        /\ \A n \in outbox[s] : n.booking \in BookingIds
    BY <1>1, <1>6 DEF Write, TypeInv, StepInv, TypeOK, Notice
  <2>2. /\ draft' = [draft EXCEPT ![s][b] = Written(s, b)]
        /\ staged' = [staged EXCEPT ![s][b] = NoRow]
        /\ UNCHANGED <<bookings, inbox, outbox>>
    BY <1>6 DEF Write
  <2>3. \A c \in BookingIds :
          /\ draft'[s][c] = IF c = b THEN Written(s, b) ELSE draft[s][c]
          /\ staged'[s][c] = IF c = b THEN NoRow ELSE staged[s][c]
    BY <1>1, <2>2 DEF TypeOK
  <2>4. pc'[s] \notin Early /\ pc'[s] \notin Unread
    BY <1>1, <1>6 DEF Write, AfterWrites, Early, Unread, TypeOK
  <2>5. outdated[s] \subseteq outdated'[s]
    BY <2>2, <2>3, <2>4, NothingRead
  <2>6. b \notin outdated[s] => Written(s, b) = staged[s][b]
    BY <2>1, WrittenFresh
  <2>7. Written(s, b) # NoRow
    <3>1. bookings[b] # NoRow
      BY <2>1 DEF TypeInv, FreshInv
    <3>. QED
      BY <1>1, <2>1, <3>1, WrittenType, NoRowAssumption
  <2>8. RejectionsOf(s)'
    BY <1>1, <2>1, <2>2, <2>3, <2>4, <2>5, <2>6, <2>7 DEF RejectionsOf
  <2>. QED
    BY <1>1, <2>2, <2>8, SameRejections
<1>7. CASE Commit(s)
  BY <1>7, CommitRejection
<1>8. CASE \/ RefuseDuplicate(s) \/ RefuseDecided(s) \/ JobReturns(s)
           \/ DeadlockAbort(s) \/ \E b \in BookingIds : ExclusionViolation(s, b)
  <2>1. Rollback(s)
    BY <1>8 DEF RefuseDuplicate, RefuseDecided, JobReturns, DeadlockAbort,
                ExclusionViolation
  <2>2. UNCHANGED <<bookings, inbox>> /\ outbox'[s] = {}
    BY <1>1, <2>1 DEF Rollback, Release, TypeOK
  <2>. QED
    BY <1>1, <2>2, NoRejection
<1>9. CASE \/ SelectResource(s) \/ WriteResource(s)
           \/ \E b \in BookingIds : SelectRow(s, b)
  <2>1. /\ UNCHANGED <<bookings, inbox, outbox, staged, draft>>
        /\ pc'[s] \notin Early /\ pc'[s] \notin Unread
    BY <1>1, <1>9 DEF SelectResource, WriteResource, SelectRow, Early, Unread,
                      TypeOK
  <2>2. outdated[s] \subseteq outdated'[s]
    BY <2>1, NothingRead
  <2>3. RejectionsOf(s)'
    BY <1>1, <2>1, <2>2 DEF RejectionsOf
  <2>. QED
    BY <1>1, <2>1, <2>3, SameRejections
<1>. QED
  BY <1>2, <1>3, <1>4, <1>5, <1>6, <1>7, <1>8, <1>9 DEF Proceed

LEMMA RejectionNext ==
  ASSUME TypeInv, RowInv, VersionsInv, RejectionInv, [OverlapNext]_ovars
  PROVE  RejectionInv'
<1>1. CASE UNCHANGED ovars
  BY <1>1 DEF ovars, recorded, vars, tables, session, RejectionInv,
              RejectionsOf, Unrejected
<1>2. CASE Next /\ Record
  <2>1. ASSUME NEW s \in Sessions, Begin(s) \/ Proceed(s)
        PROVE  RejectionInv'
    BY <1>2, <2>1, BeginRejection, ProceedRejection
  <2>2. ASSUME NEW s \in Sessions, Abort(s)
        PROVE  RejectionInv'
    <3>1. UNCHANGED <<bookings, inbox>> /\ outbox'[s] = {} /\ Aside(s) /\ TypeOK
      BY <2>2, ReleaseVersions DEF Abort, Rollback, tables, TypeInv
    <3>. QED
      BY <1>2, <3>1, NoRejection
  <2>3. ASSUME UNCHANGED <<tables, session>>
        PROVE  RejectionInv'
    <3>1. UNCHANGED <<bookings, inbox, pc, op, staged, draft, seen, outbox>>
      BY <2>3 DEF tables, session, updating
    <3>2. ASSUME NEW s \in Sessions
          PROVE  RejectionsOf(s)'
      <4>1. RejectionsOf(s)
        BY DEF RejectionInv
      <4>2. CASE pc[s] \in Early
        BY <3>1, <4>1, <4>2 DEF RejectionsOf
      <4>3. CASE pc[s] \notin Early
        <5>1. outdated[s] \subseteq outdated'[s]
          BY <1>2, <3>1, <4>3, NothingRead DEF Early, Unread
        <5>. QED
          BY <3>1, <4>1, <5>1 DEF RejectionsOf
      <4>. QED
        BY <4>2, <4>3
    <3>. QED
      BY <3>1, <3>2 DEF RejectionInv, Unrejected
  <2>. QED
    BY <1>2, <2>1, <2>2, <2>3 DEF Next, Tick, SetSubscription
<1>. QED
  BY <1>1, <1>2 DEF OverlapNext

LEMMA RejectionInvariant == OverlapSpec => []RejectionInv
<1>1. OverlapInit => RejectionInv
  BY DEF OverlapInit, Init, RejectionInv, RejectionsOf, Unrejected
<1>2. OverlapInv /\ RejectionInv /\ [OverlapNext]_ovars => RejectionInv'
  BY RejectionNext DEF OverlapInv, ApprovalInv
<1>. QED
  BY <1>1, <1>2, OverlapInvariant, PTL DEF OverlapSpec

\* However rejects, approvals and the job race, a customer who has been told of
\* a rejection is told of it again only by a lost update.
THEOREM RejectedTwiceByOverwriting == OverlapSpec => RejectedOnce
<1>1. OverlapInv /\ RejectionInv /\ [OverlapNext]_ovars =>
        [\A n \in Notice :
           n.kind = "REJECTED" /\ 1 <= inbox[n] /\ inbox[n] < inbox'[n]
             => \E s \in Sessions : Overwrites(s, n.booking)]_ovars
  <2>1. ASSUME OverlapInv, RejectionInv, [OverlapNext]_ovars, NEW n \in Notice,
               n.kind = "REJECTED", 1 <= inbox[n], inbox[n] < inbox'[n]
        PROVE  \E s \in Sessions : Overwrites(s, n.booking)
    <3>1. /\ TypeInv /\ VersionsInv /\ [Next]_vars /\ inbox[n] \in Nat
      BY <2>1 DEF OverlapInv, TypeInv, TypeOK, OverlapNext, ovars
    <3>2. inbox' # inbox
      BY <2>1, <3>1
    <3>3. PICK s \in Sessions : Commit(s)
      BY <3>1, <3>2, OnlyCommitWrites DEF tables
    <3>4. n \in outbox[s]
      BY <2>1, <3>1, <3>3 DEF Commit
    <3>5. \/ bookings[n.booking].status = "PENDING" /\ n.booking \in BookingIds
          \/ Overwrites(s, n.booking)
      BY <2>1, <3>1, <3>3, <3>4, CommitRejects
    <3>6. ~(bookings[n.booking].status = "PENDING" /\ n.booking \in BookingIds)
      BY <2>1, <3>1 DEF RejectionInv, Unrejected
    <3>. QED
      BY <3>5, <3>6
  <2>. QED
    BY <2>1
<1>. QED
  BY <1>1, OverlapInvariant, RejectionInvariant, PTL DEF OverlapSpec, RejectedOnce

(***************************************************************************)
(* Deletions.                                                              *)
(***************************************************************************)

\* A row is changed by one open transaction at a time (row locks).
Unshared ==
  /\ \A s, u \in Sessions, b \in BookingIds :
       draft[s][b] # NoRow /\ draft[u][b] # NoRow => s = u
  /\ \A s, u \in Sessions :
       /\ resDraft[s] # NoRow /\ resDraft[u] # NoRow
       /\ op[s].resource = op[u].resource
       => s = u

\* The command of a session at each of its steps, and what it makes of the
\* resource: a request or an approval works on a resource that is deleted only
\* if that has happened since it began, and publishing deletes nothing.
CommandOf(s) ==
  /\ pc[s] = "idle" => resDraft[s] = NoRow
  /\ pc[s] = "pendings" => op[s].kind = "delete"
  /\ pc[s] = "resource" => op[s].kind \in {"delete", "publish"}
  /\ op[s].kind \notin {"delete", "publish"} => resDraft[s] = NoRow
  /\ op[s].kind = "delete" => pc[s] \notin Unread
  /\ op[s].kind \in {"request", "approve"} /\ pc[s] # "idle" =>
       /\ op[s].resource \in Resources
       /\ ~resources[op[s].resource].deleted \/ op[s].resource \in gone[s]
  /\ op[s].kind = "publish" =>
       /\ op[s].resource \in Resources
       /\ ~resStaged[s].deleted
       /\ resDraft[s] # NoRow /\ resDraft[s].deleted =>
            resources[op[s].resource].deleted

\* Only a request and an approval leave a booking active, on a resource of
\* their own: but for an update() that leaves the status as the row has it.
RowsOf(s) ==
  \A b \in BookingIds :
    /\ staged[s][b] # NoRow /\ IsActive(staged[s][b].status) =>
         /\ op[s].kind \in {"request", "approve"}
         /\ staged[s][b].resource = op[s].resource
    /\ draft[s][b] # NoRow /\ IsActive(draft[s][b].status) =>
         \/ /\ op[s].kind \in {"request", "approve"}
            /\ draft[s][b].resource = op[s].resource
         \/ bookings[b] # NoRow /\ draft[s][b].status = bookings[b].status

\* A deletion has found no approved booking ahead and has an end for every
\* request, but for those that were committed since it looked for them.
ClearedOf(s) ==
  op[s].kind = "delete" =>
    /\ ApprovedStartingFrom(op[s].resource, clock) \subseteq outdated[s]
    /\ pc[s] # "pendings" =>
         \A b \in PendingFor(op[s].resource) :
           staged[s][b] # NoRow \/ draft[s][b] # NoRow \/ b \in outdated[s]

ClearanceOf(s) == CommandOf(s) /\ RowsOf(s) /\ ClearedOf(s)

ClearanceInv == Unshared /\ \A s \in Sessions : ClearanceOf(s)

\* What a step of s leaves to the others, the resources they work on included.
Apiece(s) ==
  /\ Aside(s)
  /\ \A u \in Sessions \ {s} :
       resStaged'[u] = resStaged[u] /\ resDraft'[u] = resDraft[u]

LEMMA StepApiece ==
  ASSUME TypeInv, VersionsInv, NEW s \in Sessions,
         Begin(s) \/ Proceed(s) \/ Abort(s)
  PROVE  Apiece(s)
<1>. USE DEF tables, updating
<1>1. TypeOK
  BY DEF TypeInv
<1>2. CASE Release(s)
  BY <1>1, <1>2, ReleaseVersions DEF Apiece, Release, TypeOK
<1>3. CASE Begin(s)
  <2>1. Aside(s)
    BY <1>3, BeginAlone
  <2>2. resDraft' = resDraft /\ (resStaged' = resStaged
          \/ \E x : resStaged' = [resStaged EXCEPT ![s] = x])
    BY <1>3 DEF Begin, LoadForRequest, LoadForApprove, LoadForReject,
                LoadForCancel, LoadForDelete, LoadForPublish, ListOverdue
  <2>. QED
    BY <1>1, <2>1, <2>2 DEF Apiece, TypeOK
<1>4. CASE Proceed(s) /\ ~Release(s)
  <2>1. Aside(s)
    BY <1>1, <1>4, ProceedAside
  <2>2. UNCHANGED resStaged
    BY <1>4 DEF Proceed, AddBooking, AcquireLock, Refetch, ListCompetitors,
                ListPendings, SelectRow, Write, SelectResource, WriteResource,
                RefuseDuplicate, RefuseDecided, ExclusionViolation, JobReturns,
                DeadlockAbort, Rollback, Commit
  <2>3. resDraft' = resDraft \/ \E x : resDraft' = [resDraft EXCEPT ![s] = x]
    BY <1>4 DEF Proceed, AddBooking, AcquireLock, Refetch, ListCompetitors,
                ListPendings, SelectRow, Write, SelectResource, WriteResource,
                RefuseDuplicate, RefuseDecided, ExclusionViolation, JobReturns,
                DeadlockAbort, Rollback, Commit
  <2>. QED
    BY <1>1, <2>1, <2>2, <2>3 DEF Apiece, TypeOK
<1>. QED
  BY <1>2, <1>3, <1>4 DEF Abort, Rollback

\* Time does not go back.
LEMMA ClockGrows ==
  ASSUME [Next]_vars
  PROVE  \/ clock' = clock
         \/ /\ clock' = clock + 1
            /\ UNCHANGED <<tables, session>>
<1>1. ASSUME NEW s \in Sessions, Begin(s) \/ Abort(s)
      PROVE  clock' = clock
  BY <1>1 DEF Begin, LoadForRequest, LoadForApprove, LoadForReject,
              LoadForCancel, LoadForDelete, LoadForPublish, ListOverdue, Abort,
              Rollback
<1>2. ASSUME NEW s \in Sessions, Proceed(s)
      PROVE  clock' = clock
  BY <1>2 DEF Proceed, RefuseDuplicate, AddBooking, AcquireLock, RefuseDecided,
              Refetch, ListCompetitors, ListPendings, ExclusionViolation,
              SelectRow, Write, SelectResource, WriteResource, Commit,
              JobReturns, DeadlockAbort, Rollback
<1>. QED
  BY <1>1, <1>2 DEF Next, Tick, SetSubscription, vars

\* A session other than the one that takes a step.
LEMMA OthersClearance ==
  ASSUME TypeInv, ClearanceInv, Record, NEW s \in Sessions, Apiece(s),
         UNCHANGED clock, UNCHANGED <<bookings, resources>> \/ Commit(s),
         NEW u \in Sessions \ {s}
  PROVE  ClearanceOf(u)'
<1>1. /\ pc'[u] = pc[u] /\ op'[u] = op[u] /\ staged'[u] = staged[u]
      /\ draft'[u] = draft[u] /\ resStaged'[u] = resStaged[u]
      /\ resDraft'[u] = resDraft[u]
  BY DEF Apiece, Aside
<1>2. CommandOf(u) /\ RowsOf(u) /\ ClearedOf(u) /\ Unshared
  BY DEF ClearanceInv, ClearanceOf
<1>3. CommandOf(u)'
  <2>1. ASSUME op[u].kind \in {"request", "approve"}, pc[u] # "idle"
        PROVE  /\ op[u].resource \in Resources
               /\ \/ ~resources'[op[u].resource].deleted
                  \/ op[u].resource \in gone'[u]
    <3>1. gone'[u] = gone[u] \cup Deleted
      BY <1>1, <2>1 DEF Record
    <3>. QED
      BY <1>2, <2>1, <3>1 DEF CommandOf, Deleted
  <2>2. ASSUME op[u].kind = "publish"
        PROVE  /\ op[u].resource \in Resources /\ ~resStaged[u].deleted
               /\ resDraft[u] # NoRow /\ resDraft[u].deleted =>
                    resources'[op[u].resource].deleted
    <3>1. /\ op[u].resource \in Resources /\ ~resStaged[u].deleted
          /\ resDraft[u] # NoRow /\ resDraft[u].deleted =>
               resources[op[u].resource].deleted
      BY <1>2, <2>2 DEF CommandOf
    <3>2. resDraft[u] # NoRow => \/ resDraft[s] = NoRow
                                 \/ op[u].resource # op[s].resource
      BY <1>2 DEF Unshared
    <3>3. resDraft[u] # NoRow =>
            resources'[op[u].resource] = resources[op[u].resource]
      BY <3>1, <3>2 DEF Commit
    <3>. QED
      BY <3>1, <3>3
  <2>. QED
    BY <1>1, <1>2, <2>1, <2>2 DEF CommandOf
<1>4. RowsOf(u)'
  <2>1. ASSUME NEW b \in BookingIds, draft[u][b] # NoRow
        PROVE  bookings'[b] = bookings[b]
    <3>1. draft[s][b] = NoRow
      BY <1>2, <2>1 DEF Unshared
    <3>. QED
      BY <3>1 DEF Commit
  <2>. QED
    BY <1>1, <1>2, <2>1 DEF RowsOf
<1>5. ClearedOf(u)'
  <2>1. CASE op[u].kind # "delete"
    BY <1>1, <2>1 DEF ClearedOf
  <2>2. CASE op[u].kind = "delete"
    <3>1. pc[u] \notin Unread
      BY <1>2, <2>2 DEF CommandOf
    <3>2. /\ outdated[u] \subseteq outdated'[u]
          /\ \A b \in BookingIds \ outdated'[u] :
               b \notin outdated[u] /\ bookings'[b] = bookings[b]
      BY <1>1, <3>1, OthersRecord
    <3>3. ApprovedStartingFrom(op[u].resource, clock)' \subseteq outdated'[u]
      BY <1>1, <1>2, <2>2, <3>2 DEF ClearedOf, ApprovedStartingFrom
    <3>4. pc[u] # "pendings" =>
            \A b \in PendingFor(op[u].resource)' :
              staged[u][b] # NoRow \/ draft[u][b] # NoRow \/ b \in outdated'[u]
      BY <1>1, <1>2, <2>2, <3>2 DEF ClearedOf, PendingFor
    <3>. QED
      BY <1>1, <3>3, <3>4 DEF ClearedOf
  <2>. QED
    BY <2>1, <2>2
<1>. QED
  BY <1>3, <1>4, <1>5 DEF ClearanceOf

\* A step of s, told by what it does to the rows and the command of s.
LEMMA StepClearance ==
  ASSUME TypeInv, ClearanceInv, Record, NEW s \in Sessions, Apiece(s),
         UNCHANGED clock, UNCHANGED <<bookings, resources>> \/ Commit(s),
         \A u \in Sessions \ {s}, b \in BookingIds :
           draft'[s][b] # NoRow => draft[s][b] # NoRow \/ draft[u][b] = NoRow,
         \A u \in Sessions \ {s} :
           resDraft'[s] # NoRow =>
             \/ resDraft[s] # NoRow /\ op'[s] = op[s]
             \/ resDraft[u] = NoRow
             \/ op[u].resource # op'[s].resource,
         ClearanceOf(s)'
  PROVE  ClearanceInv'
<1>1. \A u \in Sessions : ClearanceOf(u)'
  BY OthersClearance
<1>2. \A u \in Sessions \ {s} :
        op'[u] = op[u] /\ draft'[u] = draft[u] /\ resDraft'[u] = resDraft[u]
  BY DEF Apiece, Aside
<1>3. Unshared
  BY DEF ClearanceInv
<1>4. \A v, u \in Sessions, b \in BookingIds :
        draft'[v][b] # NoRow /\ draft'[u][b] # NoRow => v = u
  <2>1. \A u \in Sessions \ {s}, b \in BookingIds :
          draft'[s][b] # NoRow => draft'[u][b] = NoRow
    BY <1>2, <1>3 DEF Unshared
  <2>. QED
    BY <1>2, <1>3, <2>1 DEF Unshared
<1>5. \A v, u \in Sessions :
        /\ resDraft'[v] # NoRow /\ resDraft'[u] # NoRow
        /\ op'[v].resource = op'[u].resource
        => v = u
  <2>1. \A u \in Sessions \ {s} :
          resDraft'[s] # NoRow =>
            resDraft'[u] = NoRow \/ op'[u].resource # op'[s].resource
    BY <1>2, <1>3 DEF Unshared
  <2>. QED
    BY <1>2, <1>3, <2>1 DEF Unshared
<1>. QED
  BY <1>1, <1>4, <1>5 DEF ClearanceInv, Unshared

\* A step of s that commits nothing and goes on with the command and with the
\* rows of bookings as they are.
LEMMA GoOn ==
  ASSUME TypeInv, ClearanceInv, Record, NEW s \in Sessions, Apiece(s),
         UNCHANGED <<clock, bookings, resources>>,
         op'[s] = op[s], draft'[s] = draft[s],
         resDraft'[s] = resDraft[s], ClearanceOf(s)'
  PROVE  ClearanceInv'
<1>1. \A u \in Sessions \ {s}, b \in BookingIds :
        draft'[s][b] # NoRow => draft[s][b] # NoRow \/ draft[u][b] = NoRow
  OBVIOUS
<1>. QED
  BY <1>1, StepClearance

\* A transaction that is over.
LEMMA ReleaseClearance ==
  ASSUME TypeInv, ClearanceInv, Record, NEW s \in Sessions, Apiece(s),
         Release(s), UNCHANGED clock,
         UNCHANGED <<bookings, resources>> \/ Commit(s)
  PROVE  ClearanceInv'
<1>1. /\ pc'[s] = "idle" /\ resDraft'[s] = NoRow /\ op'[s].kind = "request"
      /\ \A b \in BookingIds : staged'[s][b] = NoRow /\ draft'[s][b] = NoRow
  BY DEF Release, TypeInv, TypeOK, NothingHeld, NoOp, Command
<1>2. ClearanceOf(s)'
  BY <1>1 DEF ClearanceOf, CommandOf, RowsOf, ClearedOf
<1>. QED
  BY <1>1, <1>2, StepClearance

LEMMA BeginClearance ==
  ASSUME TypeInv, VersionsInv, ClearanceInv, Record, NEW s \in Sessions, Begin(s)
  PROVE  ClearanceInv'
<1>. USE DEF tables, updating
<1>1. TypeOK /\ CommandOf(s)
  BY DEF TypeInv, ClearanceInv, ClearanceOf
<1>2. /\ UNCHANGED <<clock, bookings, resources, draft, resDraft>>
      /\ resDraft[s] = NoRow /\ Apiece(s)
      /\ \A b \in BookingIds : draft[s][b] = NoRow
  BY <1>1, BeginAlone, StepApiece DEF CommandOf
<1>3. SUFFICES CommandOf(s)' /\ ClearedOf(s)'
  <2>1. RowsOf(s)'
    <3>1. ASSUME NEW b \in BookingIds, staged'[s][b] # NoRow
          PROVE  ~IsActive(staged'[s][b].status)
      BY <3>1, BeginVersions
    <3>. QED
      BY <1>2, <3>1 DEF RowsOf
  <2>. QED
    BY <1>2, <2>1, StepClearance DEF ClearanceOf
<1>4. ASSUME NEW c \in Users, NEW r \in Resources, NEW x \in Slots,
             NEW b \in BookingIds, LoadForRequest(s, c, r, x, b)
      PROVE  CommandOf(s)' /\ ClearedOf(s)'
  <2>1. /\ op'[s].kind = "request" /\ op'[s].resource = r /\ pc'[s] = "dedup"
        /\ ~resources[r].deleted
    BY <1>1, <1>4 DEF LoadForRequest, Serve, Command, TypeOK
  <2>. QED
    BY <1>2, <2>1 DEF CommandOf, ClearedOf
<1>5. ASSUME NEW b \in BookingIds, LoadForApprove(s, b)
      PROVE  CommandOf(s)' /\ ClearedOf(s)'
  <2>1. /\ op'[s].kind = "approve" /\ pc'[s] = "lock"
        /\ op'[s].resource = bookings[b].resource
        /\ bookings[b] # NoRow /\ ~resources[bookings[b].resource].deleted
    BY <1>1, <1>5 DEF LoadForApprove, Serve, Command, TypeOK
  <2>2. bookings[b].resource \in Resources
    BY <1>1, <2>1 DEF TypeOK, BookingRow
  <2>. QED
    BY <1>2, <2>1, <2>2 DEF CommandOf, ClearedOf
<1>6. ASSUME NEW r \in Resources, LoadForDelete(s, r)
      PROVE  CommandOf(s)' /\ ClearedOf(s)'
  <2>1. /\ op'[s].kind = "delete" /\ op'[s].resource = r /\ pc'[s] = "pendings"
        /\ ApprovedStartingFrom(r, clock) = {}
    BY <1>1, <1>6 DEF LoadForDelete, Serve, Command, TypeOK
  <2>. QED
    BY <1>2, <2>1 DEF CommandOf, ClearedOf, ApprovedStartingFrom, Unread
<1>7. ASSUME NEW r \in Resources, NEW p \in BOOLEAN, LoadForPublish(s, r, p)
      PROVE  CommandOf(s)' /\ ClearedOf(s)'
  <2>1. /\ op'[s].kind = "publish" /\ op'[s].resource = r /\ pc'[s] = "resource"
        /\ ~resources[r].deleted
        /\ resStaged'[s] = [resources[r] EXCEPT !.published = p]
    BY <1>1, <1>7 DEF LoadForPublish, Serve, Command, TypeOK
  <2>2. ~resStaged'[s].deleted
    BY <1>1, <2>1 DEF TypeOK, ResourceRow
  <2>. QED
    BY <1>2, <2>1, <2>2 DEF CommandOf, ClearedOf
<1>8. ASSUME NEW kind \in {"reject", "cancel", "expire"}, NEW u, NEW b,
             Serve(s, Command(kind, u, b, NoRow, NoRow), "write")
      PROVE  CommandOf(s)' /\ ClearedOf(s)'
  <2>1. op'[s].kind = kind /\ pc'[s] = "write"
    BY <1>1, <1>8 DEF Serve, Command, TypeOK
  <2>. QED
    BY <1>2, <1>8, <2>1 DEF CommandOf, ClearedOf
<1>9. CASE \/ \E b \in BookingIds : LoadForReject(s, b)
           \/ \E b \in BookingIds, u \in Users : LoadForCancel(s, b, u)
           \/ ListOverdue(s)
  BY <1>8, <1>9 DEF LoadForReject, LoadForCancel, ListOverdue
<1>. QED
  BY <1>4, <1>5, <1>6, <1>7, <1>9 DEF Begin

\* A step of an open transaction keeps what its command knows.
LEMMA SameCommand ==
  ASSUME ClearanceInv, Record, NEW s \in Sessions, UNCHANGED resources,
         op'[s] = op[s], resStaged'[s] = resStaged[s],
         resDraft'[s] = resDraft[s], pc[s] # "idle",
         pc'[s] \notin {"idle", "pendings"},
         pc'[s] = "resource" => op[s].kind \in {"delete", "publish"},
         op[s].kind = "delete" => pc'[s] \notin Unread
  PROVE  CommandOf(s)'
<1>1. CommandOf(s)
  BY DEF ClearanceInv, ClearanceOf
<1>2. gone[s] \subseteq gone'[s]
  BY DEF Record
<1>. QED
  BY <1>1, <1>2 DEF CommandOf

LEMMA ProceedClearance ==
  ASSUME TypeInv, LockInv, VersionsInv, ClearanceInv, Record, NEW s \in Sessions,
         Proceed(s)
  PROVE  ClearanceInv'
<1>. USE DEF tables, updating
<1>1. /\ TypeOK /\ CommandOf(s) /\ RowsOf(s) /\ ClearedOf(s) /\ VersionsOf(s)
      /\ LockOf(s) /\ Apiece(s)
  BY StepApiece DEF TypeInv, ClearanceInv, ClearanceOf, VersionsInv, LockInv
<1>2. CASE AddBooking(s)
  <2>. DEFINE b == op[s].booking
              row == PendingRow(op[s].resource, op[s].actor, op[s].slot)
  <2>1. /\ pc[s] = "dedup" /\ pc' = [pc EXCEPT ![s] = "commit"]
        /\ draft' = [draft EXCEPT ![s][b] = row] /\ row.resource = op[s].resource
        /\ UNCHANGED <<clock, bookings, resources, op, staged, resStaged, resDraft>>
    BY <1>2 DEF AddBooking, PendingRow
  <2>2. /\ op[s].kind = "request" /\ resDraft[s] = NoRow
        /\ b \in BookingIds /\ \A u \in Sessions \ {s} : draft[u][b] = NoRow
    <3>1. op[s].kind = "request" /\ resDraft[s] = NoRow
      BY <1>1, <2>1 DEF VersionsOf, CommandOf
    <3>2. b \in BookingIds /\ bookings[b] = NoRow
      BY <2>1 DEF TypeInv, StepInv, FreshInv
    <3>3. \A u \in Sessions \ {s} : op[u].booking # b
      BY <2>1 DEF TypeInv, FreshInv
    <3>. QED
      BY <3>1, <3>2, <3>3 DEF TypeInv, FreshInv
  <2>. HIDE DEF row, b
  <2>3. /\ pc'[s] = "commit"
        /\ \A c \in BookingIds :
             draft'[s][c] = IF c = b THEN row ELSE draft[s][c]
    BY <1>1, <2>1 DEF TypeOK
  <2>4. RowsOf(s)'
    BY <1>1, <2>1, <2>2, <2>3 DEF RowsOf
  <2>5. CommandOf(s)' /\ ClearedOf(s)'
    BY <2>1, <2>2, <2>3, SameCommand DEF ClearedOf
  <2>6. \A u \in Sessions \ {s}, c \in BookingIds :
          draft'[s][c] # NoRow => draft[s][c] # NoRow \/ draft[u][c] = NoRow
    BY <2>2, <2>3
  <2>7. ClearanceOf(s)'
    BY <2>4, <2>5 DEF ClearanceOf
  <2>. QED
    BY <1>1, <2>1, <2>2, <2>6, <2>7, StepClearance
<1>3. CASE Refetch(s) \/ ListCompetitors(s) \/ ListPendings(s)
  <2>1. /\ UNCHANGED <<clock, bookings, resources, op, draft, resStaged, resDraft>>
        /\ pc'[s] \notin {"idle", "pendings"} /\ pc'[s] \notin Unread
        /\ pc'[s] = "resource" => pc[s] = "pendings"
        /\ pc[s] # "idle"
    BY <1>1, <1>3 DEF Refetch, ListCompetitors, ListPendings, TypeOK, Unread
  <2>2. CommandOf(s)'
    BY <1>1, <2>1, SameCommand DEF CommandOf
  <2>3. RowsOf(s)'
    <3>1. ASSUME NEW c \in BookingIds, staged'[s][c] # NoRow,
                 IsActive(staged'[s][c].status)
          PROVE  /\ op[s].kind \in {"request", "approve"}
                 /\ staged'[s][c].resource = op[s].resource
      <4>1. CASE staged'[s][c] = staged[s][c]
        BY <1>1, <3>1, <4>1 DEF RowsOf
      <4>2. CASE Refetch(s) /\ c = op[s].booking
        <5>1. Kin(staged'[s][c], bookings[c])
          <6>1. staged'[s] = Moved({c}, "APPROVED", "OWNER", "given")
            BY <1>1, <4>2 DEF Refetch, TypeOK
          <6>2. {c} \in SUBSET BookingIds
            OBVIOUS
          <6>. QED
            BY <3>1, <6>1, <6>2, MovedKin
        <5>2. op[s].kind = "approve" /\ bookings[c].resource = op[s].resource
          BY <1>1, <4>2 DEF Refetch, LockOf
        <5>. QED
          BY <5>1, <5>2 DEF Kin
      <4>. QED
        BY <1>3, <3>1, <4>1, <4>2, StagedVersions
    <3>. QED
      BY <1>1, <2>1, <3>1 DEF RowsOf
  <2>4. ClearedOf(s)'
    <3>1. CASE op[s].kind # "delete"
      BY <2>1, <3>1 DEF ClearedOf
    <3>2. CASE op[s].kind = "delete"
      <4>1. ListPendings(s)
        BY <1>1, <1>3, <3>2 DEF Refetch, ListCompetitors, LockOf
      <4>2. staged'[s] = Moved(PendingFor(op[s].resource), "CANCELLED", "OWNER",
                               "resource_deleted")
        BY <1>1, <4>1 DEF ListPendings, TypeOK
      <4>3. /\ PendingFor(op[s].resource) \in SUBSET BookingIds
            /\ \A b \in PendingFor(op[s].resource) : bookings[b] # NoRow
        BY DEF PendingFor
      <4>4. \A b \in PendingFor(op[s].resource) : staged'[s][b] \in BookingRow
        BY <1>1, <4>2, <4>3, MovedType DEF Statuses, Roles, Reasons
      <4>5. \A b \in BookingIds \ PendingFor(op[s].resource) :
              staged'[s][b] = NoRow
        BY <4>2 DEF Moved
      <4>6. outdated'[s] = (outdated[s] \ ReadBy(s)) \cup Published
        BY <2>1 DEF Record
      <4>7. ApprovedStartingFrom(op[s].resource, clock) \subseteq outdated'[s]
        <5>1. \A b \in ApprovedStartingFrom(op[s].resource, clock) :
                b \in BookingIds \ PendingFor(op[s].resource)
          BY DEF ApprovedStartingFrom, PendingFor
        <5>. QED
          BY <1>1, <3>2, <4>5, <4>6, <5>1 DEF ClearedOf, ReadBy
      <4>8. /\ ApprovedStartingFrom(op[s].resource, clock)'
                 = ApprovedStartingFrom(op[s].resource, clock)
            /\ PendingFor(op[s].resource)' = PendingFor(op[s].resource)
        BY <2>1 DEF ApprovedStartingFrom, PendingFor
      <4>. QED
        BY <2>1, <4>4, <4>7, <4>8, NoRowAssumption DEF ClearedOf
    <3>. QED
      BY <3>1, <3>2
  <2>5. ClearanceOf(s)'
    BY <2>2, <2>3, <2>4 DEF ClearanceOf
  <2>. QED
    BY <1>1, <2>1, <2>5, GoOn
<1>4. ASSUME NEW b \in BookingIds, Write(s, b)
      PROVE  ClearanceInv'
  <2>. DEFINE next == IF \A c \in BookingIds \ {b} : staged[s][c] = NoRow
                      THEN AfterWrites(op[s].kind) ELSE "write"
  <2>1. /\ staged[s][b] # NoRow /\ pc[s] = "write" /\ bookings[b] # NoRow
        /\ \A u \in Sessions \ {s} : draft[u][b] = NoRow
    BY <1>4 DEF Write, TypeInv, StepInv, FreshInv, WaitsForRow
  <2>2. /\ draft' = [draft EXCEPT ![s][b] = Written(s, b)]
        /\ staged' = [staged EXCEPT ![s][b] = NoRow]
        /\ pc' = [pc EXCEPT ![s] = next]
        /\ UNCHANGED <<clock, bookings, resources, op, resStaged, resDraft>>
    BY <1>4 DEF Write
  <2>3. /\ pc'[s] = next
        /\ \A c \in BookingIds :
             /\ draft'[s][c] = IF c = b THEN Written(s, b) ELSE draft[s][c]
             /\ staged'[s][c] = IF c = b THEN NoRow ELSE staged[s][c]
    BY <1>1, <2>2 DEF TypeOK
  <2>4. /\ next \notin {"idle", "pendings"} /\ next \notin Unread
        /\ next = "resource" => op[s].kind = "delete"
    BY DEF AfterWrites, Unread
  <2>. HIDE DEF next
  <2>5. CommandOf(s)'
    BY <2>1, <2>2, <2>3, <2>4, SameCommand
  <2>6. /\ Written(s, b) # NoRow /\ Written(s, b).resource = staged[s][b].resource
        /\ \/ Written(s, b) = staged[s][b]
           \/ Written(s, b).status = bookings[b].status
    <3>1. Written(s, b) # NoRow
      BY <1>1, <2>1, WrittenType, NoRowAssumption
    <3>. QED
      BY <3>1 DEF Written, Rewritten
  <2>7. RowsOf(s)'
    BY <1>1, <2>1, <2>2, <2>3, <2>6 DEF RowsOf
  <2>8. outdated[s] \subseteq outdated'[s]
    BY <2>2, <2>3, <2>4, NothingRead
  <2>9. ClearedOf(s)'
    <3>1. /\ PendingFor(op[s].resource)' = PendingFor(op[s].resource)
          /\ ApprovedStartingFrom(op[s].resource, clock)'
               = ApprovedStartingFrom(op[s].resource, clock)
      BY <2>2 DEF PendingFor, ApprovedStartingFrom
    <3>2. \A c \in PendingFor(op[s].resource) : c \in BookingIds
      BY DEF PendingFor
    <3>. QED
      BY <1>1, <2>1, <2>2, <2>3, <2>6, <2>8, <3>1, <3>2 DEF ClearedOf
  <2>10. \A u \in Sessions \ {s}, c \in BookingIds :
           draft'[s][c] # NoRow => draft[s][c] # NoRow \/ draft[u][c] = NoRow
    BY <2>1, <2>3
  <2>11. \A u \in Sessions \ {s} :
           resDraft'[s] # NoRow => resDraft[s] # NoRow /\ op'[s] = op[s]
    BY <2>2
  <2>12. ClearanceOf(s)'
    BY <2>5, <2>7, <2>9 DEF ClearanceOf
  <2>. QED
    BY <1>1, <2>2, <2>10, <2>11, <2>12, StepClearance
<1>5. CASE WriteResource(s)
  <2>. DEFINE entity == resStaged[s]
              row == resources[op[s].resource]
              new == [deleted |-> IF ~entity.deleted /\ ~resSeen[s].deleted
                                  THEN row.deleted ELSE entity.deleted,
                      published |-> IF entity.published = resSeen[s].published
                                    THEN row.published ELSE entity.published]
  <2>1. /\ pc[s] = "resource" /\ pc' = [pc EXCEPT ![s] = "commit"]
        /\ resDraft' = [resDraft EXCEPT ![s] = new]
        /\ ~ResourceLockedByOther(s, op[s].resource)
        /\ UNCHANGED <<clock, bookings, resources, op, staged, draft, resStaged>>
    BY <1>5 DEF WriteResource
  <2>2. ~entity.deleted /\ new.deleted => row.deleted
    OBVIOUS
  <2>. HIDE DEF new
  <2>3. pc'[s] = "commit" /\ resDraft'[s] = new
    BY <1>1, <2>1 DEF TypeOK
  <2>4. op[s].kind \in {"delete", "publish"}
    BY <1>1, <2>1 DEF CommandOf
  <2>5. CommandOf(s)'
    BY <1>1, <2>1, <2>2, <2>3, <2>4 DEF CommandOf, Unread
  <2>6. outdated[s] \subseteq outdated'[s]
    BY <2>1, <2>3, NothingRead DEF Unread
  <2>7. RowsOf(s)' /\ ClearedOf(s)'
    BY <1>1, <2>1, <2>3, <2>6 DEF RowsOf, ClearedOf, ApprovedStartingFrom,
                                  PendingFor
  <2>8. \A u \in Sessions \ {s} :
          resDraft[u] = NoRow \/ op[u].resource # op'[s].resource
    BY <2>1 DEF ResourceLockedByOther
  <2>9. \A u \in Sessions \ {s}, c \in BookingIds :
          draft'[s][c] # NoRow => draft[s][c] # NoRow \/ draft[u][c] = NoRow
    BY <2>1
  <2>10. ClearanceOf(s)'
    BY <2>5, <2>7 DEF ClearanceOf
  <2>. QED
    BY <1>1, <2>1, <2>8, <2>9, <2>10, StepClearance
<1>6. CASE Commit(s)
  BY <1>1, <1>6, ReleaseClearance DEF Commit
<1>7. CASE \/ RefuseDuplicate(s) \/ RefuseDecided(s) \/ JobReturns(s)
           \/ DeadlockAbort(s) \/ \E b \in BookingIds : ExclusionViolation(s, b)
  <2>1. Rollback(s)
    BY <1>7 DEF RefuseDuplicate, RefuseDecided, JobReturns, DeadlockAbort,
                ExclusionViolation
  <2>. QED
    BY <1>1, <2>1, ReleaseClearance DEF Rollback
<1>8. CASE AcquireLock(s) \/ SelectResource(s) \/ \E b \in BookingIds : SelectRow(s, b)
  <2>1. /\ UNCHANGED <<clock, bookings, resources, op, staged, draft, resStaged,
                       resDraft>>
        /\ \/ pc'[s] = pc[s] /\ pc[s] \in {"resource", "write"}
           \/ pc[s] = "lock" /\ pc'[s] = "refetch"
    BY <1>1, <1>8 DEF AcquireLock, SelectResource, SelectRow, TypeOK
  <2>2. op[s].kind = "delete" => pc[s] # "lock"
    BY <1>1 DEF LockOf
  <2>3. CommandOf(s)'
    BY <1>1, <2>1, <2>2, SameCommand DEF CommandOf, Unread
  <2>4. op[s].kind = "delete" => outdated[s] \subseteq outdated'[s]
    BY <2>1, <2>2, NothingRead DEF Unread
  <2>5. RowsOf(s)' /\ ClearedOf(s)'
    BY <1>1, <2>1, <2>2, <2>4 DEF RowsOf, ClearedOf, ApprovedStartingFrom,
                                  PendingFor
  <2>6. ClearanceOf(s)'
    BY <2>3, <2>5 DEF ClearanceOf
  <2>. QED
    BY <1>1, <2>1, <2>6, GoOn
<1>. QED
  BY <1>2, <1>3, <1>4, <1>5, <1>6, <1>7, <1>8 DEF Proceed

\* Time only takes approved bookings into the past.
LEMMA IdleClearance ==
  ASSUME TypeOK, ClearanceInv, Record, UNCHANGED <<tables, session>>,
         clock' = clock \/ clock' = clock + 1
  PROVE  ClearanceInv'
<1>. USE DEF tables, session, updating
<1>1. /\ UNCHANGED <<bookings, resources, pc, op, staged, draft, resStaged, resDraft>>
      /\ clock \in Nat
  BY TimeAssumption DEF TypeOK
<1>2. \A b \in BookingIds : bookings[b] # NoRow => bookings[b].slot.start \in Nat
  BY SlotAssumption DEF TypeOK, BookingRow
<1>3. ASSUME NEW s \in Sessions
      PROVE  ClearanceOf(s)'
  <2>1. CommandOf(s) /\ RowsOf(s) /\ ClearedOf(s)
    BY DEF ClearanceInv, ClearanceOf
  <2>2. pc[s] # "idle" => gone[s] \subseteq gone'[s]
    BY <1>1 DEF Record
  <2>3. CommandOf(s)' /\ RowsOf(s)'
    BY <1>1, <2>1, <2>2 DEF CommandOf, RowsOf
  <2>4. CASE op[s].kind # "delete"
    BY <1>1, <2>3, <2>4 DEF ClearanceOf, ClearedOf
  <2>5. CASE op[s].kind = "delete"
    <3>1. outdated[s] \subseteq outdated'[s]
      BY <1>1, <2>1, <2>5, NothingRead DEF CommandOf
    <3>2. ApprovedStartingFrom(op[s].resource, clock)'
            \subseteq ApprovedStartingFrom(op[s].resource, clock)
      BY <1>1, <1>2 DEF ApprovedStartingFrom
    <3>3. PendingFor(op[s].resource)' = PendingFor(op[s].resource)
      BY <1>1 DEF PendingFor
    <3>4. ClearedOf(s)'
      BY <1>1, <2>1, <2>5, <3>1, <3>2, <3>3 DEF ClearedOf
    <3>. QED
      BY <2>3, <3>4 DEF ClearanceOf
  <2>. QED
    BY <2>4, <2>5
<1>4. Unshared'
  BY <1>1 DEF ClearanceInv, Unshared
<1>. QED
  BY <1>3, <1>4 DEF ClearanceInv

LEMMA ClearanceNext ==
  ASSUME TypeInv, LockInv, VersionsInv, ClearanceInv, [OverlapNext]_ovars
  PROVE  ClearanceInv'
<1>1. CASE UNCHANGED ovars
  BY <1>1 DEF ovars, recorded, vars, tables, session, updating, ClearanceInv,
              ClearanceOf, CommandOf, RowsOf, ClearedOf, ApprovedStartingFrom,
              PendingFor, Unshared
<1>2. CASE Next /\ Record
  <2>1. ASSUME NEW s \in Sessions, Begin(s) \/ Proceed(s)
        PROVE  ClearanceInv'
    BY <1>2, <2>1, BeginClearance, ProceedClearance
  <2>2. ASSUME NEW s \in Sessions, Abort(s)
        PROVE  ClearanceInv'
    <3>1. Apiece(s) /\ Release(s) /\ UNCHANGED <<clock, bookings, resources>>
      BY <2>2, StepApiece DEF Abort, Rollback, tables
    <3>. QED
      BY <1>2, <3>1, ReleaseClearance
  <2>3. CASE Tick \/ \E u \in Owners : SetSubscription(u)
    BY <1>2, <2>3, IdleClearance DEF Tick, SetSubscription, TypeInv
  <2>. QED
    BY <1>2, <2>1, <2>2, <2>3 DEF Next
<1>. QED
  BY <1>1, <1>2 DEF OverlapNext

LEMMA ClearanceInvariant == OverlapSpec => []ClearanceInv
<1>1. OverlapInit => ClearanceInv
  BY DEF OverlapInit, Init, ClearanceInv, ClearanceOf, CommandOf, RowsOf,
         ClearedOf, Unshared, NothingHeld, NoOp, Command
<1>2. OverlapInv /\ ClearanceInv /\ [OverlapNext]_ovars => ClearanceInv'
  BY ClearanceNext DEF OverlapInv, ApprovalInv
<1>. QED
  BY <1>1, <1>2, OverlapInvariant, PTL DEF OverlapSpec

\* What a commit leaves behind on a deleted resource.
LEMMA CommitLeaves ==
  ASSUME TypeInv, TypeOK', RowInv, VersionsInv, ClearanceInv, NEW s \in Sessions,
         Commit(s), NEW b \in BookingIds, LeftBehind(b)', ~LeftBehind(b)
  PROVE  \/ op[s].kind = "delete" /\ b \in outdated[s]
         \/ /\ op[s].kind \in {"request", "approve"}
            /\ bookings'[b].resource \in gone[s]
<1>. DEFINE r == bookings'[b].resource
<1>1. /\ CommandOf(s) /\ RowsOf(s) /\ ClearedOf(s) /\ VersionsOf(s)
      /\ pc[s] = "commit" /\ clock' = clock
  BY DEF ClearanceInv, ClearanceOf, VersionsInv, Commit
<1>2. /\ bookings'[b] # NoRow /\ resources'[r].deleted
      /\ IsActive(bookings'[b].status)
      /\ \/ bookings'[b].status = "PENDING"
         \/ bookings'[b].slot.start >= clock
  BY <1>1 DEF LeftBehind, IsActive
<1>3. r \in Resources
  BY <1>2 DEF TypeOK, BookingRow
<1>4. /\ bookings'[b] = IF draft[s][b] = NoRow THEN bookings[b] ELSE draft[s][b]
      /\ resources'[r] = IF r = op[s].resource /\ resDraft[s] # NoRow
                         THEN resDraft[s] ELSE resources[r]
  BY <1>3 DEF Commit
<1>5. \/ /\ op[s].kind \in {"request", "approve"} /\ r = op[s].resource
      \/ /\ bookings[b] # NoRow /\ bookings'[b].status = bookings[b].status
         /\ Kin(bookings'[b], bookings[b])
  <2>1. CASE draft[s][b] = NoRow
    BY <1>2, <1>4, <2>1 DEF Kin
  <2>2. CASE draft[s][b] # NoRow
    BY <1>1, <1>2, <1>4, <2>2 DEF RowsOf, RowInv
  <2>. QED
    BY <2>1, <2>2
<1>. HIDE DEF r
<1>6. CASE /\ op[s].kind \in {"request", "approve"} /\ r = op[s].resource
  <2>1. resDraft[s] = NoRow
    BY <1>1, <1>6 DEF CommandOf
  <2>2. resources[r].deleted
    BY <1>2, <1>4, <2>1
  <2>3. r \in gone[s]
    BY <1>1, <1>6, <2>2 DEF CommandOf
  <2>. QED
    BY <1>6, <2>3 DEF r
<1>7. CASE /\ bookings[b] # NoRow /\ bookings'[b].status = bookings[b].status
           /\ Kin(bookings'[b], bookings[b])
  <2>1. bookings[b].resource = r /\ bookings[b].slot = bookings'[b].slot
    BY <1>7 DEF Kin, r
  <2>2. ~resources[r].deleted
    BY <1>2, <1>7, <2>1 DEF LeftBehind, IsActive
  <2>3. /\ r = op[s].resource /\ resDraft[s] # NoRow /\ resDraft[s].deleted
    BY <1>2, <1>4, <2>2
  <2>4. op[s].kind = "delete"
    BY <1>1, <2>2, <2>3 DEF CommandOf
  <2>5. CASE bookings[b].status = "PENDING"
    <3>1. b \in PendingFor(op[s].resource)
      BY <1>7, <2>1, <2>3, <2>5 DEF PendingFor
    <3>2. staged[s][b] = NoRow
      BY <1>1 DEF VersionsOf
    <3>3. draft[s][b] = NoRow
      BY <1>4, <1>7, <2>5 DEF RowInv
    <3>. QED
      BY <1>1, <2>4, <3>1, <3>2, <3>3 DEF ClearedOf
  <2>6. CASE bookings[b].status # "PENDING"
    <3>1. b \in ApprovedStartingFrom(op[s].resource, clock)
      BY <1>2, <1>7, <2>1, <2>3, <2>6 DEF ApprovedStartingFrom, IsActive
    <3>. QED
      BY <1>1, <2>4, <3>1 DEF ClearedOf
  <2>. QED
    BY <2>5, <2>6
<1>. QED
  BY <1>5, <1>6, <1>7

\* However requests race with it, the deletion of a resource leaves no request
\* to decide and no approved booking ahead but what was committed after it
\* looked, and only a request or an approval that began before it adds to that
\* (soft_delete_resource.py: the check of the approved bookings and the cascade
\* over the pending ones; no lock keeps the requests away).
THEOREM DeletionClearsTheResource == OverlapSpec => DeletionClears
<1>1. OverlapInv /\ ClearanceInv /\ [OverlapNext]_ovars =>
        [\A b \in BookingIds :
           LeftBehind(b)' /\ ~LeftBehind(b) =>
             \E s \in Sessions :
               /\ Commit(s)
               /\ \/ op[s].kind = "delete" /\ b \in outdated[s]
                  \/ /\ op[s].kind \in {"request", "approve"}
                     /\ bookings'[b].resource \in gone[s]]_ovars
  <2>1. ASSUME OverlapInv, ClearanceInv, [OverlapNext]_ovars,
               NEW b \in BookingIds, LeftBehind(b)', ~LeftBehind(b)
        PROVE  \E s \in Sessions :
                 /\ Commit(s)
                 /\ \/ op[s].kind = "delete" /\ b \in outdated[s]
                    \/ /\ op[s].kind \in {"request", "approve"}
                       /\ bookings'[b].resource \in gone[s]
    <3>1. /\ TypeInv /\ TypeOK /\ RowInv /\ VersionsInv /\ [Next]_vars
      BY <2>1 DEF OverlapInv, ApprovalInv, TypeInv, OverlapNext, ovars
    <3>2. TypeOK'
      BY <3>1, NextTypeInv DEF TypeInv
    <3>3. ~(UNCHANGED tables)
      <4>1. SUFFICES ASSUME UNCHANGED tables PROVE FALSE
        OBVIOUS
      <4>2. bookings' = bookings /\ resources' = resources
        BY <4>1 DEF tables
      <4>3. clock' = clock \/ clock' = clock + 1
        BY <3>1, ClockGrows
      <4>4. bookings[b] # NoRow => bookings[b].slot.start \in Nat
        BY <3>1, SlotAssumption DEF TypeOK, BookingRow
      <4>5. clock \in Nat
        BY <3>1, TimeAssumption DEF TypeOK
      <4>. QED
        BY <2>1, <4>2, <4>3, <4>4, <4>5 DEF LeftBehind
    <3>4. PICK s \in Sessions : Commit(s)
      BY <3>1, <3>3, OnlyCommitWrites
    <3>. QED
      BY <2>1, <3>1, <3>2, <3>4, CommitLeaves
  <2>. QED
    BY <2>1
<1>. QED
  BY <1>1, OverlapInvariant, ClearanceInvariant, PTL
  DEF OverlapSpec, DeletionClears
=============================================================================
