-------------------------- MODULE BookingOverlaps --------------------------
(***************************************************************************)
(* Bookings with history variables that record where transactions overtake *)
(* each other: what was committed by others since a session read it.  No   *)
(* action of Bookings is changed and no guard reads them.  They name the   *)
(* steps by which the code can break a guarantee of its domain model, so   *)
(* that the guarantee can be stated of every other step, for any number of *)
(* sessions.                                                               *)
(***************************************************************************)
EXTENDS Bookings

VARIABLES
  outdated,  \* per session: bookings others have committed since it read them
  gone,      \* per session: resources others have deleted since it began
  torn       \* bookings an UPDATE gave the history of one transaction beside
             \* the status of another

recorded == <<outdated, gone, torn>>
ovars == <<vars, recorded>>

\* The steps of a handler that holds no booking it has read.
Unread == {"idle", "dedup", "lock", "refetch"}

\* The bookings that are committed in this step.
Published ==
  {b \in BookingIds : \E u \in Sessions : Commit(u) /\ draft[u][b] # NoRow}

\* The bookings that s reads in this step, to change them.
ReadBy(s) == {b \in BookingIds : staged[s][b] = NoRow /\ staged'[s][b] # NoRow}

\* The resources that are deleted in this step.
Deleted == {r \in Resources : ~resources[r].deleted /\ resources'[r].deleted}

\* The bookings whose status this step's update() leaves out of its SET list,
\* having found it as it should be, while the row has got another one since.
Mixed ==
  {b \in BookingIds : \E s \in Sessions :
     /\ Write(s, b)
     /\ staged[s][b].status = seen[s][b]
     /\ bookings[b].status # seen[s][b]}

InitRecord ==
  /\ outdated = [s \in Sessions |-> {}]
  /\ gone = [s \in Sessions |-> {}]
  /\ torn = {}

Record ==
  /\ outdated' = [s \in Sessions |->
                    IF pc'[s] \in Unread THEN {}
                    ELSE (outdated[s] \ ReadBy(s)) \cup Published]
  /\ gone' = [s \in Sessions |->
                IF pc'[s] = "idle" THEN {} ELSE gone[s] \cup Deleted]
  /\ torn' = torn \cup Mixed

OverlapInit == Init /\ InitRecord
OverlapNext == Next /\ Record
OverlapSpec == OverlapInit /\ [][OverlapNext]_ovars

-----------------------------------------------------------------------------
(* Properties. *)

\* s commits a version of b it made from a row that another transaction has
\* replaced since: a lost update, which no handler but approve guards against.
Overwrites(s, b) == Commit(s) /\ draft[s][b] # NoRow /\ b \in outdated[s]

\* The audit trail of a booking on file is a path of the state machine from
\* PENDING to its status, so that who cancelled a booking can be read off the
\* end of its status_history, "the audit source of truth": unless an UPDATE
\* has put the history of one transaction beside the status of another.
HistoryExplainsStatus ==
  \A b \in BookingIds \ torn :
    bookings[b] # NoRow =>
      LET h == bookings[b].history
          before(i) == IF i = 1 THEN "PENDING" ELSE h[i - 1].to
      IN  /\ \A i \in 1..Len(h) : /\ h[i].from = before(i)
                                  /\ IsValidTransition(h[i].from, h[i].to)
          /\ bookings[b].status = before(Len(h) + 1)

\* A decision is final, however requests race: only a lost update takes a
\* booking out of REJECTED, CANCELLED or EXPIRED.
DecisionsStand ==
  [][\A b \in BookingIds :
       /\ bookings[b] # NoRow
       /\ bookings[b].status \notin {"PENDING", "APPROVED"}
       /\ bookings'[b].status # bookings[b].status
       => \E s \in Sessions : Overwrites(s, b)]_ovars

\* status_history is append-only (status_change.py lines 18-19: a change is
\* "appended to Booking._status_history on every state change"): only a lost
\* update takes a line out of it.
TrailOnlyGrows ==
  [][\A b \in BookingIds :
       bookings[b] # NoRow =>
         LET old == bookings[b].history
             new == bookings'[b].history
         IN  \/ Len(new) >= Len(old) /\ SubSeq(new, 1, Len(old)) = old
             \/ \E s \in Sessions : Overwrites(s, b)]_ovars

\* A customer who has been told of the rejection of a booking is told of it
\* again only by a lost update.  The design has more: "state machine handles
\* concurrent rejects: second one fails with BookingInvalidStateTransition"
\* (plan-08 section 6.3), which does not hold, as a reject that has read the
\* booking before the other one commits is such an update; nor does it hold
\* of the automatic rejections of an approval or of the job.
RejectedOnce ==
  [][\A n \in Notice :
       n.kind = "REJECTED" /\ 1 <= inbox[n] /\ inbox[n] < inbox'[n]
         => \E s \in Sessions : Overwrites(s, n.booking)]_ovars

\* Two active bookings of a customer share time on one resource.
Duplicates(b, c) ==
  /\ b # c /\ bookings[b] # NoRow /\ bookings[c] # NoRow
  /\ bookings[b].status \in {"PENDING", "APPROVED"}
  /\ bookings[c].status \in {"PENDING", "APPROVED"}
  /\ bookings[b].customer = bookings[c].customer
  /\ bookings[b].resource = bookings[c].resource
  /\ SharedTime(bookings[b].slot, bookings[c].slot) # {}

\* Natural dedup: two active bookings of a customer come to overlap only when
\* a request commits beside one that was committed after its own look for
\* duplicates (request_booking.py takes no lock), or by a lost update.
DuplicatesOverlap ==
  [][\A b, c \in BookingIds :
       Duplicates(b, c)' /\ ~Duplicates(b, c) =>
         \E s \in Sessions :
           \/ Overwrites(s, b) \/ Overwrites(s, c)
           \/ /\ Commit(s) /\ op[s].kind = "request"
              /\ \/ op[s].booking = b /\ c \in outdated[s]
                 \/ op[s].booking = c /\ b \in outdated[s]]_ovars

\* b waits for a decision, or is approved and ahead, on a deleted resource.
LeftBehind(b) ==
  /\ bookings[b] # NoRow
  /\ resources[bookings[b].resource].deleted
  /\ \/ bookings[b].status = "PENDING"
     \/ bookings[b].status = "APPROVED" /\ bookings[b].slot.start >= clock

\* The cascade of a soft delete (soft_delete_resource.py lines 25-29) leaves
\* no request to decide and no approved booking ahead on the resource, but
\* for bookings that were committed after it looked for them; and only a
\* request or an approval that began before the deletion adds one later.
DeletionClears ==
  [][\A b \in BookingIds :
       LeftBehind(b)' /\ ~LeftBehind(b) =>
         \E s \in Sessions :
           /\ Commit(s)
           /\ \/ op[s].kind = "delete" /\ b \in outdated[s]
              \/ /\ op[s].kind \in {"request", "approve"}
                 /\ bookings'[b].resource \in gone[s]]_ovars
=============================================================================
