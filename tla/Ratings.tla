------------------------------ MODULE Ratings -------------------------------
(***************************************************************************)
(* Ratings: a customer rates a booking that was approved and is over, may  *)
(* edit the rating for some days, and the public pages show averages.  The *)
(* owner can still cancel a booking that is over and rated.                *)
(*                                                                         *)
(* Transactions over RowStore; of a booking only what a rating looks at.   *)
(***************************************************************************)
EXTENDS RowStore, Integers, FiniteSets, FiniteSetsExt

CONSTANTS
  BookingIds, RatingIds,  \* the primary keys of the two tables
  Resources,              \* resources of one owner
  Customers,
  Scores, Comments,       \* valid scores (out of 1..5) and comments
  RatingWindow,           \* days after its end in which a booking can be rated
  EditWindow,             \* days after its creation in which a rating can be edited
  Seed,                   \* the bookings
  MaxCommands, MaxTime    \* bounds on the commands taken up and on the clock

VARIABLES
  clock,
  task,       \* the rating a session's handler has built and not inserted yet
  commands,   \* commands taken up so far
  submitted   \* auxiliary: score and comment of every command, by rating

vars == <<storeVars, clock, task, commands, submitted>>

Times == 0..MaxTime

BookingRow ==
  [table : {"booking"}, resource : Resources, customer : Customers,
   status : {"APPROVED", "CANCELLED"}, end : Times]

RatingRow ==
  [table : {"rating"}, booking : BookingIds, resource : Resources,
   customer : Customers, score : Scores, comment : Comments, created : Times,
   updated : Times]

RowsOf(i) == IF i \in BookingIds THEN BookingRow ELSE RatingRow

ASSUME KeyAssumption ==
  /\ BookingIds \cap RatingIds = {} /\ Ids = BookingIds \cup RatingIds
  /\ IsFiniteSet(RatingIds)
  /\ NoRow # Gone
  /\ \A i \in Ids : NoRow \notin RowsOf(i) /\ Gone \notin RowsOf(i)
  /\ Scores \subseteq 1..5
  /\ {RatingWindow, EditWindow, MaxCommands, MaxTime} \subseteq Nat

ASSUME SeedAssumption ==
  /\ Seed = [i \in Ids |-> Seed[i]]
  /\ \A i \in Ids : Seed[i] \in IF i \in BookingIds THEN BookingRow ELSE {NoRow}

Init ==
  /\ rows = Seed
  /\ StoreInit
  /\ clock = 0
  /\ task = [s \in Sessions |-> NoRow]
  /\ commands = 0
  /\ submitted = [i \in RatingIds |-> {}]

TakeUp(s) ==
  /\ pc[s] = "idle" /\ commands < MaxCommands
  /\ commands' = commands + 1

\* Faulty: the index is an ordinary one.
SameKeyNever(e, f) == FALSE

\* UNIQUE(booking_id).
SameKey(e, f) == e.table = "rating" /\ f.table = "rating" /\ e.booking = f.booking

\* The unique index, as an INSERT meets it.
Waits(s, i) == \E f \in InFlight(s) : SameKey(staged[s][i], f)
Taken(s, i) == \E f \in Stored : SameKey(staged[s][i], f)

\* The keys of all new rows are free; one of them is not.
KeysFree(s) ==
  \A i \in Ids : staged[s][i] # NoRow => ~Waits(s, i) /\ ~Taken(s, i)
KeyRefused(s) ==
  \E i \in Ids : staged[s][i] # NoRow /\ ~Waits(s, i) /\ Taken(s, i)

Ratings == {i \in RatingIds : rows[i] # NoRow}
RatingOf(b) == {i \in Ratings : rows[i].booking = b}

(***************************************************************************)
(* Creating a rating: SELECT the booking, SELECT its rating, INSERT.       *)
(***************************************************************************)
\* Over, and for no more than the window.
Eligible(booking) ==
  /\ booking.status = "APPROVED"
  /\ booking.end < clock /\ clock <= booking.end + RatingWindow

NewRating(b, score, comment) ==
  [table |-> "rating", booking |-> b, resource |-> rows[b].resource,
   customer |-> rows[b].customer, score |-> score, comment |-> comment,
   created |-> clock, updated |-> clock]

LoadBooking(s, b) ==
  /\ TakeUp(s)
  /\ rows[b] # NoRow /\ Eligible(rows[b])
  /\ \E score \in Scores, comment \in Comments :
       task' = [task EXCEPT ![s] = NewRating(b, score, comment)]
  /\ Stage(s, Nothing, "check")
  /\ UNCHANGED <<clock, submitted>>

RefuseRated(s) ==
  /\ pc[s] = "check" /\ RatingOf(task[s].booking) # {}
  /\ Rollback(s)
  /\ task' = [task EXCEPT ![s] = NoRow]
  /\ UNCHANGED <<clock, commands, submitted>>

Build(s, i) ==
  /\ pc[s] = "check" /\ RatingOf(task[s].booking) = {}
  /\ i \in RatingIds /\ Fresh(i)
  /\ Stage(s, Only(i, task[s]), "insert")
  /\ task' = [task EXCEPT ![s] = NoRow]
  /\ submitted' = [submitted EXCEPT ![i] = {<<task[s].score, task[s].comment>>}]
  /\ UNCHANGED <<clock, commands>>

Insert(s) ==
  KeysFree(s) /\ InsertRows(s) /\ UNCHANGED <<clock, task, commands, submitted>>

RefuseInsert(s) ==
  KeyRefused(s) /\ InsertRefused(s) /\ UNCHANGED <<clock, task, commands, submitted>>

(***************************************************************************)
(* Editing one, and the owner's cancellation of the booking.               *)
(***************************************************************************)
Editable(rating) == clock <= rating.created + EditWindow

\* Faulty: an empty comment leaves the old one.
TextUpdatedKeepsComment(rating, score, comment) ==
  [rating EXCEPT !.score = score, !.updated = clock,
                 !.comment = IF comment = "" THEN @ ELSE comment]

TextUpdated(rating, score, comment) ==
  [rating EXCEPT !.score = score, !.comment = comment, !.updated = clock]

UpdateRating(s, i) ==
  /\ TakeUp(s)
  /\ i \in Ratings /\ Editable(rows[i])
  /\ \E score \in Scores, comment \in Comments :
       /\ Stage(s, Only(i, TextUpdated(rows[i], score, comment)), "save")
       /\ submitted' = [submitted EXCEPT ![i] = @ \cup {<<score, comment>>}]
  /\ UNCHANGED <<clock, task>>

\* No cutoff for the owner, and none for bookings of the past.
CancelBooking(s, b) ==
  /\ TakeUp(s)
  /\ b \in BookingIds /\ rows[b] # NoRow /\ rows[b].status = "APPROVED"
  /\ Stage(s, Only(b, [rows[b] EXCEPT !.status = "CANCELLED"]), "save")
  /\ UNCHANGED <<clock, task, submitted>>

Save(s, i) ==
  /\ SelectRow(s, i) \/ WriteRow(s, i)
  /\ UNCHANGED <<clock, task, commands, submitted>>

Commit(s) == CommitRows(s) /\ UNCHANGED <<clock, task, commands, submitted>>

Fail(s) ==
  /\ Abort(s)
  /\ task' = [task EXCEPT ![s] = NoRow]
  /\ UNCHANGED <<clock, commands, submitted>>

Tick == clock < MaxTime /\ clock' = clock + 1 /\ UNCHANGED <<storeVars, task, commands, submitted>>

Step(s) ==
  \/ \E b \in BookingIds : LoadBooking(s, b) \/ CancelBooking(s, b)
  \/ RefuseRated(s)
  \/ \E i \in RatingIds : Build(s, i) \/ UpdateRating(s, i)
  \/ Insert(s) \/ RefuseInsert(s)
  \/ \E i \in Ids : Save(s, i)
  \/ Commit(s) \/ Fail(s)

\* Nothing is left to do within the bounds.
Finished == clock = MaxTime /\ (\A s \in Sessions : pc[s] = "idle") /\ UNCHANGED vars

Next == (\E s \in Sessions : Step(s)) \/ Tick \/ Finished

Spec == Init /\ [][Next]_vars

(***************************************************************************)
(* What the public pages compute.  Averages are in tenths of a score.      *)
(***************************************************************************)
Of(x) == {i \in Ratings : rows[i].resource = x}

Total(ratings) == MapThenSumSet(LAMBDA i : rows[i].score, ratings)

\* Decimal.quantize: to the nearest integer, a half to the even one.
Quantize(n, d) ==
  LET q == n \div d  r == n % d IN
  IF 2 * r > d \/ (2 * r = d /\ q % 2 = 1) THEN q + 1 ELSE q

\* AVG and COUNT of one resource; only called for a count above 0.
Average(x) == Quantize(10 * Total(Of(x)), Cardinality(Of(x)))

\* list_published_by_owner: the owner's page lists the newest fifty of his resources
\* that are published and not deleted.  Here listed is any set of his resources, and
\* of the others the page counts no rating.
Rated(listed) == {x \in listed : Of(x) # {}}
Counted(listed) == {i \in Ratings : rows[i].resource \in listed}

\* Faulty: every resource counts alike.
OwnerAverageUnweighted(listed) ==
  Quantize(MapThenSumSet(Average, Rated(listed)), Cardinality(Rated(listed)))

\* get_owner_public_page: the averages, already rounded, weighted by their counts;
\* only computed for a count above 0.
OwnerAverage(listed) ==
  Quantize(MapThenSumSet(LAMBDA x : Average(x) * Cardinality(Of(x)), Rated(listed)),
           Cardinality(Counted(listed)))

(***************************************************************************)
(* Properties.                                                             *)
(***************************************************************************)
\* create_rating.py:81-82: a booking has one rating, also when its customer
\* sends two at once and both find none.
OneRatingPerBooking == \A b \in BookingIds : Cardinality(RatingOf(b)) <= 1

\* rating.py:44-55: score and comment are replaced together: what is shown was
\* sent in one piece, unless the columns of two edits met in the row.
ShownAsSubmitted ==
  \A i \in Ratings : i \notin torn => <<rows[i].score, rows[i].comment>> \in submitted[i]

\* get_owner_public_page.py:55,62-63,78-88: an average of rounded averages is still
\* within a tenth of the true average of the ratings it stands for: those of the
\* resources the page lists, whichever these are.
AverageIsClose ==
  \A listed \in SUBSET Resources :
    LET count == Cardinality(Counted(listed))
        error == OwnerAverage(listed) * count - 10 * Total(Counted(listed))
    IN  count > 0 => -count <= error /\ error <= count
=============================================================================
