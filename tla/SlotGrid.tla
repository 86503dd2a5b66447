------------------------------ MODULE SlotGrid ------------------------------
(***************************************************************************)
(* From wall clock to money: what the agenda of a resource offers, which   *)
(* ranges request_booking accepts and what they cost, in a time zone that  *)
(* may change its offset once.                                             *)
(*                                                                         *)
(* Instants (UTC) and wall-clock times count moments, Fine of them to a    *)
(* quarter hour, the unit of resources; it stands for the minutes to which *)
(* the code rounds down when it looks at a grid.  Until the change of the  *)
(* zone both are the same number.  The handlers walk a range differently:  *)
(* compute_price in UTC, the others on the wall clock, where datetime      *)
(* arithmetic ignores the offset.                                          *)
(***************************************************************************)
EXTENDS Integers, Schedules, FiniteSets, FiniteSetsExt

CONSTANTS
  Resources,     \* [slot, hours, rules, price] of the resources there are
  Zones,         \* [change, jump]: at instant change clocks are moved by jump
  Fine,          \* moments in a quarter hour
  Instants,      \* instants that calls name
  MaxRange,      \* _MAX_RANGE_DAYS of the agenda
  MaxCents,      \* Money.MAX_CENTS
  MaxBookings    \* bound on the bookings of the resource

VARIABLES
  resource, zone,
  bookings,   \* [start, end, status] of the active bookings
  offers,     \* the slots of the last agenda
  answer      \* the last call and its outcome

vars == <<resource, zone, bookings, offers, answer>>

DayLength == 96 * Fine
Outcomes == {"ok", "refused", "crashed"}

ASSUME GridAssumption ==
  /\ Weekdays = 1..7
  /\ Instants \subseteq Nat /\ Fine \in Nat \ {0}
  /\ {MaxRange, MaxCents, MaxBookings} \subseteq Nat
  /\ \A z \in Zones : z.change \in Nat /\ z.jump \in Int
  /\ \A r \in Resources :
       /\ r.slot \in SlotDurations
       /\ r.hours \in [Weekdays -> Seq([start : Nat, end : Nat])]
       /\ r.rules \in Seq([days : SUBSET Weekdays, window : [start : Nat, end : Nat],
                           price : 0..MaxCents])
       /\ ScheduleAccepted(r.slot, r.hours) /\ RulesAccepted(r.slot, r.hours, r.rules)
       /\ r.price \in 0..MaxCents

Day(w) == ((w \div DayLength) % 7) + 1
TimeOfDay(w) == (w % DayLength) \div Fine
SlotLength == resource.slot * Fine

\* astimezone(tz).
Wall(i) == IF i < zone.change THEN i ELSE i + zone.jump

\* The second pass of an hour that is repeated: astimezone sets fold.
Fold(i) == zone.change <= i /\ Wall(i) < zone.change

\* astimezone(UTC).  A repeated time is the first of the two unless fold is set; a
\* skipped one is read with the offset before the change.
InstantOf(w, fold) ==
  IF (w < zone.change /\ ~fold) \/ w < zone.change + zone.jump THEN w ELSE w - zone.jump

\* A walk of steps of one slot, as long as the cursor is before the end.
Walk(start, end) == {c \in start..(end - 1) : (c - start) % SlotLength = 0}

\* DateTimeRange.create, Money.create.
RangeAccepted(start, end) == start < end
MoneyAccepted(cents) == cents <= MaxCents

OpenAt(w) == Open(resource.hours, Day(w), TimeOfDay(w))

(***************************************************************************)
(* Resource.compute_price: a sum over a walk in UTC.                       *)
(***************************************************************************)
PriceAt(w) == SlotPrice(resource.rules, resource.price, Day(w), TimeOfDay(w))

\* Faulty: the whole range costs what its first slot costs.
PriceOfFirst(start, end) == Cardinality(Walk(start, end)) * PriceAt(Wall(start))

Price(start, end) == MapThenSumSet(LAMBDA i : PriceAt(Wall(i)), Walk(start, end))

(***************************************************************************)
(* GetAgendaHandler._generate_slots.                                       *)
(***************************************************************************)
BookingsIn(start, end) == {b \in bookings : b.start < end /\ start < b.end}

\* The slot leaves the window on the day it starts.  A slot that ends at midnight
\* or later never does.
Leaves(c, window) ==
  LET next == c + SlotLength IN
  next % DayLength > window.end * Fine /\ next \div DayLength = c \div DayLength

\* Faulty: only the closing time is looked at.
OfferedUntilClosing(c) ==
  \E n \in DOMAIN resource.hours[Day(c)] :
    LET window == resource.hours[Day(c)][n] IN TimeOfDay(c) < window.end /\ ~Leaves(c, window)

\* The cursor is in a window.
Offered(c) ==
  \E n \in DOMAIN resource.hours[Day(c)] :
    LET window == resource.hours[Day(c)][n] IN
    window.start <= TimeOfDay(c) /\ TimeOfDay(c) < window.end /\ ~Leaves(c, window)

\* Faulty: the end of the slot is taken for UTC.
SlotAtWallEnd(c, from) ==
  [start |-> InstantOf(c, c = Wall(from) /\ Fold(from)), end |-> c + SlotLength]

\* The first cursor keeps the fold of the range's start; addition clears it.
SlotAt(c, from) ==
  [start |-> InstantOf(c, c = Wall(from) /\ Fold(from)),
   end |-> InstantOf(c + SlotLength, FALSE)]

\* Faulty: an approved booking hides behind a pending one.
StatusPendingFirst(slot, known) ==
  LET over == {b.status : b \in {x \in known : x.start < slot.end /\ slot.start < x.end}} IN
  IF "PENDING" \in over THEN "PENDING" ELSE IF "APPROVED" \in over THEN "APPROVED" ELSE "AVAILABLE"

Status(slot, known) ==
  LET over == {b.status : b \in {x \in known : x.start < slot.end /\ slot.start < x.end}} IN
  IF "APPROVED" \in over THEN "APPROVED" ELSE IF "PENDING" \in over THEN "PENDING" ELSE "AVAILABLE"

SlotsOf(from, to) == {SlotAt(c, from) : c \in {x \in Walk(Wall(from), Wall(to)) : Offered(x)}}

\* Their .value is None if they refuse, and the handler takes it unseen.
Computable(slot) ==
  RangeAccepted(slot.start, slot.end) /\ MoneyAccepted(Price(slot.start, slot.end))

Agenda(from, to) ==
  {[start |-> slot.start, end |-> slot.end,
    status |-> Status(slot, BookingsIn(from, to)),
    price |-> Price(slot.start, slot.end)] : slot \in SlotsOf(from, to)}

GetAgenda(from, to) ==
  LET outcome == IF to - from > MaxRange THEN "refused"
                 ELSE IF \A slot \in SlotsOf(from, to) : Computable(slot) THEN "ok"
                 ELSE "crashed" IN
  /\ offers' = IF outcome = "ok" THEN Agenda(from, to) ELSE {}
  /\ answer' = [call |-> "agenda", start |-> from, end |-> to, outcome |-> outcome]
  /\ UNCHANGED <<resource, zone, bookings>>

(***************************************************************************)
(* RequestBookingHandler, the part that looks at the clock: the other      *)
(* gates are in module Bookings.  Other customers may want the same slot.  *)
(***************************************************************************)
\* Start and duration in minutes: what is left of a minute is dropped.
Aligned(start, end) ==
  /\ TimeOfDay(Wall(start)) % resource.slot = 0
  /\ ((end - start) \div Fine) % resource.slot = 0

\* Faulty: only the first slot is held against the opening hours.
FirstOpen(start, end) == OpenAt(Wall(start))

\* Every cursor is in some window.  Both ends are in the same zone, so the
\* comparison is one of wall-clock times.
WalkOpen(start, end) == \A c \in Walk(Wall(start), Wall(end)) : OpenAt(c)

Request(start, end) ==
  LET accepted == RangeAccepted(start, end) /\ Aligned(start, end) /\ WalkOpen(start, end)
      outcome == IF ~accepted THEN "refused"
                 ELSE IF MoneyAccepted(Price(start, end)) THEN "ok" ELSE "crashed" IN
  /\ Cardinality(bookings) < MaxBookings
  /\ answer' = [call |-> "request", start |-> start, end |-> end, outcome |-> outcome]
  /\ bookings' = IF outcome = "ok"
                 THEN bookings \cup {[start |-> start, end |-> end, status |-> "PENDING"]}
                 ELSE bookings
  /\ UNCHANGED <<resource, zone, offers>>

\* As far as the slots see it: approved bookings do not overlap (Bookings).
Approve(b) ==
  /\ b.status = "PENDING"
  /\ \A x \in BookingsIn(b.start, b.end) : x.status = "PENDING"
  /\ bookings' = (bookings \ {b}) \cup {[b EXCEPT !.status = "APPROVED"]}
  /\ answer' = [call |-> "approve", start |-> 0, end |-> 0, outcome |-> "ok"]
  /\ UNCHANGED <<resource, zone, offers>>

Init ==
  /\ resource \in Resources /\ zone \in Zones
  /\ bookings = {} /\ offers = {}
  /\ answer = [call |-> "none", start |-> 0, end |-> 0, outcome |-> "ok"]

Next ==
  \/ \E from, to \in Instants : GetAgenda(from, to) \/ Request(from, to)
  \/ \E b \in bookings : Approve(b)

Spec == Init /\ [][Next]_vars

(***************************************************************************)
(* Properties.                                                             *)
(***************************************************************************)
\* From one instant to the other, clocks are not moved and no hour is repeated.
Steady(start, end) ==
  start <= end /\ Wall(end) - Wall(start) = end - start /\ ~Fold(start)

\* A moment of the grid of slots.
OnTheGrid(i) == (Wall(i) % DayLength) % SlotLength = 0

\* request_booking.py:144-156 looks at the first moment of every slot only; with
\* the checks on the schedule that is enough: a booking is in opening hours from
\* its first to its last moment, unless clocks are moved meanwhile or it starts
\* some seconds after the full minute (lines 139-141).
BookedIsOpen ==
  \A b \in bookings : Steady(b.start, b.end) /\ OnTheGrid(b.start) =>
    \A i \in b.start..(b.end - 1) : OpenAt(Wall(i))

\* get_agenda.py:94-148 and request_booking.py:129-157 agree: if the agenda was
\* asked from a point of the grid on, what it offers can be requested.
OfferIsAccepted ==
  answer.call = "agenda" /\ Steady(answer.start, answer.end + SlotLength)
    /\ OnTheGrid(answer.start) =>
  \A o \in offers : Aligned(o.start, o.end) /\ WalkOpen(o.start, o.end)

\* ... for the price the agenda shows: a booking of slots that join up costs what
\* the agenda shows for them together, also in a night in which clocks are moved.
PriceAsOffered ==
  \A from, to \in offers :
    LET covered == {o \in offers : from.start <= o.start /\ o.end <= to.end} IN
    /\ from.start < to.end /\ Cardinality(covered) * SlotLength = to.end - from.start
    /\ \A o, p \in covered : o = p \/ o.end <= p.start \/ p.end <= o.start
    => Price(from.start, to.end) = MapThenSumSet(LAMBDA o : o.price, covered)

\* booking_repository.py:199-215 selects the bookings of the range, which is not
\* the range of the slots: a slot shown as AVAILABLE overlaps no booking, and one
\* shown as PENDING no approved one, if the range ends where a slot ends.
AvailableIsFree ==
  answer.call = "agenda" /\ Steady(answer.start, answer.end + SlotLength)
    /\ (answer.end - answer.start) % SlotLength = 0 =>
  \A o \in offers : \A b \in BookingsIn(o.start, o.end) :
    o.status # "AVAILABLE" /\ (b.status = "APPROVED" => o.status = "APPROVED")

\* date_time_range.py:27 and money.py:26: the handlers take .value of a Result
\* unseen.  Short of a price above the maximum only moved clocks make them fail.
CrashNeedsClockChange ==
  answer.outcome = "crashed" /\ Steady(answer.start, answer.end + SlotLength) =>
    Price(answer.start, answer.end + SlotLength) > MaxCents
=============================================================================
