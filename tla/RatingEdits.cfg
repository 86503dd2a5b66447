\* Two sessions rate three bookings of two resources, edit ratings and cancel
\* bookings.
SPECIFICATION Spec
CONSTANTS
  NoRow = NoRow
  Gone = Gone
  b1 = b1
  b2 = b2
  b3 = b3
  court = court
  hall = hall
  cleo = cleo
  carl = carl
  Sessions = {s1, s2}
  Ids = {b1, b2, b3, g1, g2, g3}
  BookingIds = {b1, b2, b3}
  RatingIds = {g1, g2, g3}
  Resources = {court, hall}
  Customers = {cleo, carl}
  Scores = {1, 4}
  Comments = {"", "fine"}
  RatingWindow = 2
  EditWindow = 1
  Seed <- MCSeed
  MaxCommands = 3
  MaxTime = 4
SYMMETRY Interchangeable
INVARIANTS
  OneRatingPerBooking
  ShownAsSubmitted
  AverageIsClose
