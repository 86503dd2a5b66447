\* Two sessions race for two bookings of one time, made by the owner herself: what
\* only an overlap of transactions may break.
SPECIFICATION OverlapSpec
CONSTANTS
  NoRow = NoRow
  olga = olga
  Users = {olga}
  Resources = {r1}
  OwnerOf <- MCOwnerOf
  BookingIds = {b1, b2}
  Slots <- Soon
  Sessions = {s1, s2}
  Cutoff = 0
  MaxTime = 1
  Kinds = {"request", "approve", "reject", "cancel", "delete"}
  Failures = TRUE
  ExclusionConstraint = TRUE
SYMMETRY Interchangeable
INVARIANTS
  HistoryExplainsStatus
  NoApprovedOverlap
PROPERTIES
  DecisionsStand
  TrailOnlyGrows
  RejectedOnce
  DuplicatesOverlap
  DeletionClears
  ImplementsCalendar
