\* The expiry job runs again and again.
SPECIFICATION CronSpec
CONSTANTS
  NoRow = NoRow
  olga = olga
  Users = {olga, ann}
  Resources = {r1}
  OwnerOf <- MCOwnerOf
  BookingIds = {b1, b2}
  Slots <- OneSlot
  Sessions = {s1}
  Cutoff = 0
  MaxTime = 3
  Kinds = {"request", "expire"}
  Failures = FALSE
  ExclusionConstraint = TRUE
PROPERTIES
  OverdueExpires
