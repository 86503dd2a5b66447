\* Two sessions request one slot for one customer.
SPECIFICATION Spec
CONSTANTS
  NoRow = NoRow
  olga = olga
  Users = {olga, ann}
  Resources = {r1}
  OwnerOf <- MCOwnerOf
  BookingIds = {b1, b2}
  Slots <- OneSlot
  Sessions = {s1, s2}
  Cutoff = 0
  MaxTime = 0
  Kinds = {"request"}
  Failures = FALSE
  ExclusionConstraint = TRUE
INVARIANT NoDuplicateActive
