\* Two sessions with all commands about one booking, of the owner or a customer.
SPECIFICATION Spec
CONSTANTS
  NoRow = NoRow
  olga = olga
  Users = {olga, ann}
  Resources = {r1}
  OwnerOf <- MCOwnerOf
  BookingIds = {b1}
  Slots <- OneSlot
  Sessions = {s1, s2}
  Cutoff = 1
  MaxTime = 3
  Kinds = {"request", "approve", "reject", "cancel", "delete", "publish", "expire"}
  Failures = TRUE
  ExclusionConstraint = TRUE
SYMMETRY Interchangeable
INVARIANTS
  TypeOK
  ApprovedAtMostOnce
  OutcomeNotified
