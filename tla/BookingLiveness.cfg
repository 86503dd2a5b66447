\* Approvals and deletions lock rows in no fixed order: every request ends.
SPECIFICATION FairSpec
CONSTANTS
  NoRow = NoRow
  olga = olga
  Users = {olga, ann}
  Resources = {r1}
  OwnerOf <- MCOwnerOf
  BookingIds = {b1, b2}
  Slots <- Touching
  Sessions = {s1, s2}
  Cutoff = 0
  MaxTime = 0
  Kinds = {"request", "approve", "delete"}
  Failures = TRUE
  ExclusionConstraint = TRUE
INVARIANTS
  OutcomeNotified
  AutoRejectedHasWinner
PROPERTIES
  EveryRequestEnds
