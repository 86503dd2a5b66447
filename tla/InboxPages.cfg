\* Two sessions add and read notifications while the client turns the pages.
SPECIFICATION Spec
CONSTANTS
  NoRow = NoRow
  Gone = Gone
  NotRead = NotRead
  NoCursor = NoCursor
  Sessions = {s1, s2}
  Ids = {1, 2, 3}
  Foreign = {7}
  Limits = {1, 2}
  MaxLimit = 2
  Kinds = {"notify", "read"}
  MaxCommands = 4
  MaxTime = 1
SYMMETRY Interchangeable
INVARIANTS
  PassShowsEachOnce
PROPERTIES
  ReadIsFinal
