\* Two sessions edit one resource and its type, create another of each.
SPECIFICATION Spec
CONSTANTS
  NoRow = NoRow
  Gone = Gone
  r1 = r1
  r2 = r2
  t1 = t1
  t2 = t2
  olga = olga
  paul = paul
  Sessions = {s1, s2}
  Ids = {r1, r2, t1, t2}
  ResourceIds = {r1, r2}
  TypeIds = {t1, t2}
  Weekdays = {1, 2}
  Owners = {olga, paul}
  Slugless = {paul}
  Slugs = {"a", "b"}
  Labels = {"x"}
  Slots = {2, 4, 12}
  Hours <- MCHours
  Rules <- MCRules
  Customs <- MCCustoms
  Bases <- MCBases
  Schemas <- MCSchemas
  Prices = {1}
  Cutoffs = {0}
  Seed <- MCSeed
  Kinds = {"create", "meta", "price", "cutoff", "base", "customs", "hours",
           "rules", "slot", "publish", "delete", "createType", "updateType", "deleteType"}
  MaxCommands = 3
SYMMETRY Interchangeable
INVARIANTS
  TypeOK
  AggregateSound
  SlugsUnique
  NoOrphan
  AttributesFittedOnce
