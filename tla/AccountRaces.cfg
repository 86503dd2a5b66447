\* Two sessions register, log in, change roles and subscriptions.
SPECIFICATION Spec
CONSTANTS
  NoRow = NoRow
  Gone = Gone
  NoSlug = NoSlug
  NoTrial = NoTrial
  ann = ann
  olga = olga
  uma = uma
  ugo = ugo
  annSub = annSub
  olgaSub = olgaSub
  umaSub = umaSub
  ugoSub = ugoSub
  Sessions = {s1, s2}
  Ids = {ann, olga, uma, ugo, annSub, olgaSub, umaSub, ugoSub}
  UserIds = {ann, olga, uma, ugo}
  SubIds = {annSub, olgaSub, umaSub, ugoSub}
  SubOf <- MCSubOf
  Emails = {"ann", "olga", "uma", "boot"}
  AdminEmail = "boot"
  Names = {"a", "b"}
  Candidates <- MCCandidates
  TrialDuration = 1
  AccessTTL = 1
  RefreshTTL = 2
  Seed <- MCSeed
  SeedPairs <- MCSeedPairs
  Kinds = {"login", "refresh", "register", "bootstrap", "promote", "deactivate",
           "status", "expire"}
  MaxCommands = 3
  MaxTime = 2
SYMMETRY Interchangeable
INVARIANTS
  TypeOK
  KeysUnique
  OwnersComplete
  SubscriptionReadable
  NoticeMatchesStatus
  AccessEnds
PROPERTIES
  DeactivationIsFinal
