\* Listing, resource page and owner page against the commits of three users.
SPECIFICATION Spec
CONSTANTS
  olga = olga
  otto = otto
  uma = uma
  NoSub = NoSub
  NoOwner = NoOwner
  Owners = {olga, otto, uma}
  Slugless = {uma}
  Resources = {1, 2, 3}
  OwnerOf <- MCOwnerOf
  PageLimit = 2
  MaxCommits = 3
INVARIANTS
  ShownWasAllowed
  VisibleIsListed
