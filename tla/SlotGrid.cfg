\* Agendas, requests and approvals around the hour at which clocks are moved.
SPECIFICATION Spec
CONSTANTS
  Weekdays = {1, 2, 3, 4, 5, 6, 7}
  Resources <- MCResources
  Zones <- MCZones
  Fine = 2
  Instants = {8, 12, 16, 17, 24, 25, 28}
  MaxRange = 12
  MaxCents = 10
  MaxBookings = 2
INVARIANTS
  BookedIsOpen
  OfferIsAccepted
  PriceAsOffered
  AvailableIsFree
  CrashNeedsClockChange
