CONSTANTS
  None = None
  Models = {"sold", "listed", "own"}
  KeyOf <- MCKeyOf
  OwnerOf <- MCOwnerOf
  RegionOf <- MCRegionOf
  Failover = {"west"}
  Pinned = {"own"}
  ProfileOf <- MCProfileOf
  Classes = {"input", "cache_read"}
  Required = {"input"}
  Floor <- MCFloor
  Offers <- MCOffers
  Outages <- MCSkipped
  Workers = {"w1", "w2"}
  MaxMoves = 2
  MaxFaults = 1
SPECIFICATION Spec
PROPERTIES StoredFallsOnlyWhenSeen
CHECK_DEADLOCK FALSE
