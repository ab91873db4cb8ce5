CONSTANTS
  None = None
  Models = {"sold", "listed", "own"}
  KeyOf <- MCKeyOf
  OwnerOf <- MCOwnerOf
  RegionOf <- MCRegionOf
  Failover = {"west"}
  Pinned = {"own"}
  ProfileOf <- MCProfileOf
  Classes = {"input", "cache_read"}
  Required = {"input"}
  Floor <- MCFloor
  Offers <- MCOffers
  Outages <- MCOutages
  Workers = {"w1", "w2"}
  MaxMoves = 2
  MaxFaults = 1
SPECIFICATION FairSpec
PROPERTIES StoredFallsOnlyWhenSeen KeysNeverLeave EveryWorkerServes
CHECK_DEADLOCK FALSE
