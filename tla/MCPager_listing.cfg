\* Five items, one of them hidden, two per page, two changes by other users.
SPECIFICATION FairSpec
CONSTANTS
  MaxItem = 5
  Limit = 2
  Hidden = {3}
  MaxWrites = 2
  NoPage = NoPage
INVARIANTS
  StableItemsListed
  NoItemTwice
PROPERTIES
  ListingEnds
