SPECIFICATION ListingSpec
CONSTANTS
  m1 = m1
  m2 = m2
  m3 = m3
  m4 = m4
  c1 = c1
  Market = {m1, m2, m3, m4}
  Alias = {c1}
  Canonical <- MCCanonical
  Wanted = {m1, m2, m3}
  Start <- MCStart
  Offset = {0, 1, 2}
  Limit = 2
  RankedMin = 3
  RankedMax = 4
  RecentMin = 4
  RecentMax = 4
  MaxChanges = 1
  MaxVisits = 1
  MaxListingFailures = 1
INVARIANTS ListingTypeOK PagesListMarketsOnce FilteredWalkIsExact
\* A walk ends, and so do changes.
CHECK_DEADLOCK FALSE
