SPECIFICATION Spec
CONSTANTS
  Key = {k1, k2, s}
  Stranger = {s}
  Plan = {free, pro}
  FreePlan = free
  NoPlan = zero
  None = none
  Handler = {h1, h2}
  MaxRequests = 4
  MaxFailures = 1
  MaxWipes = 1
SYMMETRY KeySymmetry
INVARIANT EntriesAgreeWithRows
INVARIANT PlansComeFromRows
INVARIANT RevocationHolds
\* Handlers stop when their requests are used up.
CHECK_DEADLOCK FALSE
