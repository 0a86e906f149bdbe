CONSTANTS
  Users = {u1}
  Calls = {c1, c2}
  None = None
  MaxFailures = 1
  ReputationIds = {r1}
  VerificationIds = {v1}
  BadgeIds = {x1, x2}
  BadgeTypes = {"COMMUNITY_LEADER"}
  Metrics <- MCMetrics
  Weightings <- MCWeightings
  Kinds <- MCKinds
  Targets = {t1}
  Jobs = {x1, x2}
  Attempts = 2
  Limit = 2
  MaxListed = 2
  Topics = {x1, x2}
  Scores = {1, 4}
SPECIFICATION Spec
CONSTRAINTS
  OneHalf
  OneMentioned
SYMMETRY Symmetry
\* The jobs run out.
CHECK_DEADLOCK FALSE
INVARIANTS
  AdmittedOnlyIfEarned
  VerifiedTogether
  GivenUpForCause
PROPERTIES
  AwardsStand
  DismissalHolds
  FallsByOneDecay
