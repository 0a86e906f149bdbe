CONSTANTS
  Users = {u1, u2}
  Calls = {c1, c2}
  None = None
  MaxFailures = 1
  Addresses = {x1, x2, x3}
  MessageIds = {x1, x2}
  Millisecond = 2
  Activities = {x1, x2}
  Subscriptions = {s1, s2}
  Attempts = 2
  NotificationIds = {s1}
  PreferenceIds = {x1, x2}
  Drafts <- MCDrafts
  TopScore = 2
  Times = {0, 1, 2}
  PageSize = 1
  Instances = {x1, x2}
  Devices = {c1, c2}
  Notices = {x1, x2}
  Events = 1
SPECIFICATION Spec
CONSTRAINTS
  BusyMessages
  BusyFeed
  BusyChannels
  BusyRoom
SYMMETRY Symmetry
\* The activities run out.
CHECK_DEADLOCK FALSE
INVARIANTS
  SomePrimary
  PrimaryNotRevoked
  DistributedUnlessCause
  EndedFollowEnds
  FeedMissesOnlyTies
  NotifiedOnce
  DeliveryRecorded
  MembersAgree
  RosterTrue
PROPERTIES
  DeletionHolds
