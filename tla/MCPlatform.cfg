\* Each part alone: two or three requests or workers of a kind, a few faults.
SPECIFICATION Spec
CONSTANTS
  Logins = {l1, l2, l3}
  MaxAttempts = 3
  MaxLogins = 7
  MaxLoginFaults = 1
  Emails = {"ann", "bob", "BOB"}
  Lower <- MCLower
  Orgs = {o1, o2}
  Registrations = {r1, r2}
  NoUser = NoUser
  NoInvitation = NoInvitation
  Creators = {c1, c2}
  Tiers = {"growth", "scale", "agency"}
  Limit <- MCLimit
  NoLimit = NoLimit
  LargestLimit = 2
  MaxMonth = 1
  MaxProposals = 6
  Trackers = {t1, t2}
  Raters = {u1, u2}
  Posts = {p1, p2}
  NoRater = NoRater
  MaxWeek = 1
  Cards = 2
  Texts = {"old", "new"}
  NoText = NoText
  Pages <- MCPages
  Sweepers = {s1, s2}
  MaxSweeps = 1
  MaxPageChanges = 1
  MaxSweepFaults = 1
  Docs = {d1, d2}
  NoDoc = NoDoc
  Processors = {w1, w2}
  MaxOutages = 1
  Rows <- MCRows
  Editors = {e1, e2}
  Generators = {g1}
  NoWriter = NoWriter
  MaxTexts = 3
  Containers = {backend, worker}
  Images = {2, 6, 7, 9}
  MaxDeploys = 2
  MaxDowngrades = 1
  MaxMigrationFaults = 1
  SectionCount = 2
  Loads = {a1}
  NoSection = NoSection
  MaxWordings = 4
  MaxClicks = 3
INVARIANTS
  PlatformTypeOK
  CounterExpires LimitBecomesLock
  OneUserPerInvitation AdminsFromScript
  LimitOvershootBounded
  OutcomeHasDate 
  IndexFollowsRow
  PendingInHand ProfileOncePerDelivery
  SnapshotCurrent MirrorCurrent EditsDoNotDeadlock
  SchemaMatchesVersion ServesItsSchema
  
PROPERTIES
  DiscoveryCatchesUp PipelineSettles  WorkspaceSaves
\* A part whose bounds are used up stops.
CHECK_DEADLOCK FALSE
