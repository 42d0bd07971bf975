SPECIFICATION Spec
CONSTANTS
  b1 = b1
  b2 = b2
  r1 = r1
  r2 = r2
  u1 = u1
  u2 = u2
  l1 = l1
  l2 = l2
  Offers <- TwoOffers
  Browsers = {b1, b2}
  Runners = {r1, r2}
  Admins = {}
  NoOffer = 0
  NoRunner = NoRunner
  Polls = 2
  Ttl = 1
  None = None
  Logins = {l1, l2}
  Users = {u1, u2}
  Orgs <- TwoOrgs
  Listed <- AllOrgs
  Renamed <- OneOrgOrUser
  MaxChanges = 1
CHECK_DEADLOCK FALSE
SYMMETRY Symmetry
INVARIANTS TypeOK RunnersAreToldTheTruth ErrorsNeedARace QuietMembershipsAreAnswers
PROPERTIES ImplementsMailbox
