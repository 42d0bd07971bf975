SPECIFICATION Spec
CONSTANTS
  amy = amy
  arm = arm
  Submissions = {s1}
  Requests = {p1, p2}
  Names = {n1, n2}
  Prompts = {w1}
  Tags = {tag1}
  NoTag = NoTag
  NoTask = NoTask
  DeletedTask = DeletedTask
  Jobs = {j1}
  Runners = {r1, r2}
  NoJob = NoJob
  NoRunner = NoRunner
  Sends = 3
  InFlight = 2
  Users = {u1}
  LoginNames = {amy, bob}
  Orgs = {arm}
  Lists <- SomeLists
  Day = 1
  Browsers = 2
  PageRequests = {t1, t2}
  Pages = {page1}
  HalfTtl = 4
  Delay = 2
  Setup = 1
  MaxTime = 10
  Keys <- SomeKeys
  ShiftKeys <- TheShifts
  Plain <- NamesOfKeys
  Shifted <- NamesWithShift
  Chords = TRUE
  SubmissionIds = {1, 2}
  Ids = {1, 2, 3}
  NoRow = NoRow
  Size = 1
CHECK_DEADLOCK FALSE
SYMMETRY Symmetry
INVARIANTS TypeOK DeletionsAreClean OnlyEndedClaimsGoWrong OneResultForEachClaim AccessIsADayOldAtMost OnlyAdminsReachRobots PromptPagesAreSetUp UnfocusedPageHoldsNothing ReleasedKeysAreUp PagesShowWhatWasThere
PROPERTIES LockedEditsKeepFields RuleBreaksOnlyByOverlap ResultsMoveTheRanking
