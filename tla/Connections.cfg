SPECIFICATION Spec
CONSTANTS
  b1 = b1
  r1 = r1
  a1 = a1
  a2 = a2
  Offers <- TwoOffers
  Browsers = {b1}
  Runners = {r1}
  Admins = {a1, a2}
  NoOffer = 0
  NoRunner = NoRunner
  Polls = 2
  Ttl = 1
CHECK_DEADLOCK FALSE
INVARIANTS DeletionsAreOrderly
PROPERTIES OffersAreAnswered AttemptsEnd
