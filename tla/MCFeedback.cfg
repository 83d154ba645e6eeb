SPECIFICATION Spec
CONSTANTS
  e1 = e1
  e2 = e2
  alice = alice
  bob = bob
  domain = domain
  linkdomain = linkdomain
  url = url
  home = home
  homehost = homehost
  file = file
  Emails = {e1, e2}
  Analysts = {ann, bill}
  Indicators = {url, home, homehost, file}
  Blockable <- MCBlockable
  DomainOf <- MCDomainOf
  UrlsLookedUp = 1
  Facts <- MCFacts
  Policies <- DefaultPolicies
  SiemMinScore = 40
  MaxReviews = 2
  MaxEdits = 1
  MaxFaults = 1
SYMMETRY AnalystSymmetry
INVARIANTS
  TypeOK
  BlocklistIsDecisive
  QuarantineIsConsistent
  ConfirmedIsBlocked
  TrustIsEarned
PROPERTY BlocksOnlyGrow
