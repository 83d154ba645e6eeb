SPECIFICATION Spec
CONSTANTS
  e1 = e1
  e2 = e2
  alice = alice
  bob = bob
  domain = domain
  linkdomain = linkdomain
  url = url
  home = home
  homehost = homehost
  file = file
  Emails = {e1, e2}
  Analysts = {ann}
  Indicators = {url, home, homehost, file}
  Blockable <- MCBlockable
  DomainOf <- MCDomainOf
  UrlsLookedUp = 1
  Facts <- MCFactsPlain
  Policies <- DefaultPolicies
  SiemMinScore = 40
  MaxReviews = 3
  MaxEdits = 0
  MaxFaults = 0
INVARIANT AttachmentIsDecisive
