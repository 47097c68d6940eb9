\* Two workers capture the sources of two responses, one of them through a gateway.
SPECIFICATION Spec
CONSTANTS
  w1 = w1  w2 = w2  r1 = r1  r2 = r2  c1 = c1  c2 = c2
  gate = gate  page = page  host = host  archive = archive
  Processes = {w1, w2}
  Keys = {host, archive}
  Intervals = {1, 2}
  MaxClock = 2
  Responses = {r1, r2}
  Citations = {c1, c2}
  CitationsOf <- TwoResponses
  Urls = {gate, page}
  UrlOf <- ThroughGateway
  HostOf <- OneHost
  Gateways = {gate}
  Redirects <- GateLeadsToPage
  FetchFailures = {"too_large"}
  Replies <- TwoReplies
  Texts <- TwoTexts
  ArchiveKey = archive
  GatewayInterval = 1
  DomainInterval = 2
  ArchiveInterval = 1
  MaxRedirects = 1
  CacheWindow = 1
  MaxAttempts = 1
  MaxKills = 1
SYMMETRY WorkersAreAlike
INVARIANTS
  
  EvidenceIsFresh
  OutageIsNoVerdict
PROPERTY SlotsAreSpaced
CHECK_DEADLOCK FALSE
