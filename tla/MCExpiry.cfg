SPECIFICATION FairSpec
CONSTANTS
  c1 = c1  c2 = c2  l1 = l1  l2 = l2  l3 = l3  s1 = s1  s2 = s2
  h1 = h1  h2 = h2  p1 = p1  p2 = p2  m1 = m1  m2 = m2
  Profiles = {p1}
  Capabilities = {c1}
  LeaseIds = {l1}
  ManagementTokens = {m1}
  Secrets = {s1}
  Handlers = {h1, h2}
  Requests = {"grant", "manage", "exec"}
  None = None
  MinimumLease = 1
  MaximumLease = 2
  MinimumConsumerDuration = 2
  MaximumConsumerDuration = 2
  ManagementSessionTTL = 1
  MaxTime = 3
PROPERTIES ExpiredAccessEnds
