SPECIFICATION Spec
CONSTANTS
  c1 = c1  c2 = c2  l1 = l1  l2 = l2  l3 = l3  s1 = s1  s2 = s2
  h1 = h1  h2 = h2  p1 = p1  p2 = p2  m1 = m1  m2 = m2
  Profiles = {p1}
  Capabilities = {c1}
  LeaseIds = {l1, l2}
  ManagementTokens = {m1, m2}
  Secrets = {s1, s2}
  Handlers = {h1, h2}
  Requests = {"grant", "store", "manage"}
  None = None
  MinimumLease = 1
  MaximumLease = 1
  MinimumConsumerDuration = 2
  MaximumConsumerDuration = 2
  ManagementSessionTTL = 1
  MaxTime = 2
SYMMETRY Symmetry
INVARIANTS LeasedProfileConfigured LeaseSecretCurrent SessionOnlyForSecrets KeysMatchItems
