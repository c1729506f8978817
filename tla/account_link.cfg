SPECIFICATION FairSpec
CONSTANTS
  o1 = o1
  o2 = o2
  d1 = d1
  d2 = d2
  Kinds = {"github", "ldap", "static"}
  MaxRestarts = 1
  MaxChanges = 2
  Orgs = {o1, o2}
  Domains = {d1, d2}
  Configs <- SomeConfigs
  StaleReads = FALSE
  MaxFailures = 1
INVARIANTS TypeOK RunningIsRegistered
PROPERTIES ResultsKept RegistrySettles AdmissionSettles
