SPECIFICATION HostSpec
CONSTANTS
  r1 = r1
  r2 = r2
  r3 = r3
  o1 = o1
  o2 = o2
  s1 = s1
  absent = absent
  junk = junk
  legacy = legacy
  MaxChanges = 1
INVARIANTS
  SurfacesAgree
PROPERTIES
  PluginsAreIndependent
  ConfigurationIsOne
  AgentsResumeTheirOwn
  EntitySettles
CHECK_DEADLOCK FALSE
