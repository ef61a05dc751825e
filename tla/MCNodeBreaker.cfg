SPECIFICATION Spec
CONSTANTS
  n1 = n1  n2 = n2  n3 = n3
  s1 = s1  s2 = s2
  Node <- MCNode
  Setting <- MCSetting
  NoSetting = NoSetting
INVARIANTS EachNodeHasBreaker LimitersAreConfigured SettingsInForce
SYMMETRY MCSymmetry
