SPECIFICATION Spec
CONSTANTS
  s1 = s1  s2 = s2  raw = raw  pass = pass
  Seeds <- MCSeeds
  RawKeys <- MCRawKeys
  Passphrases <- MCPassphrases
  MaxStarts = 3
  MaxEdits = 2
  MaxCalls = 2
  MaxRejects = 1
CHECK_DEADLOCK FALSE
PROPERTIES RecoveryLasts
