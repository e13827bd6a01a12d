SPECIFICATION FairSpec
CONSTANTS
  e1 = e1
  e2 = e2
  w1 = w1
  w2 = w2
  s1 = s1
  s2 = s2
  s3 = s3
  None = None
  Emails = {e1}
  Sessions = {s1, s2}
  Workers = {w1, w2}
  Configs <- MCOneConfig
  Times <- MCTimes
  MaxPlayers = 2
  StaleReads = FALSE
  ShapesOf <- MCOneShape
  MaxFaults = 0
  MaxVersion = 1
PROPERTIES
  PaymentHonoured
