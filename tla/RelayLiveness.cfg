CONSTANTS
  Agents = {a1}
  Tasks = {t1, t2}
  Keys = {}
  Inputs = {x1}
  Results = {r1}
  NoKey = NoKey
  Null = Null
  LeaseSeconds = 1
  MaxAttempts = 2
SPECIFICATION FairSpec
PROPERTIES ExpiredIsRecovered EventuallySettled
