SPECIFICATION Spec
CONSTANTS
  Addrs = {"c", "d"}
  NoAddr = "0:0"
  RF_MAX_SUBS = 2
  Trim = {0, 1, 2}
  Values = {0, 1, 2}
INVARIANTS TypeOK CountMatches SubsDistinct
PROPERTY ReportsCrossings
