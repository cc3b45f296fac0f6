SPECIFICATION MCSpec
SYMMETRY CommandSymmetry
VIEW MCView
CONSTANTS
  Commands = {p, q}
  Cases = {c1, c2}
  baseline = baseline
  reprompted = reprompted
  drifted = drifted
  Sources <- MCSources
  Definitions <- MCDefinitions
  Prompt <- MCPrompt
  Approved <- MCSources
  Runtimes <- MCRuntimes
  Configs <- MCConfigs
  V1 <- MCV1
  Reports <- MCReports
  This = This
  Other = Other
  None = None
  CaseCount = 2
  Amounts = {0, 2}
  Null = Null
INVARIANTS
  PaidAsPreflighted
  ComparisonControlled
  ComparisonHonest
