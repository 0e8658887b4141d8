SPECIFICATION ClassifySpec
CONSTANTS
  r = r
  f = f
  d1 = d1
  d2 = d2
  d3 = d3
  d4 = d4
  d5 = d5
  Dirs = {r}
  Files = {f}
  Root = r
  Parent <- MCParent
  Above <- MCAbove
  Contents = {d1, d2, d3, d4, d5}
  Documents = {d1, d2, d3, d4, d5}
  Categories <- MCCategories
  Absent = Absent
  Dist <- MCDist
  NResults = 4
  Answers <- MCAnswers
  NoFile = NoFile
  Tools = {"identify_algorithm", "explain_code"}
  ArgSets <- MCArgSets
  Algorithms <- MCAlgorithms
  Fragments <- MCFragments
  MaxCalls = 2
  MaxLen = 4
  MaxBeside = 1
INVARIANT TextVerdict
PROPERTIES ModelAskedOnDissent ExactSampleKeepsCategory LaterWordsIgnored
CHECK_DEADLOCK FALSE
