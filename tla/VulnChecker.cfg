SPECIFICATION FairSpec
CONSTANTS
  p1 = p1
  p2 = p2
  v1 = v1
  v2 = v2
  Packages = {p1, p2}
  Installed <- MCInstalled
  Vulns = {v1, v2}
  Affected <- MCAffected
  NoVersions = NoVersions
  Listable <- MCListable
  Answers <- MCAnswers
  NoPackage = NoPackage
  NoVuln = NoVuln
INVARIANTS ReportedAsConfirmed NoneSkipped
PROPERTY CheckEnds
