SPECIFICATION EvalSpec
CONSTANTS
  r = r
  ra = ra
  aes = aes
  rsa = rsa
  faes = faes
  frsa = frsa
  src = src
  bin = bin
  Dirs <- MCDirs
  Files <- MCFiles
  Root = r
  Parent <- MCParent
  Above <- MCAbove
  DirName <- MCDirName
  Contents = {src, bin}
  Documents = {src}
  Categories <- MCCategories
  Absent = Absent
  Dist <- MCDist
  NResults = 4
  Answers <- MCAnswers
  NoFile = NoFile
INVARIANT MatrixShowsWrongs

