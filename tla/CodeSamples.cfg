SPECIFICATION Spec
CONSTANTS
  d1 = d1
  d2 = d2
  h1 = h1
  h2 = h2
  v1 = v1
  v2 = v2
  Paths = {p1}
  Documents = {d1, d2}
  Unreadable = Unreadable
  Categories = {k1, k2}
  Ids = {h1, h2}
  Sha256 <- MCSha256
  Embedding <- MCEmbedding
  Absent = Absent
  Runs = {r1, r2}
INVARIANTS SelfDescribing NeverLost
PROPERTIES RetryIsIdempotent ImplementsStore
