CONSTANTS
  n1 = n1
  n2 = n2
  v1 = v1
  Gens = {g1, g2}
  Proxies = {p1, p2}
  Cores = {c1, c2}
  Keys = {k1}
  Names = {n1}
  CoreNames = {n1}
  Providers = {v1}
  Methods <- MCMethods
  Seeds = {Entropy}
  Entropy = Entropy
  None = None
  Absent = Absent
  Rust = Rust
  Shared = Shared
  MaxDraws = 1
SPECIFICATION SpecEntangled
SYMMETRY Symmetric
INVARIANT FormattersFollowSeed
