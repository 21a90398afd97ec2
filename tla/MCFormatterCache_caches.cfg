CONSTANTS
  n1 = n1
  n2 = n2
  v1 = v1
  Gens = {g1}
  Proxies = {p1, p2}
  Cores = {c1, c2}
  Keys = {k1}
  Names = {n1, n2}
  CoreNames = {n1, n2}
  Providers = {v1}
  Methods <- MCMethods
  Seeds = {s1, Entropy}
  Entropy = Entropy
  None = None
  Absent = Absent
  Rust = Rust
  Shared = Shared
  MaxDraws = 1
SPECIFICATION Spec
SYMMETRY Symmetric
INVARIANT TypeOK
INVARIANT NoStaleCore
INVARIANT ProxyCoherent
PROPERTY ApiSpec
