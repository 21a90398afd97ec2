CONSTANTS
  Proxies = {u1, u2}
  Dicts = {d1, d2, d3}
  Sentinels = {s1, s2}
  Calls = {k1}
  Values = {v1, v2}
  Attempts = 2
  MaxDepth = 1
  None = None
SPECIFICATION Spec
INVARIANT ExcludedNeverNoted
