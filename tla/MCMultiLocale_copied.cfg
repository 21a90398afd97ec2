CONSTANTS
  en = en
  de = de
  us = us
  Multis = {m1, m2}
  Locales = {en, de}
  First = en
  Keys = {us}
  KeyOf <- MCKeyOf
  Weight <- MCWeight
  Names = {extra}
  CoreNames = {}
  Module = module
  Seeds = {entropy}
  Entropy = entropy
  None = None
  MaxDraws = 1
SPECIFICATION SpecCopies
INVARIANT PromisedStreams
CHECK_DEADLOCK FALSE
