SPECIFICATION Spec
CONSTANTS
  c1 = c1
  c2 = c2
  c3 = c3
  NoKey = NoKey
  Calls <- MCTwoCalls
  Keys <- MCFewKeys
  Allowlist <- MCAllowlist
  OptIn <- MCOptIn
  PrivilegedKeys <- MCPrivileged
  AllSentinel = "all"
  FileKeys <- MCFileKeys
  MaxSlots = 1
  Timeout = 1
  LookupBound = 0
INVARIANTS CommandsBounded
