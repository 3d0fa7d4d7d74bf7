SPECIFICATION Spec
CONSTANTS
  c1 = c1
  c2 = c2
  c3 = c3
  NoKey = NoKey
  Calls <- MCCalls
  Keys <- MCKeys
  Allowlist <- MCAllowlist
  OptIn <- MCOptIn
  PrivilegedKeys <- MCPrivileged
  AllSentinel = "all"
  FileKeys <- MCFileKeys
  MaxSlots = 1
  Timeout = 1
  LookupBound = 2
SYMMETRY CallSymmetry
INVARIANTS SlotConservation NoIdleSlot QueueIsWaiters QueueByAge ChildrenBounded TwoTimeouts OutcomeTiming
PROPERTIES ImplementsSlotPool
