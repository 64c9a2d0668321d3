\* One message, two deliveries, one fault.
SPECIFICATION Spec
CONSTANTS
  Worker = {w1, w2}
  NoOwner = NoOwner
  Message = {m1}
  Unsupported = {}
  MaxFaults = 1
  MaxEvictions = 0
INVARIANT AgentRunsOnce
