\* Two messages, one of them unsupported media, two workers, two faults;
\* fairness; no expiry.
SPECIFICATION FairSpec
CONSTANTS
  Worker = {w1, w2}
  NoOwner = NoOwner
  Message = {m1, m2}
  Unsupported = {m2}
  MaxFaults = 2
  MaxEvictions = 0
PROPERTIES
  EveryMessageSettles
