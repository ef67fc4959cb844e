SPECIFICATION Spec
CONSTANTS
  Dashboards = {d1}
  QueueCap = 2
  Prefetch = 2
  MaxSent = 2
  MaxPolls = 1
  MaxJoins = 2
  MaxFaults = 2
INVARIANTS
  FeedExact
  OneRowEach
  FreshWhenDrained
PROPERTY NeverGoesBack
CHECK_DEADLOCK FALSE
