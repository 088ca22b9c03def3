SPECIFICATION Spec
CONSTANTS
  u1 = u1
  u2 = u2
  r = r
  Absent = Absent
  Caller = {u1, u2}
  Resource = {r}
  ResourceOf <- AllOnOne
  Limit <- LimitOne
  Duration = 3
  Threshold = 2
  Slack = 1
  MayFail = FALSE
INVARIANT Released
