SPECIFICATION CronSpec
CONSTANTS
  n1 = n1
  n2 = n2
  backup = backup
  cleanup = cleanup
  Node = {n1, n2}
  Cron = {backup, cleanup}
  NameOf <- MCNameOf
  Instances <- MCInstances
  Ticks <- MCTicks
  Skew <- MCSkew
  Second = 2
  lockTtl = 2
  MaxTime = 2
  Extends = {backup}
  MayEnd = {n1}
  MaxFaults = 1
INVARIANTS  RefusedTickWasRun
CHECK_DEADLOCK FALSE
