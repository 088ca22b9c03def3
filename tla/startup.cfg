SPECIFICATION StartupSpec
CONSTANTS
  n1 = n1
  n2 = n2
  n3 = n3
  n4 = n4
  Node = {n1, n2, n3, n4}
  Workers <- MCWorkers
  Queues <- MCQueues
  Entry <- MCEntry
  HasCron = {n1, n2}
  Stream = {"shop", "stock", "post", "DEFAULT_STREAM"}
  PrefixOf <- MCPrefixOf
  MaxErrors = 1
INVARIANTS SubjectsKept OwnSubjectsOnly CronsLast
