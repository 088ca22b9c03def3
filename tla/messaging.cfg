SPECIFICATION Spec
CONSTANTS
  p = p
  q = q
  mail = mail
  audit = audit
  m1 = m1
  m2 = m2
  Process = {p, q}
  Listener = {mail, audit}
  HomeOf <- MCHomeOf
  ListensOn <- MCListensOn
  Message = {m1, m2}
  IdOf <- MCIdOf
  SenderOf <- MCSenderOf
  TargetsOf <- MCTargetsOf
  Mode <- MCMode
  FixedId = {mail}
  Unchecked = {audit}
  SharedStore = TRUE
  MaxFaults = 2
INVARIANTS HandledOnce SettledIsHandled
CHECK_DEADLOCK FALSE
