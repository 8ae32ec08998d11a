SPECIFICATION Spec
CONSTANTS
  m1 = m1
  m2 = m2
  m3 = m3
  c1 = c1
  c2 = c2
  Letters = {m1, m2, m3}
  Unaddressed = {m3}
  Checked = {m2}
  Consumers = {c1, c2}
  InboxRetries = 3
  MaxInboxFaults = 1
  NoLetter = NoLetter
  p1 = p1
  p2 = p2
  n1 = n1
  n2 = n2
  Pages = {p1, p2}
  Notices = {n1, n2}
  MaxRestarts = 1
  NoPage = NoPage
  StepChannels = {"Notification", "Sms", "Email"}
  Delays = {1}
  DueTimes = {0}
  OwnTime = 5
  MaxSteps = 3
  MaxContactFaults = 1
  Null = Null
  v1 = v1
  v2 = v2
  g1 = g1
  g2 = g2
  Codes = {v1, v2}
  FirstCodes = {v1}
  CodeConsumers = {g1, g2}
  VerifyRetries = 3
  MaxVerifyFaults = 1
  MaxReports = 1
  EmptyId = EmptyId
  h1 = h1
  h2 = h2
  r1 = r1
  r2 = r2
  s1 = s1
  s2 = s2
  Hosts = {h1, h2}
  Requests = {r1, r2}
  SettingValues = {s1, s2}
  FirstValue = s1
  MaxSets = 2
  NoDictionary = NoDictionary
  ApiHosts = {h1, h2}
  MaxChecks = 4
  MaxHostStarts = 3
  MaxCheckFaults = 1
INVARIANTS
  ServicesTypeOK
  NotifiedMeansStored
  OneStranded
  UnreadExact
  ActiveUsersExact
  ReadyPageGetsIt
  StepsInOrder
  ConditionsComplete
  EachPartOnce
  RowMeansText
  TextsAreDisturbances
  FewLateTexts
  FreshAfterLoneSet
  FailsOnlyBesideFill
  OneJobOfItsOwn
  CheckingGoesOn
PROPERTIES
  ContactLateDelete
CHECK_DEADLOCK FALSE
