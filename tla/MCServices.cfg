SPECIFICATION Spec
CONSTANTS
  Profiles <- MCProfiles
  Forms <- MCForms
  NoForm = NoForm
  Amounts <- MCAmounts
  Targets <- MCTargets
  MaxActions = 4
  Batches <- MCBatches
  NoVariation = NoVariation
  NoValue = NoValue
  BadDate = BadDate
  Plans <- MCPlans
  Texts <- MCTexts
  MaxFallbacks = 2
  Workers = {w1, w2}
  Nicknames = {"gold"}
  NoRow = NoRow
  MaxEvents = 3
  MaxDeliveries = 4
  Hooks = {h1, h2}
  Owners = {o1, o2}
  EventTypes = {e1}
  Subscriptions = {{}, {e1}}
  CryptKeys = {NoCryptKey, c1}
  NoCryptKey = NoCryptKey
  Dispatches = {d1}
  MaxRestarts = 1
  Customers = {root, u}
  Root = root
  DemoUser = demo
  ApiKeys = {k1, k2}
  Prefix <- MCPrefix
  StaticKey = StaticKey
  NoExpiry = NoExpiry
  NoRole = NoRole
  Lifetime = 2
  Lifetimes = {0}
  Horizon = 2
  MaxTokens = 2
  MaxLogins = 1
  Admins = {a1, a2}
  FlagKeys = {f1}
  RuleSets <- MCRuleSets
  NoFlag = NoFlag
  NotGiven = NotGiven
  Periods = {1, 2, 5, 7, 16, 23, 30}
  LastDay = 420
CONSTRAINT Apart
INVARIANTS
  AssessmentCoherent
  ProjectionSound
  LettersSound
  PlanCoherent
  CopiesNeedTheirPeriod
PROPERTIES
  BillingSound
  WebhooksSound
  AccessSound
  FlagsSound
CHECK_DEADLOCK FALSE
