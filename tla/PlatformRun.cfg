SPECIFICATION PSpec
CONSTANTS
  t1 = t1
  t2 = t2
  Thread = {t1, t2}
  Lossy = TRUE
  \* WorkflowExecution
  Workflow = {"a", "b"}
  Nodes <- TwoWorkflows
  Registered = {"a", "b"}
  Idle = Idle
  \* KnowledgeVersions
  FreePath = {"title"}
  LockedPath = {"canonical"}
  UnknownPath = {"typo"}
  Subset <- Sections
  ProviderName = "claude"
  BareImages = TRUE
  Retries = 1
  MaxRow = 3
  MaxEdit = 1
  \* EngineReports
  Tok <- TokOf
  Measures <- TwoPages
  Sites <- SomeSites
  Options <- SomeOptions
  Targets <- SomeTargets
  MaxReport = 2
  \* AiGateway
  Adapter = {"google", "openai", "ollama"}
  Enabled = {"openai", "ollama"}
  Order <- PriorityList
  RetryLimit = 2
  FallbackEnabled = TRUE
  MaxCall = 2
  \* GrowthAutomation
  Rule = {"r1", "r2"}
  Trigger <- OnCrawled
  Condition <- FromThree
  Known = {"r1"}
  EventType = {"crawled"}
  Payload = {3}
  MaxEvent = 2
  Credential <- SomeCredentials
  Tenant = "acme"
  \* GrowthContent
  AssetType <- OneArticle
  MaxHistory = 3
  \* GrowthReports
  Pages <- BusinessPages
  Reviews <- SomeReviews
  Contents <- OneContent
  DraftLimit = 2
  SnippetLimit = 1
  PaaLimit = 2
  MaxGrowthReport = 2
  \* RankTracking
  shoes = shoes
  boots = boots
  Text = {shoes, boots}
  Device = {"desktop", "mobile"}
  Position = {3}
  ChangeLimit = 2
  Cadence = {"daily"}
  Format = {"json"}
  PerDay = 2
  MaxKeyword = 2
  MaxCapture = 3
  MaxArtifact = 1
  \* Agency
  Id = {"i1"}
  Party = {"p1", "p2"}
  TaskStatus = {"open", "done"}
  \* SaasRecords
  Chat = {"c1"}
  App = {"a1"}
  Subject = {"x1"}
  Person = {"p1", "p2"}
  MaxServed = 3
  \* AgentPlanning
  StepId = {1, 2, 3, 9}
  PlanAnswers <- PlanGraphs
  MaxGoal = 1
  MaxPlan = 1
  \* AgentMemory
  FactKey = {"f1"}
  Learner = {"x1"}
  Execution = {"e1"}
  GoalId = {"g1"}
  Ttl = {1}
  MaxMemory = 3
  MaxClock = 2
  \* AutonomousGoals
  Happening <- SomeHappenings
  Windows <- ShortSeries
  MaxObserved = 3
  MaxMade = 4
SYMMETRY PlatformSymmetry
INVARIANTS RunsAreGoverned KnowledgeHolds VersionsHold GatewayHolds
  AutomationHolds ContentHolds RankingsHold AgencyHolds RecordsHold
  PlanningHolds MemoryHolds GoalsHold ReportsAgree
CHECK_DEADLOCK FALSE
