SPECIFICATION MCSpec
CONSTANTS
  Scenarios = {"flow", "evidence"}
  Actors = {"clerk", "lead", "inv", "wit", "rev", "rev2"}
  NoActor = "nobody"
  SampleIds = {"s1", "s2"}
  EvidenceIds = {"e1", "e2", "e3"}
  HypothesisIds = {"h1", "h2", "h3"}
  ActionIds = {"iso", "clean", "rt1", "rt2"}
  ItemIds = {"i1"}
  Categories = {"ion", "blank"}
  Metrics = {"ions"}
  Values = {1, 2}
  Digests = {"e1", "e2", "e3"}
  Sources = {"drill", "glove"}
  Scopes = {"dating", "gas"}
  Times = {1, 2, 3}
  CollectionGrace = 1
  NoThreshold = NoThreshold
  MaxRevision = 20
  CreateCommands <- Created
  FreezeCommands <- AllFreezes
  EvidenceCommands <- AllEvidence
  HypothesisCommands <- AllHypotheses
  PlanCommands <- AllPlans
  VerifyCommands <- AllVerifications
  RejectCommands <- AllRejections
  CloseCommands <- AllClosings
  DispositionCommands <- AllDecisions
INVARIANTS
  TypeOK SecondApprovalRestsOnNewWork
  CustodyIntact HypothesesRestOnCompleteSamples
PROPERTIES LifecycleSpec ReviewedMaterialFrozen RecordsPermanent
CHECK_DEADLOCK FALSE
