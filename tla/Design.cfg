\* Every document pipeline by itself: what a model may write, lose or invent.
CONSTANTS
  Stems = {"user", "order", "raw_order", "pay", "docs", "document", "buyer", "log", "cart", "x1", "x2"}
  Entities = {"User", "Order", "Buyer", "we must manage users"}
  Sentences = {"we must manage users"}
  Generic = {"table"}
  StandardName <- MCStandardName
  Base <- MCBase
  Kin <- MCKin
  Drafts <- MCDrafts
  Links <- MCLinks
  Minutes <- MCMinutes
  Definitions <- MCDefinitions
  Called <- MCCalled
  Grounded <- MCGrounded
  Misfit <- MCMisfit
  Title <- MCTitle
  Alias <- MCAlias
  MaxReviews = 1
  MaxRepairs = 2
  Erds <- MCErds
  Specs <- MCSpecs
  DbNames = {"user", "order", "x2"}
  NoIdentifier = {"x1", "x2", "raw_order"}
  Foreign <- MCForeign
  Spoken <- MCSpoken
  Similar <- MCSimilar
  MaxReruns = 1
  NumFurs = 2
  MaxAtoms = 2
  MaxGroup = 3
  MaxItems = 2
  Bodies <- MCBodies
  Contents <- MCContents
  Rfps <- MCRfps
  Documents <- MCDocuments
  Meetings <- MCMeetings
  Rewritings <- MCRewritings
  Replies <- MCReplies
  RowNames <- MCRowNames
  MaxRows = 2
  TsReqs = 2
  CaseTypes <- MCCaseTypes
  Traces <- MCTraces
  CaseAnswers <- MCCaseAnswers
  StepAnswers <- MCStepAnswers
  OldDocuments <- MCOldDocuments
  Rewritten <- MCRewritten
  MaxHeard = 1
  DrawnTables = 5
  Relations <- MCRelations
  Sortings <- MCSortings
  MaxTables = 3
  Few = 3
  OrphanTables = 2
SPECIFICATION Spec
INVARIANTS
  ExportTakesIt
  WishesHold
  DbKeepsErd
  DrawnOnce
  GoldTraces
  ChangesHitTheirOwn
  EverythingIsTested
PROPERTIES
  RepairInScope
