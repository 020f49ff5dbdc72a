SPECIFICATION MCSpec
CONSTANTS
  NoText = NoText
  EditError = EditError
  NoSummary = NoSummary
  Files = {"cpu", "isa"}
  Pristine <- Text
  Catalogues <- MCCatalogues
  Invocations <- MCInvocations
  Behaviours <- MCBehaviours
  PristineBehaviours <- MCPristine
  InitialCaches <- MCCaches
  MaxRuns = 3
  MaxFaults = 2
INVARIANTS RecoverableTree VerdictsTrue ReportTrue
PROPERTIES ResumeExact InvocationsEnd
CHECK_DEADLOCK FALSE
