SPECIFICATION Spec
CONSTANTS
  Form = {"flag", "segment", "project", "environment", "sdkKey", "member", "role", "trigger", "change", "schedule", "grant", "user", "webhook", "login", "setup", "confirm", "ruleNew", "ruleEdit", "segmentEdit", "projectName"}
  Texts <- MCTexts
  Notes <- MCNotes
  Trim <- MCTrim
  Slug <- MCSlug
  Stored <- MCStored
  LongTexts = {"Beta Users", "beta-users"}
  Perms = {"flag.read", "flag.write"}
  Roles = {"dev"}
  Attributes = {"", "plan"}
  Hows = {1}
  ValueTexts = {"", "a,"}
  ParseValues <- MCParse
  DisplayValues <- MCDisplay
  NVariations = 2
  PercentInputs = {40, 60, 130}
  KeyTexts = {"a b", "a", "b"}
  Words <- MCWords
  MaxClauses = 2
  MaxRules = 2
  MaxVars = 3
  MaxEdits <- MCMaxEdits
  MaxOthers = 1
  MaxVersion = 2
  MaxAdrift = 1
INVARIANTS TypeOK InputValid TextIsClause DirtyIsDifferent
PROPERTIES ReopensBlank SavePreserves
CHECK_DEADLOCK FALSE
