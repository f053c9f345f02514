SPECIFICATION Spec
CONSTANTS
  Languages <- MCLanguages
  DefaultLang = "en"
  PageWildcards = {"{x}", "{y}"}
  BasePaths <- MCBasePaths
  NoPath = NoPath
  NoPage = NoPage
  Scenarios <- MCScenarios
  Callers <- MCCallers
  Requests = {q1, q2}
INVARIANT
  AliasesCanonical
CHECK_DEADLOCK FALSE
