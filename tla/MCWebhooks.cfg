\* Two requests, a replaced document, a restart of either App, one fault.
CONSTANTS
  Hooks = {h1, h2}
  Paths <- MCPaths
  Events = {"pull_request", "issues", "workflow_run", "secret_scanning", "dependabot", "merge_request", "issue", "pipeline", "note", "push"}
  Targets = {"ops", "dev", "ann@", "bob@"}
  Usernames = {"ann", "eve"}
  Labels = {"Bug", "bug", "late"}
  Lower <- MCLower
  Blank = Blank
  Menu <- MCMenu
  Built <- MCBuilt
  Stored <- MCStored
  Docs <- MCDocs
  Text <- MCText
  Secrets = {"k1", "k2"}
  None = None
  MaxEdits = 1
  MaxFaults = 1
SPECIFICATION Spec
INVARIANTS
  StoredInv
  RoutedByOneVersion
PROPERTY EveryHookAnswered
\* Every request answered, nothing is left to do.
CHECK_DEADLOCK FALSE
