\* Two Apps, two releases, two tabs; one stop, one failure and one edit of the
\* configuration, any to begin with; sessions that last until the clock ticks.
SPECIFICATION Spec
CONSTANTS
  ann = ann
  Apps <- MCApps
  Releases <- MCReleases
  Declared <- MCDeclared
  Tables <- MCTables
  Framework = {"sqlite_sequence", "_larkstack_migrations"}
  Prefixed <- MCPrefixed
  NoTxn = NoTxn
  Logins = {1, 2}
  Accounts = {ann}
  EmailsOf <- MCEmailsOf
  Addresses <- MCAddresses
  Lower <- MCLower
  Blank = ""
  Names = {"main"}
  Configs <- MCConfigs
  Derived = "derived"
  Secret = "short"
  TTL = 0
  Open = Open
  Short = Short
  None = None
  MaxStops = 1
  MaxFaults = 1
  MaxEdits = 1
  MaxNow = 1
INVARIANTS
  BootInv
  RefusalExplained
  SessionSurvives
PROPERTY BootsAnyway
CHECK_DEADLOCK FALSE
