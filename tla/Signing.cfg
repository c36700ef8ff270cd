SPECIFICATION SigningSpec
CONSTANTS
    Loads <- MCLoads  Procs = {"p1", "p2"}  Clients <- MCClients  Tokens <- MCTokens  AllowedIssuers = {"idp"}  Directory <- MCDirectory
    Principals = {"ann", "bob"}  defaultMaxTTL = 3  defaultAllowedTypes = {"ed25519", "rsa"}  fallbackSource = "noop"
    Issuers = {"i1", "i2", "i3"}  cacheTTL = 2  negativeTTL = 1  httpTimeout = 1  maxProviders = 2
INVARIANTS SerialsUnique CertWithinPolicy  CachesSound
PROPERTIES  RefreshKeepsFresh Answered
CHECK_DEADLOCK FALSE
