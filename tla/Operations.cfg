SPECIFICATION OpsSpec
CONSTANTS
    Parts = {"certs", "database", "credentials", "knowledge"}
    Builtin <- TwoLeaves
    Hosts = {h1, h2}
    MaxCommands = 4
    Ports = {5432, 6432}
    DEFAULT_PORT = 5432
    MaxSaves = 3
    AtOnce = 2
    WazuhUsers = {w1, w2}
    Forms = {{"indexer"}, {"indexer", "api"}}
    NoOne = noone
    Chunks = {1, 2}
    Owner <- Owners
    Shared = shared
    Stacks <- EmbeddingStacks
    BatchSize = 1
    MaxChanges = 1
    NULL = NULL
CHECK_DEADLOCK FALSE
INVARIANTS OperationsTypeOK LeavesAreTrusted UrlStaysGood PasswordsKeepTheirUser ConnectsAsValidated StampsAreHonest PassLeavesOneModel 
PROPERTIES  PassEnds
