SPECIFICATION Spec
CONSTANTS
    quiet = quiet
    timed = timed
    Name <- MCName
    Value <- MCValue
    Unbound = Unbound
    Ctx = {quiet, timed}
    Binds <- MCBinds
    Action = {timed}
    None = None
    Var <- MCVar
    EnvValue = {"", "True"}
    Empty = ""
    Unset = Unset
    Invalid = Invalid
    Envs <- MCEnvs
    Dsn = "SENTRY_DSN"
    Tag = {"release"}
    MaxOpen = 2
INVARIANTS
    TypeOK
    LoggerIsThere
    NothingLeaks
PROPERTIES
    LoggerRestored
