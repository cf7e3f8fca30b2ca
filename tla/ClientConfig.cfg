\* A client made with one or two options, and two clones - a derived client, a call -
\* with one each, made at any moment from any config that is ready.
\* Every config gets made, then nothing happens.
CONSTANTS
    Clients = {"client"}
    Clones = {"derived", "call"}
    NoConfig = "nil"
    OptionLists <- MCOptionLists
    Segments <- MCSegments
    Settings <- MCSettings
    Spellings <- MCSpellings
    Environments <- MCEnvironments
SPECIFICATION Spec
INVARIANTS TypeOK EveryRequestIsAsConfigured DeploymentHasOneKey EveryNoticeOnce
CHECK_DEADLOCK FALSE
