\* Two lifespans of one process, a health check and a handler, one connection.
SPECIFICATION AppSpec
CONSTANTS
    None = None
    Thread = {main}
    Disposer = {main}
    Session = {s1}
    Probe = {p1}
    PoolLimit = 1
    MaxLifespans = 2
    Configured = {"LANGFUSE_PUBLIC_KEY"}
    Purpose = {"CHITCHAT"}
    Model = {"turbo", "plus"}
    MODEL_CAPABILITIES <- MCCapabilities
    PURPOSE_REQUIREMENTS <- MCRequirements
    MinTimeout = 1
    MaxTimeout = 1
    MaxRetries = 0
    MaxTemperature = 0
    Document <- Documents
INVARIANTS
    AppTypeOK ServingIsReady OneEnginePerLifespan EnginesStayHome NothingLeftBehind
    OnlyCancelledStrand
PROPERTIES TableIsFinal ProbeDecided
