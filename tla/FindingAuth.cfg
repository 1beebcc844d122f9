\* A 401 that is not degraded to the fallback.
SPECIFICATION SafeSpec
CONSTANTS
    None = None
    Thread = {t1}
    Call = {c1}
    Configured = {"LANGFUSE_PUBLIC_KEY"}
    Purpose <- MCPurpose
    Model = {"turbo", "plus", "vl_max", "vl_plus"}
    MODEL_CAPABILITIES <- MCCapabilities
    PURPOSE_REQUIREMENTS <- MCRequirements
    MinTimeout = 1
    MaxTimeout = 2
    MaxRetries = 1
    MaxTemperature = 2
    Document <- Republished
    Override = {0}
    CancelLag = 0
INVARIANT AuthDegradesToFallback
