\* One call while two threads race through initialize() and the YAML changes.
SPECIFICATION SafeSpec
CONSTANTS
    None = None
    Thread = {t1, t2}
    Call = {c1}
    Configured = {"LANGFUSE_PUBLIC_KEY"}
    Purpose <- MCPurpose
    Model = {"turbo", "plus", "vl_max", "vl_plus"}
    MODEL_CAPABILITIES <- MCCapabilities
    PURPOSE_REQUIREMENTS <- MCRequirements
    MinTimeout = 1
    MaxTimeout = 2
    MaxRetries = 1
    MaxTemperature = 2
    Document <- RaceDocuments
    Override = {0}
    CancelLag = 1
INVARIANTS
    GatewayTypeOK NoInternalRefusal RequestsAreCapable RequestsFollowOneRow
    FallbackOnlyAfterFailure VerdictMatchesAttempts
    SpendFollowsVerdict WithinTwoBudgets TracesTagged
PROPERTY CancelStopsCall
SYMMETRY ThreadSymmetry
