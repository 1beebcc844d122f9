\* A file that is not UTF-8.
SPECIFICATION StartupSpec
CONSTANTS
    None = None
    Thread = {t1}
    Configured = {"LANGFUSE_PUBLIC_KEY", "LANGFUSE_SECRET_KEY"}
    Purpose <- LLMPurpose
    Model <- MCModel
    MODEL_CAPABILITIES <- ModelCapabilities
    PURPOSE_REQUIREMENTS <- PurposeRequirements
    MinTimeout = 100
    MaxTimeout = 60000
    MaxRetries = 5
    MaxTemperature = 10
    Document <- MCDocument
    MODEL_PRICES <- ModelPrices
    TIERED_MODELS <- TieredModels
    TIER1_TOKEN_LIMIT = 128000
    PRICE_LIST <- MCPriceList
    Usage <- MCUsage
INVARIANT LoadFailuresAreConfigErrors
