SPECIFICATION DeliverySpec
CONSTANTS
    Keys = {k1}
    MaxRetries = 2
    MaxCalls = 2
PROPERTY
    LatestIsProcessed
CHECK_DEADLOCK FALSE
