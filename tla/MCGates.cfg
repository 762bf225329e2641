SPECIFICATION GatesSpec
CONSTANTS
    MinSamples = 5
    NotANumber = NotANumber
    NoTime = NoTime
    BadTime = BadTime
    Alerts <- MCAlerts
    Silhouettes = {0, 300}
    Loads = {0, 90, 100, 110}
    Horizons = {1, 30}
    Measured <- MCMeasured
    MaxSamples = 10
    MaxAlerts = 6
    MaxHistory = 5
INVARIANT
    HeaviestMetricBlocks
PROPERTIES
    BetterEvidenceKeepsApproval
    LaterAlertsOnlyJoin
