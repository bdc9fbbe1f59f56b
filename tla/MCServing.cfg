SPECIFICATION Spec
CONSTANTS
    Slots = {1, 2, 3, 4}
    Scenarios <- MCScenarios
    AllowedOrigins = {"app"}
    Ids = {"s1", "s2", "s3"}
    MAX_SESSIONS = 2
    SESSION_IDLE = 2
    MaxTime = 4
INVARIANTS SessionsBounded SessionServesItsOpener DrainIsComplete
PROPERTIES SessionsEndForAReason EffectsAreAuthorized KeyIsForLife DrainTimeoutNeedsWork StopLeadsToExit
