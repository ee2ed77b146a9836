SPECIFICATION DebugSpec
CONSTANTS
    Trials = {r1, r2}
    TrialKinds = {"file", "inline", "code"}
    MaxInstalls = 2
    AutoInstall = TRUE
INVARIANT RetryFindsScript
CHECK_DEADLOCK FALSE
