SPECIFICATION RuntimeSpec
CONSTANTS
    e1 = e1
    e2 = e2
    r1 = r1
    f1 = f1
    f2 = f2
    NoWorker = NoWorker
    NoOutput = NoOutput
    NoFailure = NoFailure
    Worker = {e1, e2}
    External = {e1, e2}
    Internal = {}
    Runtime = {e1}
    Handler <- RuntimeHandlers
    HeartbeatFailure = f1
    TimeoutFailure = f1
    NotFoundFailure = f2
    Output = {r1}
    Failure = {f1, f2}
    FailureText <- OwnText
    Retryable = {f1}
    RetryDelay <- JustOne
    PolicyMaxRetries = 1
    TaskId <- OneTask
    MaxRetriesOf <- JustOne
    LeaseDuration = 2
    Skew = 0
    Operation <- AllOps
    Progress <- Half
    MaxCalls = 3
    MaxCrashes = 0
    MaxNow = 0
PROPERTIES
    TokenNeverGoesBack
CHECK_DEADLOCK FALSE
