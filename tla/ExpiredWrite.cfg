SPECIFICATION Spec
CONSTANTS
    e1 = e1
    e2 = e2
    i1 = i1
    h1 = h1
    h2 = h2
    r1 = r1
    f1 = f1
    f2 = f2
    f3 = f3
    NoWorker = NoWorker
    NoOutput = NoOutput
    NoFailure = NoFailure
    Worker = {e1, e2, i1}
    External = {e1, e2}
    Internal = {}
    Handler = {h1, h2}
    Output = {r1}
    Failure = {f1, f2}
    FailureText <- SharedText
    Retryable = {f1}
    RetryDelay <- JustOne
    PolicyMaxRetries = 1
    TaskId <- OneTask
    MaxRetriesOf <- ZeroOrOne
    LeaseDuration = 2
    Skew = 0
    Operation = {"complete"}
    Progress <- Half
    MaxCalls = 2
    MaxCrashes = 0
    MaxNow = 2
PROPERTY ExpiredWorkerCannotWrite
CHECK_DEADLOCK FALSE
