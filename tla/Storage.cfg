SPECIFICATION MCSpec
CONSTANTS
    i1 = i1
    h1 = h1
    h2 = h2
    r1 = r1
    f1 = f1
    NoWorker = NoWorker
    NoOutput = NoOutput
    NoFailure = NoFailure
    Worker = {i1}
    Internal = {i1}
    Handler = {h1, h2}
    Output = {r1}
    Failure = {f1}
    FailureText <- OwnText
    Retryable = {f1}
    RetryDelay <- OneUnit
    PolicyMaxRetries = 2
    TaskId <- ThreeTasks
    MaxRetriesOf <- NoneOrTwo
    LeaseDuration = 1
    Skew = 0
    MaxNow = 1
    MaxCrashes = 0
    Backend = {"memory", "mysql"}
    Filter <- QueuedOrAll
    Limit = 1
    MaxEvents = 5
    MaxCalls = 2
INVARIANTS
    TypeOK
    StoresAgree
    DetailNotBehind
    
    OnlyCancellationIsLate
    WalkListsOnce
    WalkIsComplete
    StatsAreBracketed
    HolderCanProceed
PROPERTIES
    BackendImplementsLifecycle
CHECK_DEADLOCK FALSE
