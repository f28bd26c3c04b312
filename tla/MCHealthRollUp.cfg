SPECIFICATION DamageSpec
CONSTANTS
    Unit = 60
    ContainerNames = {"c1", "c2"}
    WaitReasons = {"CrashLoopBackOff", "Throttled", "ContainerCreating"}
    ExitReasons = {"0", "Error"}
    RestartRates <- MCRates
    Conditions = {"MemoryPressure", "DiskPressure"}
    GracePeriod = 2
    ChildResults <- MCResults
    StartingBags <- MCBags
    MaxReplicas = 6
    MaxEndpoints = 2
    MaxAge = 4
    MaxAlike = 3
INVARIANT HardFailurePinsState
CHECK_DEADLOCK FALSE
