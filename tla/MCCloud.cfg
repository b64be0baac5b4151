SPECIFICATION CloudSpec
CONSTANTS
    Providers = {"aws", "do", "gcp"}
    IDLE_MIN = 3
    MAX_MIN = 5
    CEILING_MIN = 2
    ARM_MIN = 2
    Skews <- MCSkews
    MaxSteps = 1
    MaxCrashes = 1
    Clouds = {"aws", "do", "gcp"}
    Hosted = {a, b}
    MAX_ATTEMPTS = 2
    MaxLost <- LostCreates
    MaxEnds = 1
    MaxSweeps = 1
    Pids = {1, 2}
    Programs = {app, cli}
    MaxStarted = 3
    MaxOperations = 2
    Accounts = {"aws", "do"}
    Secrets = {s1}
    FromEnv = {}
    MaxJobs = 3
    Armed = {r1, r2}
    OwnRules = {own1, own2}
    MAX_RULES = 2
    PUT_ATTEMPTS = 2
INVARIANTS
    EveryMachineEnds
    GuardIsFair
    CleanSweepLeavesNothing
    
    LiveKeepsItsWall
    StrangersSpared
    RunningIsListed
    LaunchesItsOwnRegion
    PromisedRulesStand
SYMMETRY NamesAlike
CHECK_DEADLOCK FALSE
