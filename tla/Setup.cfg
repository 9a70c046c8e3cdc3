SPECIFICATION FairSetup
CONSTANTS
    Processes = {p1, p2}
    p1 = p1
    p2 = p2
    Origins = {0, 1, 2, 3, 4}
    Files <- FilesOfBundle
    InitOf = {0, 3}
    Found = {"none", "stale", "torn"}
    MaxKills = 1
INVARIANTS ReadyMeansMigrated ZeroMeansGenerated
PROPERTIES ForwardWithBackup StaysOpenable BundleIsRepaired
