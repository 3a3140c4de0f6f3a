SPECIFICATION FairSpec
CONSTANTS
    MaxBatch = 2
    MaxOps = 3
    MaxFailures = 2
    MaxCrashes = 2
    MaxResumes = 1
    FailCuts = {"none", "torn", "bare"}
    CrashCuts = {"none", "torn", "bare"}
INVARIANT TypeOK
INVARIANT AckedDurable
INVARIANT InOrder
INVARIANT ResumeAccepts
INVARIANT Rebuildable
PROPERTY OperationEnds
CHECK_DEADLOCK FALSE
