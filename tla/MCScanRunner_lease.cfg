SPECIFICATION MCSpec
CONSTANTS
    Runners = {r1, r2}
    Jobs <- TwoJobs
    Tools = {nuclei}
    Findings = {1, 2}
    Title <- OneTitle
    RunCap = 1
    Stale = 1
    MaxFaults = 1
    Targets = {t1}
    NoJob = NoJob
    NoRunner = NoRunner
    SweepEvery = 1
INVARIANTS
    RunnerInv
    NoticeOnce
PROPERTIES
    NoticeMeansChangeUnlessFault
    EndedStays
    ReportComplete
    ImplementsQueue
    EveryJobEnds
