SPECIFICATION FairSpec
CONSTANTS
    Runners = {r1}
    Jobs <- TwoJobs
    Tools = {nuclei}
    Findings = {f1, f2}
    Title <- OneTitle
    RunCap = 1
    Stale = 1
    MaxFaults = 0
    Targets = {t1}
    NoJob = NoJob
    NoRunner = NoRunner
    SweepEvery = 1
PROPERTIES
    NoticeMeansChange
