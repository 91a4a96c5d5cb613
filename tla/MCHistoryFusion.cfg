SPECIFICATION FairSpec
CONSTANTS
    r1 = r1
    r2 = r2
    Datasets <- MCDatasets
    Filters <- MCFilters
    MaxTasks = 1
    MaxKicks = 2
INVARIANTS
    StageOutputsAreCurrent
    ResultsFitData
PROPERTY AnalysisEnds
