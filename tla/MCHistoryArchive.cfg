SPECIFICATION Spec
CONSTANTS
    r1 = r1
    r2 = r2
    Datasets <- MCDatasets
    Filters <- MCFilters
    MaxTasks = 1
    MaxKicks = 2
PROPERTY ArchivedStays
