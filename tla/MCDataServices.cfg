SPECIFICATION MCSpec
CONSTANTS
    Threads = {t1, t2}
    Models = {m1, m2}
    Readers = {r1}
    Entries = {e1, e2}
    GivenLists <- MCLists
    MaxChanges = 5
    import1 = import1
    import2 = import2
    single1 = single1
    single2 = single2
    Batches <- MCBatches
    Imports <- MCImports
    Size <- MCSize
    Descriptions <- MCDescriptions
    Panels <- MCPanels
    Recordings <- MCRecordings
    Second = 2
    ChunkLimit = 1
    Typed <- MCTyped
    Seconds = {1}
    MaxClips = 1
INVARIANTS
    ReadersCatchUp
    EditsSurvive
    ConsoleShowsOneDevice
    ClipsAreExact
PROPERTY ImportsAreAtomic
CHECK_DEADLOCK FALSE
