SPECIFICATION Spec
CONSTANTS
    a = a
    b = b
    c = c
    gone = gone
    Names = {a, b, c, gone}
    Selected = {a, b, c}
    Manifests <- MCManifests
    CtkAvailable = TRUE
INVARIANTS
    HeldDependenciesRun
    BackendsAgree
    EveryPluginHasVerdict
    NothingSurvivesShutdown
CHECK_DEADLOCK FALSE
