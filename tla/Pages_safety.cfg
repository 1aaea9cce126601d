SPECIFICATION Spec
CONSTANTS
    c1 = c1
    c2 = c2
    Calls = {c1, c2}
    Scopes <- DashboardScopes
INVARIANTS TypeOK OldViewsHaveACause RefusalsHaveACause
CHECK_DEADLOCK FALSE
