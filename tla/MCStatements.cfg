SPECIFICATION Spec
CONSTANTS
    Bodies <- MCBodies
    Roots = {"always", "initial", "event", "function", "net", "variable", "values", "parameter"}
    Vars <- MCVars
    Streams = {1, 2}
    Starts <- MCStarts
    Width = 4
    Members <- MCMembers
    MaxTurns = 4
INVARIANT EffectsKept
CHECK_DEADLOCK FALSE
