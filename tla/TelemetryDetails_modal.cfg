SPECIFICATION Spec
CONSTANTS
    power = power
    state = state
    plan = plan
    Keys = {power, state, plan}
    NoKey = NoKey
    NoChart = NoChart
    Kind <- MCKind
    States = 2
    Numbers = {21500, 1200000}
    Lang = "de"
    Times = {1, 2}
    MaxActs = 3
    MaxOpening = 2
    MaxEntries = 2
INVARIANTS ValuesOwned ScheduleCoded
PROPERTIES EventuallyShown
CHECK_DEADLOCK FALSE
