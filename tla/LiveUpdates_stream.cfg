SPECIFICATION LiveSpec
CONSTANTS
    key1 = key1
    key2 = key2
    page1 = page1
    widget1 = widget1
    Listeners = {page1, widget1}
    Widgets = {widget1}
    First = page1
    FirstKeys = {key1}
    Keys = {key1, key2}
    Wanted <- One
    Changing = {key1}
    Busy = {}
    NoStream = NoStream
    MaxActs = 2
    MaxUpdates = 1
    MaxFaults = 1
    MaxRequests = 2
INVARIANTS StreamsOwned
 
CHECK_DEADLOCK FALSE
