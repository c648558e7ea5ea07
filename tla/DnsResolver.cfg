SPECIFICATION FairSpec
CONSTANTS
    Lookup4 = l4
    Lookup6 = l6
    Others = {x}
    MaxCalls = 2
    Scenarios <- MCScenarios
    Servers = {s1, s2}
    None = None
INVARIANTS FilteredNotFromMain ServersSpared LookupSound
PROPERTY ResolverEnds
CHECK_DEADLOCK FALSE
