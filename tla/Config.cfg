SPECIFICATION Spec
CONSTANTS
    Procs = {p1, p2}
    Services = {s1, s2}
    Values = {1, 2}
    Default = 1
    Definitions = {1, 2}
    MaxRequests = 4
    MaxFaults = 1
SYMMETRY Symmetry
INVARIANT CacheFresh
 
INVARIANT ServicesInformed
CHECK_DEADLOCK FALSE
