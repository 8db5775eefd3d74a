SPECIFICATION Spec
CONSTANTS
    i1 = i1
    i2 = i2
    Desks = {"A1", "B1"}
    Strips = {i1, i2}
    Faders <- MCFaders
    Unity <- Quiet
    Boosts = {1, 3}
    Effects = {0, 1}
    Groups = {"g", "h"}
    MaxGroups = 1
    Kits <- MCKits
    MaxMoved = 1
    Nothing = Nothing
    Sinks = {"A1", "B1"}
    Consoles <- MCConsoles
    Shipped <- MCShipped
    Trim <- MCTrim
    NoFile = NoFile
    Torn = Torn
    Rejected = Rejected
    Defaults <- MCDefaults
    Choices <- MCChoices
    Unreadable = Unreadable
    Addresses = {a1, a2}
    Ports = {1, 2}
    MaxCerts = 3
    NoServer = NoServer
    Cut = Cut
    Endpoints = {"e1", "e2"}
    Commands = {c1, c2}
    SlotOf <- MCSlot
    Requests <- MCRequests
    Factory <- MCFactory
    NoRequest = NoRequest
    Outputs = {0, 2, 3, 4, 6}
    PipeSize = 2
    Limit = 3
    Timeout = 2
INVARIANTS
    TypesOK
    EngineFollowsGraph
    FilesAreSafe
    CableIsSafe
SYMMETRY Symmetry
CHECK_DEADLOCK FALSE
