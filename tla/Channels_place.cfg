SPECIFICATION RegistrySpec
CONSTANTS
    s1 = s1
    s2 = s2
    n1 = n1
    n2 = n2
    r1 = r1
    None = None
    MaxChannels = 2
    MaxTypes = 2
    Names = {n1, n2}
    TypeNames = {"dev"}
    Users = {r1}
    Robots = {r1}
    Covered <- OneCovered
    Sources = {"api", "manual", "scheduled"}
    Slots = {s1, s2}
SYMMETRY SlotSymmetry
INVARIANTS
    DefaultTypeLive
    PlacedAsAuthorised
    
